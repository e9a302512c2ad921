------------------------------ MODULE Shutdown ------------------------------
(***************************************************************************)
(* Start and graceful shutdown of the relay (services/api/service.go):   *)
(* NewRelayAPI checks its options and the relay pubkey shared through     *)
(* redis and reads the feature flags; StartServer reads the beacon node's *)
(* sync status and the genesis, then serves the routes of getRouter.      *)
(* StopServer, called by the process once the server serves,              *)
(* raises ffForceGetHeader204, sleeps 5 s "for any pending getPayload     *)
(* call", waits for getPayloadCallsInFlight and shuts the HTTP server     *)
(* down, while proposers run getHeader and getPayload against it.         *)
(*                                                                         *)
(* A proposer that was served a header has committed to it and sends its  *)
(* getPayload within PayloadDelay seconds.  Time is a clock of whole      *)
(* seconds; the 100 ms retry sleep of getPayload takes no whole second.   *)
(* http.Server.Shutdown (net/http) closes the listener first and then     *)
(* waits for the handlers of accepted connections to return.  The         *)
(* bookkeeping goroutine of getPayload is modelled in SubmitBlock and     *)
(* Optimistic; here only the block-publishing goroutine is kept.          *)
(***************************************************************************)
EXTENDS Naturals, FiniteSets

CONSTANTS
    Proposers,     \* proposers calling this relay
    SleepTicks,    \* the time.Sleep(5 * time.Second) of StopServer
    PayloadDelay,  \* a proposer sends getPayload within this many seconds of its header
    BestBidDelay,  \* redis answers GetBestBid within this many seconds
    MaxTime,       \* the clock stops here
    RedisFaults    \* TRUE: GetRelayConfig and SetRelayConfig may fail

ASSUME SleepTicks \in Nat /\ PayloadDelay \in Nat \ {0} /\ MaxTime >= SleepTicks
ASSUME RedisFaults \in BOOLEAN /\ BestBidDelay \in Nat

VARIABLES
    opts,       \* RelayAPIOpts: the proposer and block-builder APIs enabled
    relayCfg,   \* the relay pubkey in redis: none, this relay's, another key
    now,        \* the clock
    force204,   \* api.ffForceGetHeader204
    disablePub, \* api.ffDisableBlockPublishing
    start,      \* NewRelayAPI, then the StartServer call
    open,       \* the HTTP listener accepts connections
    wg,         \* api.getPayloadCallsInFlight
    stop,       \* the StopServer call: program counter and wake-up time
    prop,       \* per proposer: where its getHeader/getPayload calls are, header time
    pub         \* per proposer: the block-publishing goroutine

vars == <<opts, relayCfg, now, force204, disablePub, start, open, wg, stop, prop, pub>>

\* A handler whose connection is accepted and that has not returned: a
\* getHeader waiting for redis, or a getPayload.
InHandler == {"bidding", "accepted", "added", "retry", "replied", "failed"}

(* The caller's options, and what redis holds: no relay pubkey yet, this *)
(* relay's (an earlier start) or another key.                             *)
Init ==
    /\ opts \in [proposerAPI: BOOLEAN, builderAPI: BOOLEAN]
    /\ relayCfg \in {"none", "ours", "other"}
    /\ now = 0
    /\ force204 = FALSE
    /\ disablePub = FALSE
    /\ start = "new"
    /\ open = FALSE
    /\ wg = 0
    /\ stop = [pc |-> "running", wake |-> 0]
    /\ prop = [p \in Proposers |-> [pc |-> "idle", at |-> 0]]
    /\ pub = [p \in Proposers |-> "none"]

(* NewRelayAPI: a missing Log, BeaconClient or Datastore, or the builder  *)
(* API without a (valid) secret key, is an error.  With the builder API   *)
(* the relay pubkey is read from redis: none is stored (SetRelayConfig),  *)
(* the same one goes on, another one is ErrRelayPubkeyMismatch; a redis   *)
(* error is returned.  The flags are set from FORCE_GET_HEADER_204 and    *)
(* DISABLE_BLOCK_PUBLISHING.                                               *)
NewRelayAPI ==
    /\ start = "new"
    /\ \/ start' = "error" /\ UNCHANGED <<relayCfg, force204, disablePub>>
       \/ /\ opts.builderAPI /\ (RedisFaults \/ relayCfg = "other")
          /\ start' = "error" /\ UNCHANGED <<relayCfg, force204, disablePub>>
       \/ /\ opts.builderAPI => relayCfg # "other"
          /\ relayCfg' = IF opts.builderAPI THEN "ours" ELSE relayCfg
          /\ start' = "idle"
          /\ force204' \in BOOLEAN /\ disablePub' \in BOOLEAN
    /\ UNCHANGED <<opts, now, open, wg, stop, prop, pub>>

(* getRouter: the proposer routes are registered with the proposer API   *)
(* only, the builder routes with the builder API only.                    *)
Routed ==
    {"root"}
    \cup (IF opts.proposerAPI THEN {"status", "registerValidator", "getHeader", "getPayload"} ELSE {})
    \cup (IF opts.builderAPI THEN {"getValidators", "submitNewBlock"} ELSE {})

(* StartServer: srvStarted.Swap(true); BestSyncStatus and GetGenesis may *)
(* fail and return the error; the blocking duties update and the         *)
(* goroutines started are modelled in ProposerDuties, RandaoOracle,      *)
(* Optimistic and Registration; ListenAndServe opens the listener.       *)
StartServer ==
    /\ start = "idle"
    /\ \/ start' = "serving" /\ open' = TRUE
       \/ start' = "failed" /\ UNCHANGED open
    /\ UNCHANGED <<opts, relayCfg, now, force204, disablePub, wg, stop, prop, pub>>

(* A second passes; redis answers GetBestBid within BestBidDelay, and no  *)
(* proposer misses its getPayload deadline.                              *)
Tick ==
    /\ now < MaxTime
    /\ \A p \in Proposers :
          /\ prop[p].pc = "bidding" => now + 1 <= prop[p].at + BestBidDelay
          /\ prop[p].pc = "served" => now + 1 <= prop[p].at + PayloadDelay
    /\ now' = now + 1
    /\ UNCHANGED <<opts, relayCfg, force204, disablePub, start, open, wg, stop, prop, pub>>

(* handleGetHeader up to the flag: a refused connection, no such route  *)
(* (404), an invalid or too old request (400) or the forced 204 ends the  *)
(* call; else the flag has been read as unset and GetBestBid is sent.     *)
GetHeader(p) ==
    /\ prop[p].pc = "idle"
    /\ \/ prop' = [prop EXCEPT ![p].pc = "nobid"]
       \/ /\ open /\ "getHeader" \in Routed /\ ~force204
          /\ prop' = [prop EXCEPT ![p] = [pc |-> "bidding", at |-> now]]
    /\ UNCHANGED <<opts, relayCfg, now, force204, disablePub, start, open, wg, stop, pub>>

(* GetBestBid answers: the bid is served (the proposer signs it), or an   *)
(* error (400), no bid or a zero-valued one (204) ends the proposer's use *)
(* of this relay.                                                         *)
HeaderReply(p) ==
    /\ prop[p].pc = "bidding"
    /\ \/ prop' = [prop EXCEPT ![p] = [pc |-> "served", at |-> now]]
       \/ prop' = [prop EXCEPT ![p].pc = "nobid"]
    /\ UNCHANGED <<opts, relayCfg, now, force204, disablePub, start, open, wg, stop, pub>>

(* The signed blinded block is sent: the connection is accepted or refused.*)
SendGetPayload(p) ==
    /\ prop[p].pc = "served"
    /\ prop' = [prop EXCEPT ![p].pc = IF open THEN "accepted" ELSE "refused"]
    /\ UNCHANGED <<opts, relayCfg, now, force204, disablePub, start, open, wg, stop, pub>>

(* getPayloadCallsInFlight.Add(1), the first statement of the handler.    *)
Add(p) ==
    /\ prop[p].pc = "accepted"
    /\ wg' = wg + 1
    /\ prop' = [prop EXCEPT ![p].pc = "added"]
    /\ UNCHANGED <<opts, relayCfg, now, force204, disablePub, start, open, stop, pub>>

\* RespondOK, then go publish the block.
Reply(p) ==
    /\ prop' = [prop EXCEPT ![p].pc = "replied"]
    /\ pub' = [pub EXCEPT ![p] = "pending"]

(* The body fails to decode (an i/o timeout), the proposer index is      *)
(* unknown or the signature does not verify: 400.  Else                  *)
(* GetGetPayloadResponse: a hit is answered, a miss retried once.         *)
Lookup(p) ==
    /\ prop[p].pc = "added"
    /\ \/ prop' = [prop EXCEPT ![p].pc = "failed"] /\ UNCHANGED pub
       \/ Reply(p)
       \/ prop' = [prop EXCEPT ![p].pc = "retry"] /\ UNCHANGED pub
    /\ UNCHANGED <<opts, relayCfg, now, force204, disablePub, start, open, wg, stop>>

(* The retry: a hit is answered, an error or a miss answers 400.          *)
Retry(p) ==
    /\ prop[p].pc = "retry"
    /\ \/ Reply(p)
       \/ prop' = [prop EXCEPT ![p].pc = "failed"] /\ UNCHANGED pub
    /\ UNCHANGED <<opts, relayCfg, now, force204, disablePub, start, open, wg, stop>>

(* Mutant: Done called at the end of the success path only.               *)
Done_NotDeferred(p) ==
    /\ prop[p].pc = "replied"
    /\ wg' = wg - 1
    /\ prop' = [prop EXCEPT ![p].pc = "done"]
    /\ UNCHANGED <<opts, relayCfg, now, force204, disablePub, start, open, stop, pub>>

(* Mutant: Done both explicitly and deferred.                             *)
Done_Twice(p) ==
    /\ prop[p].pc \in {"replied", "failed"}
    /\ wg' = wg - 2
    /\ prop' = [prop EXCEPT ![p].pc = "done"]
    /\ UNCHANGED <<opts, relayCfg, now, force204, disablePub, start, open, stop, pub>>

(* The handler returns on either path: the deferred Done.                 *)
Done(p) ==
    /\ prop[p].pc \in {"replied", "failed"}
    /\ wg' = wg - 1
    /\ prop' = [prop EXCEPT ![p].pc = "done"]
    /\ UNCHANGED <<opts, relayCfg, now, force204, disablePub, start, open, stop, pub>>

(* The publishing goroutine: skipped when DISABLE_BLOCK_PUBLISHING is set.*)
Publish(p) ==
    /\ pub[p] = "pending"
    /\ pub' = [pub EXCEPT ![p] = IF disablePub THEN "skipped" ELSE "published"]
    /\ UNCHANGED <<opts, relayCfg, now, force204, disablePub, start, open, wg, stop, prop>>

(* Mutant: StopServer without the sleep.                                  *)
StopServer_NoSleep ==
    /\ stop.pc = "running" /\ start = "serving"
    /\ \/ /\ opts.proposerAPI
          /\ now + SleepTicks <= MaxTime
          /\ force204' = TRUE
          /\ stop' = [pc |-> "sleeping", wake |-> now]
          /\ UNCHANGED open
       \/ /\ ~opts.proposerAPI
          /\ open' = FALSE
          /\ stop' = [stop EXCEPT !.pc = "closing"]
          /\ UNCHANGED force204
    /\ UNCHANGED <<opts, relayCfg, now, disablePub, start, wg, prop, pub>>

(* StopServer: with the proposer API, stop sending bids and sleep, then   *)
(* wait for getPayload calls; without it, srv.Shutdown at once, which     *)
(* closes the listener.                                                   *)
StopServer ==
    /\ stop.pc = "running" /\ start = "serving"
    /\ \/ /\ opts.proposerAPI
          /\ now + SleepTicks <= MaxTime
          /\ force204' = TRUE
          /\ stop' = [pc |-> "sleeping", wake |-> now + SleepTicks]
          /\ UNCHANGED open
       \/ /\ ~opts.proposerAPI
          /\ open' = FALSE
          /\ stop' = [stop EXCEPT !.pc = "closing"]
          /\ UNCHANGED force204
    /\ UNCHANGED <<opts, relayCfg, now, disablePub, start, wg, prop, pub>>

(* The sleep ends.                                                        *)
Wake ==
    /\ stop.pc = "sleeping" /\ now >= stop.wake
    /\ stop' = [stop EXCEPT !.pc = "waiting"]
    /\ UNCHANGED <<opts, relayCfg, now, force204, disablePub, start, open, wg, prop, pub>>

(* getPayloadCallsInFlight.Wait() returns, srv.Shutdown closes the        *)
(* listener.                                                              *)
WaitInFlight ==
    /\ stop.pc = "waiting" /\ wg = 0
    /\ open' = FALSE
    /\ stop' = [stop EXCEPT !.pc = "closing"]
    /\ UNCHANGED <<opts, relayCfg, now, force204, disablePub, start, wg, prop, pub>>

(* srv.Shutdown returns once no handler of an accepted connection runs;   *)
(* ListenAndServe returns ErrServerClosed and StartServer returns nil.    *)
ShutdownDone ==
    /\ stop.pc = "closing"
    /\ \A p \in Proposers : prop[p].pc \notin InHandler
    /\ stop' = [stop EXCEPT !.pc = "stopped"]
    /\ start' = "returned"
    /\ UNCHANGED <<opts, relayCfg, now, force204, disablePub, open, wg, prop, pub>>

Next ==
    \/ Tick
    \/ NewRelayAPI \/ StartServer
    \/ StopServer \/ Wake \/ WaitInFlight \/ ShutdownDone
    \/ \E p \in Proposers :
          \/ GetHeader(p) \/ HeaderReply(p) \/ SendGetPayload(p)
          \/ Add(p) \/ Lookup(p) \/ Retry(p) \/ Done(p) \/ Publish(p)

Spec == Init /\ [][Next]_vars

(* Goroutines run, time passes, StopServer's steps run, and a proposer    *)
(* holding a header sends its getPayload (it is bound to by PayloadDelay),*)
(* and redis answers a getHeader's GetBestBid (bound to by BestBidDelay).  *)
(* Creating and starting the server, StopServer and getHeader calls are  *)
(* up to the environment.                                                 *)
FairSpec ==
    /\ Spec
    /\ WF_vars(Tick) /\ WF_vars(Wake) /\ WF_vars(WaitInFlight) /\ WF_vars(ShutdownDone)
    /\ \A p \in Proposers :
          /\ WF_vars(HeaderReply(p)) /\ WF_vars(SendGetPayload(p)) /\ WF_vars(Add(p)) /\ WF_vars(Lookup(p))
          /\ WF_vars(Retry(p)) /\ WF_vars(Done(p)) /\ WF_vars(Publish(p))

TypeOK ==
    /\ now \in 0..MaxTime
    /\ force204 \in BOOLEAN /\ disablePub \in BOOLEAN /\ open \in BOOLEAN
    /\ opts \in [proposerAPI: BOOLEAN, builderAPI: BOOLEAN]
    /\ relayCfg \in {"none", "ours", "other"}
    /\ start \in {"new", "error", "idle", "serving", "failed", "returned"}
    /\ wg \in 0..Cardinality(Proposers)
    /\ stop \in [pc: {"running", "sleeping", "waiting", "closing", "stopped"}, wake: 0..MaxTime]
    /\ prop \in [Proposers -> [pc: {"idle", "nobid", "served", "refused", "done"} \cup InHandler,
                               at: 0..MaxTime]]
    /\ pub \in [Proposers -> {"none", "pending", "published", "skipped"}]

-----------------------------------------------------------------------------
(* A proposer that was served a header before StopServer raised the flag  *)
(* has signed it and must get its payload: its getPayload is never       *)
(* refused by the closed listener.  The 5 s sleep of StopServer has to    *)
(* cover the proposer's delay, and the wait for in-flight calls the rest. *)
NoCommittedProposerRefused == \A p \in Proposers : prop[p].pc # "refused"

(* Once StopServer is sleeping it returns: every getPayload handler       *)
(* gives back its getPayloadCallsInFlight count on every path.            *)
ShutdownCompletes == stop.pc = "sleeping" ~> stop.pc = "stopped"
=============================================================================
