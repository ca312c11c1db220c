------------------------- MODULE RiskOracleRequests -------------------------
(***************************************************************************)
(* RiskOracle.sol and RiskOracleQueue.sol, the Chainlink Functions side:   *)
(* operators ask, the router answers through a callback, answers that come *)
(* while the contract is paused are deferred, the addresses of an answer   *)
(* enter a ring buffer, and operators write them to the RiskRegistry in    *)
(* batches, beside the registry's other writers.                           *)
(*                                                                         *)
(* The router may call back more than once and in any order.  A request's  *)
(* type and the decoding of its answer are reduced to what the answer does *)
(* (see Answer).  fulfillmentHistory and lastRequestId, written and never  *)
(* read, the JavaScript sources and events are left out.  The code writes  *)
(* score 100, tier CRITICAL and the sanction flag for every address.       *)
(***************************************************************************)
EXTENDS RiskRegistry, SequencesExt

CONSTANTS
  Caller,          \* holders of OPERATOR_ROLE
  Answer,          \* what the router may deliver
  CallerCooldown,  \* callerCooldown, in ticks
  Day,             \* 1 days, in ticks
  DailyRequests,   \* maxDailyRequestsPerCaller
  MaxAllRequestIds,\* MAX_ALL_REQUEST_IDS
  MaxQueueSize,    \* maxQueueSize
  BatchSize,       \* batchSize
  MaxRequests      \* bound of the number of requests, for model checking only

\* A response with addresses to queue; a good response with nothing to queue
\* (another type, or a list that tryDecodeAddresses refuses); a response whose
\* decoding reverts; an empty response; an error.
AnswerType ==
  [effect : {"list"}, list : Seq(Account \cup {ZeroAddress})]
    \cup [effect : {"none", "revert", "empty", "error"}, list : {<<>>}]

ASSUME RequestsAssumption ==
  /\ Answer \subseteq AnswerType
  /\ {CallerCooldown, Day, DailyRequests, MaxRequests} \subseteq Nat
  /\ {MaxAllRequestIds, MaxQueueSize, BatchSize} \subseteq Nat \ {0}

VARIABLES
  requestCount,   \* requestCount; request ids are numbered by it
  requestInfo,    \* requestInfo
  allRequestIds,  \* allRequestIds
  allRequestIdsHead,
  deferredCount,
  queue,          \* pendingRiskQueue, queueHead, queueCount
  calls,          \* lastCallerTime, dailyRequestCount, dailyRequestReset
  paused

RequestId == 1 .. MaxRequests

askVars == <<requestCount, allRequestIds, allRequestIdsHead, calls>>
answerVars == <<requestInfo, deferredCount, queue>>
requestsVars == <<registryVars, askVars, answerVars, paused>>

NoAnswer == [effect |-> "empty", list |-> <<>>]
NoRequest == [exists |-> FALSE, fulfilled |-> FALSE, success |-> FALSE,
              deferred |-> FALSE, answer |-> NoAnswer]

Info == [exists : BOOLEAN, fulfilled : BOOLEAN, success : BOOLEAN,
         deferred : BOOLEAN, answer : Answer \cup {NoAnswer}]

RequestsTypeOK ==
  /\ RegistryTypeOK
  /\ requestCount \in 0 .. MaxRequests
  /\ requestInfo \in [RequestId -> Info]
  /\ allRequestIds \in Seq(RequestId)
  /\ Len(allRequestIds) <= MaxAllRequestIds
  /\ allRequestIdsHead \in Nat
  /\ deferredCount \in Nat
  /\ queue \in [slots : Seq(Account \cup {ZeroAddress}), head : Nat, count : 0 .. MaxQueueSize]
  /\ Len(queue.slots) <= MaxQueueSize
  /\ calls \in [Caller -> [last : Nat, count : 0 .. DailyRequests, reset : Nat]]
  /\ paused \in BOOLEAN

RequestsInit ==
  /\ RegistryInit
  /\ requestCount = 0
  /\ requestInfo = [id \in RequestId |-> NoRequest]
  /\ allRequestIds = <<>>
  /\ allRequestIdsHead = 0
  /\ deferredCount = 0
  /\ queue = [slots |-> <<>>, head |-> 0, count |-> 0]
  /\ calls = [c \in Caller |-> [last |-> 0, count |-> 0, reset |-> 0]]
  /\ paused = FALSE

-----------------------------------------------------------------------------
(***************************************************************************)
(* Asking.                                                                 *)
(***************************************************************************)

\* checkCallerRateLimit: the call counted in the window it falls into.
NewWindow(c) == calls[c].reset = 0 \/ now >= calls[c].reset + Day
CallsToday(c) == IF NewWindow(c) THEN 0 ELSE calls[c].count

\* Mutant of Remember: the head moves before the oldest id is overwritten.
RememberAfterMoving(id) ==
  IF Len(allRequestIds) < MaxAllRequestIds
  THEN /\ allRequestIds' = Append(allRequestIds, id)
       /\ UNCHANGED allRequestIdsHead
  ELSE /\ allRequestIdsHead' = allRequestIdsHead + 1
       /\ allRequestIds' = [allRequestIds EXCEPT ![(allRequestIdsHead' % MaxAllRequestIds) + 1] = id]

\* The ring of the latest request ids.
Remember(id) ==
  IF Len(allRequestIds) < MaxAllRequestIds
  THEN /\ allRequestIds' = Append(allRequestIds, id)
       /\ UNCHANGED allRequestIdsHead
  ELSE /\ allRequestIds' = [allRequestIds EXCEPT ![(allRequestIdsHead % MaxAllRequestIds) + 1] = id]
       /\ allRequestIdsHead' = allRequestIdsHead + 1

RequestRiskUpdate(c) ==
  LET id == requestCount + 1
  IN  /\ requestCount < MaxRequests
      /\ calls[c].last # 0 => now - calls[c].last >= CallerCooldown
      /\ CallsToday(c) < DailyRequests
      /\ calls' = [calls EXCEPT ![c] =
           [last |-> now, count |-> CallsToday(c) + 1,
            reset |-> IF NewWindow(c) THEN now ELSE @.reset]]
      /\ requestCount' = id
      /\ requestInfo' = [requestInfo EXCEPT ![id] = [NoRequest EXCEPT !.exists = TRUE]]
      /\ Remember(id)
      /\ UNCHANGED <<registryVars, deferredCount, queue, paused>>

-----------------------------------------------------------------------------
(***************************************************************************)
(* Answers.                                                                *)
(***************************************************************************)

\* Mutant of Enqueue: the next slot counted from the head's value, not modulo.
EnqueueWithoutWrap(q, a) ==
  LET idx == (q.head % MaxQueueSize) + q.count
  IN  IF q.count >= MaxQueueSize THEN q
      ELSE [slots |-> IF idx >= Len(q.slots) THEN Append(q.slots, a)
                      ELSE [q.slots EXCEPT ![idx + 1] = a],
            head |-> q.head, count |-> q.count + 1]

\* One address of a list; with the queue full it is dropped.
Enqueue(q, a) ==
  LET idx == (q.head + q.count) % MaxQueueSize
  IN  IF q.count >= MaxQueueSize THEN q
      ELSE [slots |-> IF idx >= Len(q.slots) THEN Append(q.slots, a)
                      ELSE [q.slots EXCEPT ![idx + 1] = a],
            head |-> q.head, count |-> q.count + 1]

\* _processRiskResponse
ProcessResponse(q, answer) == FoldLeft(Enqueue, q, answer.list)

\* Mutant of FulfillRequest: a second callback is not refused.
FulfillAgain(id, answer) ==
  /\ requestInfo[id].exists
  /\ ~paused
  /\ answer.effect # "revert"
  /\ requestInfo' = [requestInfo EXCEPT
       ![id].fulfilled = TRUE, ![id].success = (answer.effect # "error"),
       ![id].answer = answer]
  /\ queue' = ProcessResponse(queue, answer)
  /\ UNCHANGED <<registryVars, askVars, deferredCount, paused>>

\* The callback while the contract runs.  A decoding that reverts undoes it.
FulfillRequest(id, answer) ==
  /\ requestInfo[id].exists
  /\ ~requestInfo[id].fulfilled
  /\ ~paused
  /\ answer.effect # "revert"
  /\ requestInfo' = [requestInfo EXCEPT
       ![id].fulfilled = TRUE, ![id].success = (answer.effect # "error"),
       ![id].answer = answer]
  /\ queue' = ProcessResponse(queue, answer)
  /\ UNCHANGED <<registryVars, askVars, deferredCount, paused>>

\* Mutant of DeferRequest: the flag is left for later (before M-05).
DeferUnfulfilled(id, answer) ==
  /\ requestInfo[id].exists
  /\ ~requestInfo[id].fulfilled
  /\ paused
  /\ requestInfo' = [requestInfo EXCEPT ![id].deferred = TRUE, ![id].answer = answer]
  /\ deferredCount' = deferredCount + 1
  /\ UNCHANGED <<registryVars, askVars, queue, paused>>

\* The callback while the contract is paused: whatever it is, it is kept.
DeferRequest(id, answer) ==
  /\ requestInfo[id].exists
  /\ ~requestInfo[id].fulfilled
  /\ paused
  /\ requestInfo' = [requestInfo EXCEPT
       ![id].fulfilled = TRUE, ![id].deferred = TRUE, ![id].answer = answer]
  /\ deferredCount' = deferredCount + 1
  /\ UNCHANGED <<registryVars, askVars, queue, paused>>

\* One turn of the loop of processDeferredRequests.
Undefer(s, id) ==
  LET info == s.info[id]
  IN  IF ~info.deferred THEN s
      ELSE [info  |-> [s.info EXCEPT ![id].deferred = FALSE],
            count |-> IF s.count > 0 THEN s.count - 1 ELSE 0,
            queue |-> ProcessResponse(s.queue, info.answer)]

\* processDeferredRequests, paused or not: one request that was not answered,
\* or whose decoding reverts, undoes the whole call.
ProcessDeferredRequests(ids) ==
  LET done == FoldLeft(Undefer, [info |-> requestInfo, count |-> deferredCount,
                                 queue |-> queue], ids)
  IN  /\ \A i \in 1 .. Len(ids) :
           /\ requestInfo[ids[i]].fulfilled
           /\ requestInfo[ids[i]].deferred => requestInfo[ids[i]].answer.effect # "revert"
      /\ requestInfo' = done.info
      /\ deferredCount' = done.count
      /\ queue' = done.queue
      /\ UNCHANGED <<registryVars, askVars, paused>>

-----------------------------------------------------------------------------
(***************************************************************************)
(* The queue.                                                              *)
(***************************************************************************)

Sanction == [score |-> 100, tier |-> 4, sanctioned |-> TRUE, tags |-> 0]

\* The update that turn i of the loop reads.
QueuedAt(i) == queue.slots[((queue.head + i - 1) % MaxQueueSize) + 1]

\* try riskRegistry.updateRiskProfile(...): a revert skips the address.
TryWrite(r, a) ==
  IF ~registryPaused /\ a \in Account /\ ~TooFrequent(r, a, now)
  THEN Write(r, a, Sanction, FullConfidence, now)
  ELSE r

TakenNow == IF queue.count < BatchSize THEN queue.count ELSE BatchSize

\* processPendingQueue, paused or not: what is skipped leaves the queue too.
ProcessPendingQueue ==
  /\ queue.count > 0
  /\ registry' = FoldLeft(LAMBDA r, i : TryWrite(r, QueuedAt(i)), registry,
                          [i \in 1 .. TakenNow |-> i])
  /\ queue' = [queue EXCEPT !.head = @ + TakenNow, !.count = @ - TakenNow]
  /\ UNCHANGED <<registryPaused, now, askVars, requestInfo, deferredCount, paused>>

Pause ==
  /\ ~paused
  /\ paused' = TRUE
  /\ UNCHANGED <<registryVars, askVars, answerVars>>

Unpause ==
  /\ paused
  /\ paused' = FALSE
  /\ UNCHANGED <<registryVars, askVars, answerVars>>

OtherWriters == RegistryNext /\ UNCHANGED <<askVars, answerVars, paused>>

RequestsNext ==
  \/ \E c \in Caller : RequestRiskUpdate(c)
  \/ \E id \in RequestId, answer \in Answer :
       FulfillRequest(id, answer) \/ DeferRequest(id, answer)
  \/ \E id1, id2 \in RequestId :
       ProcessDeferredRequests(<<id1>>) \/ ProcessDeferredRequests(<<id1, id2>>)
  \/ ProcessPendingQueue
  \/ Pause \/ Unpause
  \/ OtherWriters

RequestsSpec == RequestsInit /\ [][RequestsNext]_requestsVars

-----------------------------------------------------------------------------
(***************************************************************************)
(* Properties.                                                             *)
(***************************************************************************)

\* deferredCount, which the monitoring reads, is the number of deferred answers,
\* also when an operator names a request twice or one that is not deferred.
DeferredCountExact ==
  deferredCount = Cardinality({id \in RequestId : requestInfo[id].deferred})

\* The ring of request ids holds the latest MAX_ALL_REQUEST_IDS requests: the
\* oldest one is overwritten, and no other.
LatestRequestsKept ==
  ToSet(allRequestIds) = {id \in 1 .. requestCount : id + MaxAllRequestIds > requestCount}

\* What the storage says of a request and of the queue.
StageOf ==
  [id \in RequestId |->
     IF ~requestInfo[id].exists THEN "none"
     ELSE IF requestInfo[id].deferred THEN "held"
     ELSE IF requestInfo[id].fulfilled THEN "settled" ELSE "open"]

HeldLists ==
  [id \in RequestId |->
     IF requestInfo[id].deferred THEN requestInfo[id].answer.list ELSE <<>>]

Waiting == [i \in 1 .. queue.count |-> QueuedAt(i)]

Feed == INSTANCE SanctionsFeed WITH
  Lists <- {answer.list : answer \in Answer}, Capacity <- MaxQueueSize, Batch <- BatchSize,
  stage <- StageOf, held <- HeldLists, waiting <- Waiting

\* The contract is a feed: each answer enters the queue exactly once, however
\* often the router calls back, whether it was deferred and however often an
\* operator processes it; the ring buffer is a first-in, first-out queue that
\* only drops what does not fit.
ImplementsFeed == Feed!FeedSpec
=============================================================================
