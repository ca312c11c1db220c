----------------------------- MODULE RiskStream -----------------------------
(***************************************************************************)
(* The Redis stream of risk updates as the publisher process reads it:     *)
(* data-publisher/src/message-queue.ts.  One consumer group; a timer       *)
(* starts a poll every second whether or not earlier polls are done, so    *)
(* several run at once.  A poll first takes over the messages that stayed  *)
(* unacknowledged for 60 seconds, whoever was handling them, then reads    *)
(* new ones, and handles what it got one after the other.                  *)
(*                                                                         *)
(* The retry count of a message in the stream is the 0 it was published    *)
(* with: when a message is taken over, the count is raised in the copy the *)
(* handler gets and nowhere else.                                          *)
(***************************************************************************)
EXTENDS Naturals, Sequences, FiniteSets

CONSTANTS
  Poll,          \* the polls that may be under way at the same time
  PollCount,     \* messages a poll takes at once (COUNT)
  MaxRetryCount  \* from this count on, a message that fails is a dead letter

ASSUME StreamConstants == PollCount \in Nat \ {0} /\ MaxRetryCount \in Nat

VARIABLES
  stream,      \* the messages, oldest first; a message's id is its position
  delivered,   \* the position up to which the group has read
  pending,     \* the ids that were read and not acknowledged
  idle,        \* those of them nobody took for 60 seconds
  deadLetters, \* the ids in the dead-letter queue
  stage,       \* what each poll is handling: "off", "reclaimed" or "fresh"
  todo         \* the ids it still has to handle, smallest first

streamVars == <<stream, delivered, pending, idle, deadLetters, stage, todo>>

StreamInit ==
  /\ stream = <<>>
  /\ delivered = 0
  /\ pending = {}
  /\ idle = {}
  /\ deadLetters = {}
  /\ stage = [p \in Poll |-> "off"]
  /\ todo = [p \in Poll |-> {}]

-----------------------------------------------------------------------------
\* publishRiskUpdate, on both sides of the stream
PublishRiskUpdate(message) == stream' = Append(stream, message)

Oldest(n, ids) == {id \in ids : Cardinality({i \in ids : i <= id}) <= n}

\* Mutant: a poll reads new messages only.
ReclaimNothing(p) ==
  /\ stage[p] = "off"
  /\ stage' = [stage EXCEPT ![p] = "reclaimed"]
  /\ UNCHANGED <<stream, delivered, pending, idle, deadLetters, todo>>

\* XAUTOCLAIM: taking a message over also restarts its idle time.
ReclaimStalled(p) ==
  LET claimed == Oldest(PollCount, idle) IN
  /\ stage[p] = "off"
  /\ stage' = [stage EXCEPT ![p] = "reclaimed"]
  /\ todo' = [todo EXCEPT ![p] = claimed]
  /\ idle' = idle \ claimed
  /\ UNCHANGED <<stream, delivered, pending, deadLetters>>

\* XREADGROUP, once the reclaimed messages are handled
ReadNew(p) ==
  LET last == IF delivered + PollCount < Len(stream) THEN delivered + PollCount ELSE Len(stream)
      new == delivered + 1 .. last
  IN
  /\ stage[p] = "reclaimed"
  /\ todo[p] = {}
  /\ stage' = [stage EXCEPT ![p] = IF new = {} THEN "off" ELSE "fresh"]
  /\ todo' = [todo EXCEPT ![p] = new]
  /\ delivered' = last
  /\ pending' = pending \cup new
  /\ UNCHANGED <<stream, idle, deadLetters>>

IsFirst(p, id) == id \in todo[p] /\ \A other \in todo[p] : id <= other

Handling(p) == \E id \in todo[p] : IsFirst(p, id)

CurrentId(p) == CHOOSE id \in todo[p] : IsFirst(p, id)

Current(p) == stream[CurrentId(p)]

\* The count of the copy the handler gets
RetryCount(p) == IF stage[p] = "reclaimed" THEN 1 ELSE 0

\* Mutant: the message stays among those nobody took.
AcknowledgeKeepingIdle(id) ==
  /\ pending' = pending \ {id}
  /\ UNCHANGED idle

\* XACK
AcknowledgeMessage(id) ==
  /\ pending' = pending \ {id}
  /\ idle' = idle \ {id}

\* The poll goes on to its next message, or is done.
NextMessage(p) ==
  /\ todo' = [todo EXCEPT ![p] = @ \ {CurrentId(p)}]
  /\ stage' = [stage EXCEPT ![p] = IF @ = "fresh" /\ todo[p] = {CurrentId(p)} THEN "off" ELSE @]

\* handleStreamMessage after the handler returned, and after it threw
MessageHandled(p) ==
  /\ AcknowledgeMessage(CurrentId(p))
  /\ NextMessage(p)
  /\ UNCHANGED <<stream, delivered, deadLetters>>

MessageFailed(p) ==
  /\ IF RetryCount(p) >= MaxRetryCount
       THEN /\ deadLetters' = deadLetters \cup {CurrentId(p)}
            /\ AcknowledgeMessage(CurrentId(p))
       ELSE UNCHANGED <<deadLetters, pending, idle>>
  /\ NextMessage(p)
  /\ UNCHANGED <<stream, delivered>>

\* Nobody touched the message for 60 seconds.
Stall(id) ==
  /\ id \in pending \ idle
  /\ idle' = idle \cup {id}
  /\ UNCHANGED <<stream, delivered, pending, deadLetters, stage, todo>>

\* The process dies: its polls are gone, what they had read stays pending.
PollsDie ==
  /\ stage' = [p \in Poll |-> "off"]
  /\ todo' = [p \in Poll |-> {}]
  /\ UNCHANGED <<stream, delivered, pending, idle, deadLetters>>
=============================================================================
