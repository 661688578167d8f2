-------------------------------- MODULE Outbox --------------------------------
(***************************************************************************)
(* The transactional outbox (apps/core/services.py, apps/integration):     *)
(* business transactions write events, dispatchers list the due ones, take *)
(* them one by one, run the handler and mark the outcome, and people       *)
(* replay events by hand.                                                  *)
(*                                                                         *)
(* A dispatcher is a Celery worker running the dispatch task or a request  *)
(* to dispatch-now.  It runs outside any transaction, so each of its       *)
(* statements is a step of its own, and it can die between any two.  The   *)
(* handler is one transaction.                                             *)
(*                                                                         *)
(* Abstracted: payloads (what an event is about is a topic), error texts,  *)
(* and time: an event is due or not due yet.                               *)
(***************************************************************************)
EXTENDS Integers, Sequences, FiniteSets

CONSTANTS
  Topic,         \* what events are about
  Keyed,         \* the topics published with a dedup_key
  Handled,       \* the topics of a registered event type
  User,
  Recipients,    \* the active users an event's payload names, by topic
  Dispatcher,
  Reviewer,      \* people who replay events
  Batch,         \* the number of events one dispatch takes
  MaxAttempts,   \* max_attempts of every event
  MaxEvents, MaxCrashes, MaxReplays   \* bounds on a behaviour

ASSUME InputsTyped ==
  /\ Keyed \subseteq Topic /\ Handled \subseteq Topic
  /\ Recipients \in [Topic -> SUBSET User]
  /\ Batch \in Nat \ {0} /\ MaxAttempts \in Nat \ {0}
  /\ MaxEvents \in Nat /\ MaxCrashes \in Nat /\ MaxReplays \in Nat

VARIABLES
  outbox,     \* OutboxEvent rows, in the order of their ids
  notices,    \* Notification rows, in the order of their ids
  worker,     \* what each dispatcher is doing
  looking,    \* the event each reviewer has read and decided to replay, or 0
  crashes, replays

vars == <<outbox, notices, worker, looking, crashes, replays>>

Status == {"pending", "processing", "done", "failed", "dead"}
Event == [topic : Topic, status : Status, attempts : Nat, due : BOOLEAN]
Notice == [event : Nat \ {0}, user : User]
\* The candidates still to go through, in the order of their ids, the first of
\* them being worked on, and the attempts read from it.
Worker == [stage : {"idle", "listed", "claimed", "handling", "handled", "raised"},
           list : SUBSET (Nat \ {0}), attempts : Nat]

Idle == [stage |-> "idle", list |-> {}, attempts |-> 0]

TypeOK ==
  /\ outbox \in Seq(Event)
  /\ notices \in Seq(Notice)
  /\ worker \in [Dispatcher -> Worker]
  /\ \A w \in Dispatcher :
       /\ worker[w].list \subseteq 1..Len(outbox)
       /\ worker[w].stage = "idle" <=> worker[w].list = {}
  /\ looking \in [Reviewer -> 0..Len(outbox)]
  /\ crashes \in 0..MaxCrashes
  /\ replays \in 0..MaxReplays

Init ==
  /\ outbox = <<>>
  /\ notices = <<>>
  /\ worker = [w \in Dispatcher |-> Idle]
  /\ looking = [r \in Reviewer |-> 0]
  /\ crashes = 0
  /\ replays = 0

-----------------------------------------------------------------------------
\* Committed with the business data.  A key that was used before yields the
\* event that has it and no step.
Publish(t) ==
  /\ Len(outbox) < MaxEvents
  /\ t \in Keyed => \A n \in 1..Len(outbox) : outbox[n].topic # t
  /\ outbox' = Append(outbox, [topic |-> t, status |-> "pending", attempts |-> 0, due |-> TRUE])
  /\ UNCHANGED <<notices, worker, looking, crashes, replays>>

\* next_retry_at passes.
TimePasses(n) ==
  /\ ~ outbox[n].due
  /\ outbox' = [outbox EXCEPT ![n].due = TRUE]
  /\ UNCHANGED <<notices, worker, looking, crashes, replays>>

-----------------------------------------------------------------------------
(* Dispatchers.                                                            *)

Waiting == {"pending", "failed"}
IsDue(n) == outbox[n].status \in Waiting /\ outbox[n].due

\* The first Batch due events.
Candidates ==
  LET due == {n \in 1..Len(outbox) : IsDue(n)}
  IN  {n \in due : Cardinality({m \in due : m < n}) < Batch}

ListDueEvents(w) ==
  /\ worker[w].stage = "idle" /\ Candidates # {}
  /\ worker' = [worker EXCEPT ![w] = [Idle EXCEPT !.stage = "listed", !.list = Candidates]]
  /\ UNCHANGED <<outbox, notices, looking, crashes, replays>>

Earliest(list) == CHOOSE n \in list : \A m \in list : n <= m

Current(w) == Earliest(worker[w].list)

\* On to the next candidate, and home after the last.
Advance(w) ==
  worker' = [worker EXCEPT ![w] =
    IF worker[w].list = {Current(w)} THEN Idle
    ELSE [Idle EXCEPT !.stage = "listed", !.list = worker[w].list \ {Current(w)}]]

\* One conditional UPDATE: of several dispatchers that listed the event one wins.
Claim(w) ==
  LET n == Current(w) IN
  /\ worker[w].stage = "listed" /\ outbox[n].status \in Waiting
  /\ outbox' = [outbox EXCEPT ![n].status = "processing"]
  /\ worker' = [worker EXCEPT ![w].stage = "claimed"]
  /\ UNCHANGED <<notices, looking, crashes, replays>>

Skip(w) ==
  /\ worker[w].stage = "listed" /\ outbox[Current(w)].status \notin Waiting
  /\ Advance(w)
  /\ UNCHANGED <<outbox, notices, looking, crashes, replays>>

Refresh(w) ==
  /\ worker[w].stage = "claimed"
  /\ worker' = [worker EXCEPT ![w].stage = "handling", ![w].attempts = outbox[Current(w)].attempts]
  /\ UNCHANGED <<outbox, notices, looking, crashes, replays>>

Noticed(n) == \E i \in 1..Len(notices) : notices[i].event = n

\* Bug: a notification does not record the event it comes from.
NotifyAgain(w) ==
  LET n == Current(w) IN
  /\ worker[w].stage = "handling" /\ outbox[n].topic \in Handled
  /\ IF Recipients[outbox[n].topic] = {}
     THEN UNCHANGED notices
     ELSE \E u \in Recipients[outbox[n].topic] :
            notices' = Append(notices, [event |-> n, user |-> u])
  /\ worker' = [worker EXCEPT ![w].stage = "handled"]
  /\ UNCHANGED <<outbox, looking, crashes, replays>>

\* The handler goes through the recipients in no particular order.  The unique
\* source_event_id lets one notification of an event be stored; for all others
\* create_notification returns None.
Notify(w) ==
  LET n == Current(w) IN
  /\ worker[w].stage = "handling" /\ outbox[n].topic \in Handled
  /\ IF Noticed(n) \/ Recipients[outbox[n].topic] = {}
     THEN UNCHANGED notices
     ELSE \E u \in Recipients[outbox[n].topic] :
            notices' = Append(notices, [event |-> n, user |-> u])
  /\ worker' = [worker EXCEPT ![w].stage = "handled"]
  /\ UNCHANGED <<outbox, looking, crashes, replays>>

\* No handler is registered, or it raises and its transaction rolls back.
Raise(w) ==
  /\ worker[w].stage = "handling"
  /\ worker' = [worker EXCEPT ![w].stage = "raised"]
  /\ UNCHANGED <<outbox, notices, looking, crashes, replays>>

MarkEventDone(w) ==
  /\ worker[w].stage = "handled"
  /\ outbox' = [outbox EXCEPT ![Current(w)].status = "done"]
  /\ Advance(w)
  /\ UNCHANGED <<notices, looking, crashes, replays>>

\* Bug: an exhausted event goes on being retried.
RetryForever(w) ==
  LET attempts == worker[w].attempts + 1 IN
  /\ worker[w].stage = "raised"
  /\ outbox' = [outbox EXCEPT ![Current(w)] =
       [@ EXCEPT !.attempts = IF attempts > MaxAttempts THEN MaxAttempts ELSE attempts,
                 !.status = "failed",
                 !.due = FALSE]]
  /\ Advance(w)
  /\ UNCHANGED <<notices, looking, crashes, replays>>

\* Writes the attempts it read before the handler ran.  A dead event has no
\* next_retry_at.
MarkEventFailed(w) ==
  LET attempts == worker[w].attempts + 1 IN
  /\ worker[w].stage = "raised"
  /\ outbox' = [outbox EXCEPT ![Current(w)] =
       IF attempts >= MaxAttempts
       THEN [@ EXCEPT !.attempts = attempts, !.status = "dead", !.due = TRUE]
       ELSE [@ EXCEPT !.attempts = attempts, !.status = "failed", !.due = FALSE]]
  /\ Advance(w)
  /\ UNCHANGED <<notices, looking, crashes, replays>>

\* The process dies, is killed at the hard time limit or loses the database.
Crash(w) ==
  /\ worker[w].stage # "idle" /\ crashes < MaxCrashes
  /\ crashes' = crashes + 1
  /\ worker' = [worker EXCEPT ![w] = Idle]
  /\ UNCHANGED <<outbox, notices, looking, replays>>

-----------------------------------------------------------------------------
(* Replay by hand: the event is read and judged without a lock.            *)

Look(r, n) ==
  /\ looking[r] = 0 /\ replays < MaxReplays
  /\ outbox[n].status # "done"
  /\ looking' = [looking EXCEPT ![r] = n]
  /\ replays' = replays + 1
  /\ UNCHANGED <<outbox, notices, worker, crashes>>

\* The attempts stay.
RequeueEvent(r) ==
  /\ looking[r] # 0
  /\ outbox' = [outbox EXCEPT ![looking[r]] = [@ EXCEPT !.status = "pending", !.due = TRUE]]
  /\ looking' = [looking EXCEPT ![r] = 0]
  /\ UNCHANGED <<notices, worker, crashes, replays>>

-----------------------------------------------------------------------------
Dispatch(w) ==
  \/ ListDueEvents(w) \/ Claim(w) \/ Skip(w) \/ Refresh(w)
  \/ Notify(w) \/ Raise(w) \/ MarkEventDone(w) \/ MarkEventFailed(w)

Next ==
  \/ \E t \in Topic : Publish(t)
  \/ \E n \in 1..Len(outbox) : TimePasses(n)
  \/ \E w \in Dispatcher : Dispatch(w) \/ Crash(w)
  \/ \E r \in Reviewer : (\E n \in 1..Len(outbox) : Look(r, n)) \/ RequeueEvent(r)

\* Dispatch tasks keep being started and run on, and time passes; nobody has to
\* replay anything.
Fairness ==
  /\ \A w \in Dispatcher : WF_vars(Dispatch(w))
  /\ \A n \in 1..MaxEvents : WF_vars(n <= Len(outbox) /\ TimePasses(n))

Spec == Init /\ [][Next]_vars
FairSpec == Spec /\ Fairness

-----------------------------------------------------------------------------
(* What the outbox promises.                                               *)

\* Whatever is delivered again, after a failure, a crash or a replay, nobody is
\* notified of an event twice (tests/test_core_services.py,
\* test_outbox_dispatch_creates_notification_once).
ToldOnce ==
  \A i, j \in 1..Len(notices) : notices[i] = notices[j] => i = j

\* An event is marked done only if its handler ran to the end: somebody was told,
\* whichever of several dispatchers writes the mark, and in whatever order.
DoneMeansTold ==
  \A n \in 1..Len(outbox) :
    outbox[n].status = "done" =>
      /\ outbox[n].topic \in Handled
      /\ Recipients[outbox[n].topic] # {} => Noticed(n)

\* An event is given up only after all its attempts, also when dispatchers count
\* from attempts they read before someone else counted; one that waits for a
\* retry has attempts left, unless it was replayed.
DeadMeansExhausted ==
  \A n \in 1..Len(outbox) :
    /\ outbox[n].status = "dead" => outbox[n].attempts >= MaxAttempts
    /\ outbox[n].status = "failed" => outbox[n].attempts < MaxAttempts

Working(w, n) ==
  /\ worker[w].stage \in {"claimed", "handling", "handled", "raised"}
  /\ Current(w) = n

\* As long as no process dies, an event in processing is in the hands of a
\* dispatcher, also when it was replayed while another one was handling it.
ProcessingIsInHands ==
  crashes = 0 => \A n \in 1..Len(outbox) :
    outbox[n].status = "processing" => \E w \in Dispatcher : Working(w, n)

\* The comment on the claim in integration/tasks.py: taking an event atomically
\* keeps several workers from handling it at once, as long as nobody replays one
\* that is being handled.
OneDispatcherPerEvent ==
  replays = 0 => \A n \in 1..Len(outbox), v, w \in Dispatcher :
    Working(v, n) /\ Working(w, n) => v = w

Settled(n) == n <= Len(outbox) /\ outbox[n].status \in {"done", "dead"}

\* Replays, lost races and failures included, an event that was published is
\* handled, or handed to people once its attempts are used up, unless a process
\* dies.
EventuallySettled ==
  \A n \in 1..MaxEvents : (n <= Len(outbox)) ~> (Settled(n) \/ crashes > 0)

-----------------------------------------------------------------------------
(* What the repository's documents say and the code does not keep.         *)

\* docs/api-conventions.md 9: events are delivered at least once.  But nothing
\* takes up an event whose dispatcher died.
AtLeastOnce == \A n \in 1..MaxEvents : (n <= Len(outbox)) ~> Settled(n)
=============================================================================
