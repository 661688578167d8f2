--------------------------- MODULE ConcurrencyProofs ---------------------------
(***************************************************************************)
(* What the two modules about concurrent transactions keep: Outbox, for    *)
(* any number of events, dispatchers, attempts, crashes and replays, and   *)
(* StockLocks, for any number of calls, orders and dimensions.             *)
(***************************************************************************)
EXTENDS Outbox, StockLocks, SumLemmas, SequenceTheorems, FiniteSetTheorems

-----------------------------------------------------------------------------
(* Events that wait in the outbox.                                         *)

Delivered(n) ==
  /\ outbox[n].topic \in Handled
  /\ Recipients[outbox[n].topic] # {} => Noticed(n)

\* One notification per event: the unique source_event_id.
OneNoticePerEvent ==
  \A i, j \in 1..Len(notices) : notices[i].event = notices[j].event => i = j

\* Whoever is past the handler has delivered, whatever happened to the event since.
HandledMeansDelivered ==
  \A w \in Dispatcher : worker[w].stage = "handled" => Delivered(Current(w))

\* Without replays, a dispatcher's event is in processing until it marks it.
ClaimsHold ==
  replays = 0 =>
    /\ \A r \in Reviewer : looking[r] = 0
    /\ \A w \in Dispatcher, n \in 1..Len(outbox) :
         Working(w, n) => outbox[n].status = "processing"

Inv ==
  /\ TypeOK
  /\ OneNoticePerEvent
  /\ HandledMeansDelivered
  /\ DoneMeansTold
  /\ DeadMeansExhausted
  /\ ProcessingIsInHands
  /\ OneDispatcherPerEvent
  /\ ClaimsHold

Busy == {"claimed", "handling", "handled", "raised"}

-----------------------------------------------------------------------------
\* A dispatcher with candidates works on one of them.
LEMMA CurrentIsListed ==
  ASSUME TypeOK, NEW w \in Dispatcher, worker[w].stage # "idle"
  PROVE  /\ worker[w] \in Worker
         /\ Current(w) \in worker[w].list
         /\ Current(w) \in 1..Len(outbox)
<1>1. /\ worker[w] \in Worker /\ worker[w].list \subseteq 1..Len(outbox)
      /\ worker[w].list # {} /\ worker[w].list \subseteq Nat
  BY DEF TypeOK, Worker
<1>2. \E n \in worker[w].list : \A m \in worker[w].list : n <= m
  BY <1>1, LeastNatural
<1> QED
  BY <1>1, <1>2 DEF Current, Earliest

\* Writing one event leaves all others and the length of the table.
LEMMA WriteEvent ==
  ASSUME NEW rows \in Seq(Event), NEW n \in 1..Len(rows), NEW e \in Event
  PROVE  /\ [rows EXCEPT ![n] = e] \in Seq(Event)
         /\ Len([rows EXCEPT ![n] = e]) = Len(rows)
         /\ \A m \in 1..Len(rows) : [rows EXCEPT ![n] = e][m] = IF m = n THEN e ELSE rows[m]
  OBVIOUS

\* A dispatcher that advances works on nothing for the moment.
LEMMA AdvanceType ==
  ASSUME TypeOK, NEW w \in Dispatcher, worker[w].stage # "idle", Advance(w)
  PROVE  /\ worker' \in [Dispatcher -> Worker]
         /\ \A v \in Dispatcher : v # w => worker'[v] = worker[v]
         /\ worker'[w].stage \in {"idle", "listed"}
         /\ worker'[w].list \subseteq worker[w].list
         /\ worker'[w].stage = "idle" <=> worker'[w].list = {}
<1>1. /\ worker[w] \in Worker /\ Current(w) \in worker[w].list
      /\ worker \in [Dispatcher -> Worker]
  BY CurrentIsListed DEF TypeOK
<1>2. Idle \in Worker /\ Idle.stage = "idle" /\ Idle.list = {}
  BY DEF Idle, Worker
<1> DEFINE on == [Idle EXCEPT !.stage = "listed", !.list = worker[w].list \ {Current(w)}]
<1>3. on \in Worker /\ on.stage = "listed" /\ on.list = worker[w].list \ {Current(w)}
  BY <1>1 DEF Idle, Worker
<1> HIDE DEF on
<1>4. worker' = [worker EXCEPT ![w] = IF worker[w].list = {Current(w)} THEN Idle ELSE on]
  BY DEF Advance, on
<1> QED
  BY <1>1, <1>2, <1>3, <1>4

\* Nothing is published at first.
LEMMA InitInv == Init => Inv
<1> SUFFICES ASSUME Init PROVE Inv
  OBVIOUS
<1>1. Idle \in Worker /\ Idle.stage = "idle" /\ Idle.list = {}
  BY DEF Idle, Worker
<1>2. /\ outbox = <<>> /\ notices = <<>> /\ crashes = 0 /\ replays = 0
      /\ worker = [w \in Dispatcher |-> Idle] /\ looking = [r \in Reviewer |-> 0]
      /\ Len(outbox) = 0 /\ Len(notices) = 0
  BY DEF Init
<1>3. TypeOK
  BY <1>1, <1>2, InputsTyped DEF TypeOK
<1>4. \A w \in Dispatcher, n \in Nat : ~ Working(w, n)
  BY <1>1, <1>2 DEF Working
<1> QED
  BY <1>1, <1>2, <1>3, <1>4 DEF Inv, OneNoticePerEvent, HandledMeansDelivered, DoneMeansTold,
     DeadMeansExhausted, ProcessingIsInHands, OneDispatcherPerEvent, ClaimsHold

-----------------------------------------------------------------------------
\* A dispatcher moves on without touching the tables.
LEMMA MovingKeepsInv ==
  ASSUME Inv, NEW w \in Dispatcher, NEW new \in Worker,
         worker' = [worker EXCEPT ![w] = new],
         UNCHANGED <<outbox, notices, looking, replays>>,
         crashes' \in 0..MaxCrashes, crashes' = crashes \/ crashes' # 0,
         new.list \subseteq 1..Len(outbox), new.stage = "idle" <=> new.list = {},
         new.stage = "handled" => Delivered(Earliest(new.list)),
         new.stage \in Busy => worker[w].stage \in Busy /\ new.list = worker[w].list,
         worker[w].stage \in Busy /\ crashes' = 0 => new.stage \in Busy
  PROVE  Inv'
<1>1. TypeOK'
  BY DEF Inv, TypeOK
<1>2. \A v \in Dispatcher : worker'[v] = IF v = w THEN new ELSE worker[v]
  BY DEF Inv, TypeOK
<1>3. \A v \in Dispatcher, n \in 1..Len(outbox) : Working(v, n)' => Working(v, n)
  BY <1>2 DEF Working, Current, Busy
<1>4. crashes' = 0 => \A v \in Dispatcher, n \in 1..Len(outbox) : Working(v, n) => Working(v, n)'
  BY <1>2 DEF Working, Current, Busy
<1>5. HandledMeansDelivered'
  BY <1>2 DEF Inv, HandledMeansDelivered, Delivered, Noticed, Current
<1>6. OneNoticePerEvent' /\ DoneMeansTold' /\ DeadMeansExhausted'
  BY DEF Inv, OneNoticePerEvent, DoneMeansTold, Noticed, DeadMeansExhausted
<1>7. ProcessingIsInHands'
  BY <1>4 DEF Inv, ProcessingIsInHands
<1>8. OneDispatcherPerEvent' /\ ClaimsHold'
  BY <1>3 DEF Inv, OneDispatcherPerEvent, ClaimsHold
<1> QED
  BY <1>1, <1>5, <1>6, <1>7, <1>8 DEF Inv

\* Skipping a candidate, listing candidates, reading the claimed event, an
\* exception and a crash are such moves.
LEMMA MovesKeepInv ==
  ASSUME Inv, NEW w \in Dispatcher,
         ListDueEvents(w) \/ Skip(w) \/ Refresh(w) \/ Raise(w) \/ Crash(w)
  PROVE  Inv'
<1>1. /\ worker \in [Dispatcher -> Worker] /\ worker[w] \in Worker
      /\ worker[w].list \subseteq 1..Len(outbox)
      /\ worker[w].stage = "idle" <=> worker[w].list = {}
      /\ crashes \in 0..MaxCrashes /\ outbox \in Seq(Event) /\ TypeOK
  BY DEF Inv, TypeOK
<1>2. Idle \in Worker /\ Idle.stage = "idle" /\ Idle.list = {}
  BY DEF Idle, Worker
<1>3. CASE ListDueEvents(w)
  <2>1. Candidates \subseteq 1..Len(outbox) /\ Candidates # {}
    BY <1>3 DEF ListDueEvents, Candidates
  <2>2. PICK list \in SUBSET (Nat \ {0}) : list = Candidates
    BY <2>1
  <2> DEFINE new == [Idle EXCEPT !.stage = "listed", !.list = list]
  <2>3. new \in Worker /\ new.stage = "listed" /\ new.list = list
    BY DEF Idle, Worker
  <2>4. worker' = [worker EXCEPT ![w] = new] /\ worker[w].stage = "idle"
        /\ UNCHANGED <<outbox, notices, looking, replays, crashes>>
    BY <1>3, <2>2 DEF ListDueEvents
  <2> HIDE DEF new
  <2> QED
    BY <1>1, <2>1, <2>2, <2>3, <2>4, MovingKeepsInv DEF Busy
<1>4. CASE Skip(w)
  <2>1. /\ worker[w].stage = "listed" /\ Advance(w)
        /\ UNCHANGED <<outbox, notices, looking, replays, crashes>>
    BY <1>4 DEF Skip
  <2>2. /\ worker' \in [Dispatcher -> Worker]
        /\ \A v \in Dispatcher : v # w => worker'[v] = worker[v]
        /\ worker'[w].stage \in {"idle", "listed"}
        /\ worker'[w].list \subseteq worker[w].list
        /\ worker'[w].stage = "idle" <=> worker'[w].list = {}
    BY <1>1, <2>1, AdvanceType
  <2>3. PICK new \in Worker : new = worker'[w]
    BY <2>2
  <2>4. worker' = [worker EXCEPT ![w] = new]
    BY <1>1, <2>2, <2>3
  <2> QED
    BY <1>1, <2>1, <2>2, <2>3, <2>4, MovingKeepsInv DEF Busy
<1>5. CASE Refresh(w)
  <2> DEFINE new == [worker[w] EXCEPT !.stage = "handling", !.attempts = outbox[Current(w)].attempts]
  <2>1. /\ worker[w].stage = "claimed"
        /\ UNCHANGED <<outbox, notices, looking, replays, crashes>>
    BY <1>5 DEF Refresh
  <2>2. outbox[Current(w)] \in Event
    BY <1>1, <2>1, CurrentIsListed
  <2>3. new \in Worker /\ new.stage = "handling" /\ new.list = worker[w].list
    BY <1>1, <2>2 DEF Worker, Event
  <2>4. worker' = [worker EXCEPT ![w] = new]
    BY <1>1, <1>5 DEF Refresh, Worker
  <2> HIDE DEF new
  <2> QED
    BY <1>1, <2>1, <2>3, <2>4, MovingKeepsInv DEF Busy
<1>6. CASE Raise(w)
  <2> DEFINE new == [worker[w] EXCEPT !.stage = "raised"]
  <2>1. /\ worker[w].stage = "handling" /\ worker' = [worker EXCEPT ![w] = new]
        /\ UNCHANGED <<outbox, notices, looking, replays, crashes>>
    BY <1>6 DEF Raise
  <2>2. new \in Worker /\ new.stage = "raised" /\ new.list = worker[w].list
    BY <1>1 DEF Worker
  <2> HIDE DEF new
  <2> QED
    BY <1>1, <2>1, <2>2, MovingKeepsInv DEF Busy
<1>7. CASE Crash(w)
  <2>1. /\ worker' = [worker EXCEPT ![w] = Idle] /\ worker[w].stage # "idle"
        /\ UNCHANGED <<outbox, notices, looking, replays>>
        /\ crashes' = crashes + 1 /\ crashes < MaxCrashes
    BY <1>7 DEF Crash
  <2>2. crashes' \in 0..MaxCrashes /\ crashes' # 0
    BY <1>1, <2>1, InputsTyped
  <2> QED
    BY <1>1, <1>2, <2>1, <2>2, MovingKeepsInv DEF Busy
<1> QED
  BY <1>3, <1>4, <1>5, <1>6, <1>7

-----------------------------------------------------------------------------
\* Taking an event: without replays nobody else has it, for it was waiting.
LEMMA ClaimKeepsInv ==
  ASSUME Inv, NEW w \in Dispatcher, Claim(w) PROVE Inv'
<1> DEFINE n == Current(w)
           e == [outbox[n] EXCEPT !.status = "processing"]
           new == [worker[w] EXCEPT !.stage = "claimed"]
<1>1. /\ worker[w] \in Worker /\ n \in 1..Len(outbox) /\ worker \in [Dispatcher -> Worker]
      /\ outbox \in Seq(Event) /\ outbox[n] \in Event
      /\ worker[w].stage = "listed" /\ outbox[n].status \in Waiting
  BY CurrentIsListed DEF Inv, TypeOK, Claim
<1>2. /\ e \in Event /\ e.status = "processing" /\ e.topic = outbox[n].topic
      /\ new \in Worker /\ new.stage = "claimed" /\ new.list = worker[w].list
  BY <1>1 DEF Event, Status, Worker
<1>3. /\ outbox' = [outbox EXCEPT ![n] = e] /\ worker' = [worker EXCEPT ![w] = new]
      /\ UNCHANGED <<notices, looking, crashes, replays>>
  BY <1>1 DEF Claim
<1> HIDE DEF e, new
<1>4. /\ outbox' \in Seq(Event) /\ Len(outbox') = Len(outbox)
      /\ \A m \in 1..Len(outbox) : outbox'[m] = IF m = n THEN e ELSE outbox[m]
  BY <1>1, <1>2, <1>3, WriteEvent
<1>5. \A v \in Dispatcher : worker'[v] = IF v = w THEN new ELSE worker[v]
  BY <1>1, <1>3
<1>6. TypeOK'
  BY <1>1, <1>2, <1>3, <1>4, <1>5 DEF Inv, TypeOK
<1>7. Current(w)' = n /\ \A v \in Dispatcher : Current(v)' = Current(v)
  BY <1>2, <1>5 DEF Current
<1>8. \A v \in Dispatcher, m \in 1..Len(outbox) :
        Working(v, m)' <=> (Working(v, m) \/ (v = w /\ m = n))
  BY <1>1, <1>2, <1>5, <1>7 DEF Working
<1>9. \A m \in 1..Len(outbox) : Delivered(m) => Delivered(m)'
  BY <1>2, <1>3, <1>4 DEF Delivered, Noticed
<1>10. HandledMeansDelivered'
  <2> SUFFICES ASSUME NEW v \in Dispatcher, worker'[v].stage = "handled"
               PROVE  Delivered(Current(v))'
    BY DEF HandledMeansDelivered
  <2>1. v # w /\ worker[v].stage = "handled"
    BY <1>2, <1>5
  <2>2. Delivered(Current(v)) /\ Current(v) \in 1..Len(outbox)
    BY <2>1, CurrentIsListed DEF Inv, HandledMeansDelivered
  <2> QED
    BY <1>7, <1>9, <2>2 DEF Delivered, Noticed
<1>11. OneNoticePerEvent' /\ DeadMeansExhausted'
  BY <1>2, <1>3, <1>4 DEF Inv, OneNoticePerEvent, DeadMeansExhausted
<1>12. DoneMeansTold'
  <2>1. \A m \in 1..Len(outbox) : outbox'[m].status = "done" => outbox'[m] = outbox[m]
    BY <1>2, <1>4
  <2>2. \A m \in 1..Len(outbox) : Noticed(m)' <=> Noticed(m)
    BY <1>3 DEF Noticed
  <2> QED
    BY <1>4, <2>1, <2>2 DEF Inv, DoneMeansTold
<1>13. ProcessingIsInHands'
  BY <1>1, <1>3, <1>4, <1>8 DEF Inv, ProcessingIsInHands
<1>14. OneDispatcherPerEvent'
  <2>1. replays = 0 => \A v \in Dispatcher : ~ Working(v, n)
    BY <1>1 DEF Inv, ClaimsHold, Waiting
  <2> QED
    BY <1>3, <1>4, <1>8, <2>1 DEF Inv, OneDispatcherPerEvent
<1>15. ClaimsHold'
  BY <1>2, <1>3, <1>4, <1>8 DEF Inv, ClaimsHold
<1> QED
  BY <1>6, <1>10, <1>11, <1>12, <1>13, <1>14, <1>15 DEF Inv

\* Storing a notification for an event that has none.
LEMMA NotifyKeepsInv ==
  ASSUME Inv, NEW w \in Dispatcher, Notify(w) PROVE Inv'
<1>0. /\ worker[w].stage = "handling" /\ TypeOK
      /\ worker[w] \in Worker /\ Current(w) \in 1..Len(outbox)
  BY CurrentIsListed DEF Notify, Inv
<1> PICK n \in 1..Len(outbox) : n = Current(w)
  BY <1>0
<1>1. /\ worker \in [Dispatcher -> Worker] /\ outbox \in Seq(Event) /\ notices \in Seq(Notice)
      /\ outbox[n] \in Event /\ outbox[n].topic \in Topic /\ outbox[n].topic \in Handled
  <2>1. outbox \in Seq(Event)
    BY <1>0 DEF TypeOK
  <2>2. outbox[n] \in Event
    BY <2>1
  <2>3. outbox[n].topic \in Handled
    BY DEF Notify
  <2> QED
    BY <1>0, <2>1, <2>2, <2>3 DEF TypeOK, Event
<1> PICK t \in Topic : t = outbox[n].topic
  BY <1>1
<1> DEFINE new == [worker[w] EXCEPT !.stage = "handled"]
<1>2. new \in Worker /\ new.stage = "handled" /\ new.list = worker[w].list
  BY <1>0 DEF Worker
<1>3. /\ worker' = [worker EXCEPT ![w] = new]
      /\ UNCHANGED <<outbox, looking, crashes, replays>>
  BY DEF Notify
<1> HIDE DEF new
<1>4. /\ notices' \in Seq(Notice) /\ OneNoticePerEvent'
      /\ \A m \in 1..Len(outbox) : Noticed(m) => Noticed(m)'
      /\ Recipients[t] # {} => Noticed(n)'
  <2>1. CASE UNCHANGED notices /\ (Noticed(n) \/ Recipients[t] = {})
    <3>1. \A m : Noticed(m)' <=> Noticed(m)
      BY <2>1 DEF Noticed
    <3>2. OneNoticePerEvent'
      BY <2>1 DEF Inv, OneNoticePerEvent
    <3> QED
      BY <1>1, <2>1, <3>1, <3>2
  <2>2. ASSUME NEW u \in Recipients[t], ~ Noticed(n),
               notices' = Append(notices, [event |-> n, user |-> u])
        PROVE  <1>4!1 /\ <1>4!2 /\ <1>4!3
    <3>1. [event |-> n, user |-> u] \in Notice
      BY <1>1, InputsTyped DEF Notice
    <3>2. /\ notices' \in Seq(Notice) /\ Len(notices') = Len(notices) + 1
          /\ notices'[Len(notices) + 1] = [event |-> n, user |-> u]
          /\ \A i \in 1..Len(notices) : notices'[i] = notices[i] /\ notices[i].event # n
      BY <1>1, <2>2, <3>1 DEF Noticed
    <3>3. OneNoticePerEvent'
      BY <1>1, <3>2 DEF Inv, OneNoticePerEvent
    <3>4. Noticed(n)'
      BY <1>1, <3>2 DEF Noticed
    <3>5. \A m \in 1..Len(outbox) : Noticed(m) => Noticed(m)'
      BY <1>1, <3>2 DEF Noticed
    <3> QED
      BY <3>2, <3>3, <3>4, <3>5
  <2> QED
    BY <2>1, <2>2 DEF Notify
<1>5. \A v \in Dispatcher : worker'[v] = IF v = w THEN new ELSE worker[v]
  BY <1>1, <1>3
<1>6. TypeOK'
  BY <1>0, <1>1, <1>2, <1>3, <1>4, <1>5 DEF TypeOK
<1>7. \A v \in Dispatcher : Current(v)' = Current(v)
  BY <1>2, <1>5 DEF Current
<1>8. \A v \in Dispatcher, m \in 1..Len(outbox) : Working(v, m)' <=> Working(v, m)
  BY <1>0, <1>1, <1>2, <1>5, <1>7 DEF Working
<1>9. /\ \A m \in 1..Len(outbox) : Delivered(m) => Delivered(m)'
      /\ Delivered(n)'
  BY <1>1, <1>3, <1>4 DEF Delivered
<1>10. HandledMeansDelivered'
  <2> SUFFICES ASSUME NEW v \in Dispatcher, worker'[v].stage = "handled"
               PROVE  Delivered(Current(v))'
    BY DEF HandledMeansDelivered
  <2>1. CASE v = w
    BY <1>7, <1>9, <2>1 DEF Delivered, Noticed
  <2>2. CASE v # w
    <3>1. Delivered(Current(v)) /\ Current(v) \in 1..Len(outbox)
      BY <1>5, <2>2, CurrentIsListed DEF Inv, HandledMeansDelivered
    <3> QED
      BY <1>7, <1>9, <3>1 DEF Delivered, Noticed
  <2> QED
    BY <2>1, <2>2
<1>11. DeadMeansExhausted' /\ DoneMeansTold'
  BY <1>3, <1>4 DEF Inv, DeadMeansExhausted, DoneMeansTold
<1>12. ProcessingIsInHands' /\ OneDispatcherPerEvent' /\ ClaimsHold'
  BY <1>3, <1>8 DEF Inv, ProcessingIsInHands, OneDispatcherPerEvent, ClaimsHold
<1> QED
  BY <1>4, <1>6, <1>10, <1>11, <1>12 DEF Inv

-----------------------------------------------------------------------------
\* Marking the outcome and going on: the event is out of processing.
LEMMA MarkingKeepsInv ==
  ASSUME Inv, NEW w \in Dispatcher, worker[w].stage \in Busy, NEW e \in Event,
         outbox' = [outbox EXCEPT ![Current(w)] = e], Advance(w),
         UNCHANGED <<notices, looking, crashes, replays>>,
         e.topic = outbox[Current(w)].topic, e.status \in {"done", "failed", "dead"},
         e.status = "done" => Delivered(Current(w)),
         e.status = "dead" => e.attempts >= MaxAttempts,
         e.status = "failed" => e.attempts < MaxAttempts
  PROVE  Inv'
<1> DEFINE n == Current(w)
<1>1. /\ n \in 1..Len(outbox) /\ outbox \in Seq(Event) /\ worker[w].stage # "idle"
      /\ TypeOK /\ worker[w].list \subseteq 1..Len(outbox)
  BY CurrentIsListed DEF Inv, TypeOK, Busy
<1>2. /\ outbox' \in Seq(Event) /\ Len(outbox') = Len(outbox)
      /\ \A m \in 1..Len(outbox) : outbox'[m] = IF m = n THEN e ELSE outbox[m]
  BY <1>1, WriteEvent
<1>3. /\ worker' \in [Dispatcher -> Worker]
      /\ \A v \in Dispatcher : v # w => worker'[v] = worker[v]
      /\ worker'[w].stage \in {"idle", "listed"}
      /\ worker'[w].list \subseteq worker[w].list
      /\ worker'[w].stage = "idle" <=> worker'[w].list = {}
  BY <1>1, AdvanceType
<1>4. TypeOK'
  BY <1>1, <1>2, <1>3 DEF TypeOK
<1>5. \A v \in Dispatcher : v # w => Current(v)' = Current(v)
  BY <1>3 DEF Current
<1>6. \A v \in Dispatcher, m \in 1..Len(outbox) : Working(v, m)' <=> (v # w /\ Working(v, m))
  BY <1>3, <1>5 DEF Working
<1>7. \A m \in 1..Len(outbox) : Delivered(m) => Delivered(m)'
  BY <1>2 DEF Delivered, Noticed
<1>8. HandledMeansDelivered'
  <2> SUFFICES ASSUME NEW v \in Dispatcher, worker'[v].stage = "handled"
               PROVE  Delivered(Current(v))'
    BY DEF HandledMeansDelivered
  <2>1. v # w /\ worker[v].stage = "handled"
    BY <1>3
  <2>2. Delivered(Current(v)) /\ Current(v) \in 1..Len(outbox)
    BY <1>1, <2>1, CurrentIsListed DEF Inv, HandledMeansDelivered
  <2> PICK m \in 1..Len(outbox) : m = Current(v)
    BY <2>2
  <2>3. Delivered(m)'
    BY <1>7, <2>2
  <2>4. Current(v)' = m
    BY <1>5, <2>1
  <2> QED
    BY <2>3, <2>4 DEF Delivered, Noticed
<1>9. OneNoticePerEvent' /\ DeadMeansExhausted'
  BY <1>2 DEF Inv, OneNoticePerEvent, DeadMeansExhausted
<1>10. DoneMeansTold'
  <2> SUFFICES ASSUME NEW m \in 1..Len(outbox), outbox'[m].status = "done"
               PROVE  Delivered(m)'
    BY <1>2 DEF DoneMeansTold, Delivered
  <2>1. Delivered(m)
    BY <1>1, <1>2 DEF Inv, DoneMeansTold, Delivered
  <2> QED
    BY <1>7, <2>1
<1>11. ProcessingIsInHands'
  <2> SUFFICES ASSUME crashes = 0, NEW m \in 1..Len(outbox), outbox'[m].status = "processing"
               PROVE  \E v \in Dispatcher : Working(v, m)'
    BY <1>2 DEF ProcessingIsInHands
  <2>1. m # n /\ outbox[m].status = "processing"
    BY <1>2
  <2>2. PICK v \in Dispatcher : Working(v, m)
    BY <2>1 DEF Inv, ProcessingIsInHands
  <2>3. v # w
    BY <2>1, <2>2 DEF Working
  <2> QED
    BY <1>6, <2>2, <2>3
<1>12. OneDispatcherPerEvent'
  BY <1>2, <1>6 DEF Inv, OneDispatcherPerEvent
<1>13. ClaimsHold'
  <2> SUFFICES ASSUME replays = 0, NEW v \in Dispatcher, NEW m \in 1..Len(outbox),
                      v # w, Working(v, m)
               PROVE  outbox'[m].status = "processing"
    BY <1>2, <1>6 DEF Inv, ClaimsHold
  <2>1. m # n
    BY <1>1 DEF Inv, OneDispatcherPerEvent, Working, Busy
  <2> QED
    BY <1>2, <2>1 DEF Inv, ClaimsHold
<1> QED
  BY <1>4, <1>8, <1>9, <1>10, <1>11, <1>12, <1>13 DEF Inv

\* Done after the handler, failed or dead by the attempts it read.
LEMMA MarksKeepInv ==
  ASSUME Inv, NEW w \in Dispatcher, MarkEventDone(w) \/ MarkEventFailed(w) PROVE Inv'
<1> DEFINE n == Current(w)
<1>1. worker[w].stage \in Busy /\ worker[w].stage # "idle"
  BY DEF MarkEventDone, MarkEventFailed, Busy
<1>2. n \in 1..Len(outbox) /\ outbox[n] \in Event /\ worker[w] \in Worker
  BY <1>1, CurrentIsListed DEF Inv, TypeOK
<1>3. CASE MarkEventDone(w)
  <2> DEFINE e == [outbox[n] EXCEPT !.status = "done"]
  <2>1. e \in Event /\ e.status = "done" /\ e.topic = outbox[n].topic
    BY <1>2 DEF Event, Status
  <2>2. /\ outbox' = [outbox EXCEPT ![n] = e] /\ Advance(w)
        /\ UNCHANGED <<notices, looking, crashes, replays>> /\ Delivered(n)
    BY <1>3 DEF MarkEventDone, Inv, HandledMeansDelivered
  <2> HIDE DEF e
  <2> QED
    BY <1>1, <2>1, <2>2, MarkingKeepsInv
<1>4. CASE MarkEventFailed(w)
  <2>1. PICK attempts \in Nat : attempts = worker[w].attempts + 1
    BY <1>2 DEF Worker
  <2> DEFINE dead == [outbox[n] EXCEPT !.attempts = attempts, !.status = "dead", !.due = TRUE]
             failed == [outbox[n] EXCEPT !.attempts = attempts, !.status = "failed", !.due = FALSE]
  <2>2. /\ outbox' = [outbox EXCEPT ![n] = IF attempts >= MaxAttempts THEN dead ELSE failed]
        /\ Advance(w) /\ UNCHANGED <<notices, looking, crashes, replays>>
    BY <1>4, <2>1 DEF MarkEventFailed
  <2>3. /\ dead \in Event /\ dead.status = "dead" /\ dead.attempts = attempts
        /\ failed \in Event /\ failed.status = "failed" /\ failed.attempts = attempts
        /\ dead.topic = outbox[n].topic /\ failed.topic = outbox[n].topic
    BY <1>2 DEF Event, Status
  <2> HIDE DEF dead, failed
  <2>4. CASE attempts >= MaxAttempts
    BY <1>1, <2>2, <2>3, <2>4, MarkingKeepsInv
  <2>5. CASE attempts < MaxAttempts
    BY <1>1, <2>2, <2>3, <2>5, MarkingKeepsInv, InputsTyped
  <2> QED
    BY <2>4, <2>5, InputsTyped
<1> QED
  BY <1>3, <1>4

-----------------------------------------------------------------------------
\* A retry time that passes, and a replay by hand, which makes an event pending.
LEMMA RequeuingKeepsInv ==
  ASSUME Inv, NEW n \in 1..Len(outbox), NEW e \in Event,
         outbox' = [outbox EXCEPT ![n] = e], UNCHANGED <<notices, worker, crashes, replays>>,
         looking' \in [Reviewer -> 0..Len(outbox)],
         \A r \in Reviewer : looking[r] = 0 => looking'[r] = 0,
         e.topic = outbox[n].topic, e.attempts = outbox[n].attempts,
         e.status = outbox[n].status \/ (e.status = "pending" /\ replays # 0)
  PROVE  Inv'
<1>1. outbox \in Seq(Event) /\ TypeOK
  BY DEF Inv, TypeOK
<1>2. /\ outbox' \in Seq(Event) /\ Len(outbox') = Len(outbox)
      /\ \A m \in 1..Len(outbox) : outbox'[m] = IF m = n THEN e ELSE outbox[m]
  BY <1>1, WriteEvent
<1>3. TypeOK'
  BY <1>1, <1>2 DEF TypeOK
<1>4. \A v \in Dispatcher, m \in 1..Len(outbox) : Working(v, m)' <=> Working(v, m)
  BY DEF Working, Current
<1>5. \A m \in 1..Len(outbox) : Delivered(m) => Delivered(m)'
  BY <1>2 DEF Delivered, Noticed
<1>6. HandledMeansDelivered'
  <2> SUFFICES ASSUME NEW v \in Dispatcher, worker[v].stage = "handled"
               PROVE  Delivered(Current(v))'
    BY DEF HandledMeansDelivered
  <2>1. Delivered(Current(v)) /\ Current(v) \in 1..Len(outbox)
    BY <1>1, CurrentIsListed DEF Inv, HandledMeansDelivered
  <2> PICK m \in 1..Len(outbox) : m = Current(v)
    BY <2>1
  <2>2. Delivered(m)'
    BY <1>5, <2>1
  <2>3. Current(v)' = m
    BY DEF Current
  <2> QED
    BY <2>2, <2>3 DEF Delivered, Noticed
<1>7. OneNoticePerEvent' /\ DeadMeansExhausted'
  BY <1>2 DEF Inv, OneNoticePerEvent, DeadMeansExhausted
<1>8. DoneMeansTold'
  <2>1. \A m \in 1..Len(outbox) : outbox'[m].status = "done" =>
          outbox[m].status = "done" /\ outbox'[m].topic = outbox[m].topic
    BY <1>2
  <2>2. \A m \in 1..Len(outbox) : Noticed(m)' <=> Noticed(m)
    BY DEF Noticed
  <2> QED
    BY <1>2, <2>1, <2>2 DEF Inv, DoneMeansTold
<1>9. ProcessingIsInHands'
  BY <1>2, <1>4 DEF Inv, ProcessingIsInHands
<1>10. OneDispatcherPerEvent' /\ ClaimsHold'
  BY <1>2, <1>4 DEF Inv, OneDispatcherPerEvent, ClaimsHold
<1> QED
  BY <1>3, <1>6, <1>7, <1>8, <1>9, <1>10 DEF Inv

\* TimePasses and RequeueEvent are such steps.
LEMMA RequeuesKeepInv ==
  ASSUME Inv, \/ \E n \in 1..Len(outbox) : TimePasses(n)
              \/ \E r \in Reviewer : RequeueEvent(r)
  PROVE  Inv'
<1>1. outbox \in Seq(Event) /\ looking \in [Reviewer -> 0..Len(outbox)] /\ Len(outbox) \in Nat
  BY DEF Inv, TypeOK
<1>2. ASSUME NEW n \in 1..Len(outbox), TimePasses(n) PROVE Inv'
  <2> DEFINE e == [outbox[n] EXCEPT !.due = TRUE]
  <2>1. /\ e \in Event /\ e.topic = outbox[n].topic /\ e.attempts = outbox[n].attempts
        /\ e.status = outbox[n].status
    <3>1. outbox[n] \in Event
      BY <1>1
    <3> QED
      BY <3>1 DEF Event
  <2>2. /\ outbox' = [outbox EXCEPT ![n] = e]
        /\ UNCHANGED <<notices, worker, looking, crashes, replays>>
    BY <1>2 DEF TimePasses
  <2> HIDE DEF e
  <2> QED
    BY <1>1, <2>1, <2>2, RequeuingKeepsInv
<1>3. ASSUME NEW r \in Reviewer, RequeueEvent(r) PROVE Inv'
  <2> DEFINE n == looking[r]
             e == [outbox[n] EXCEPT !.status = "pending", !.due = TRUE]
  <2>1. n \in 1..Len(outbox)
    <3>1. n # 0 /\ n \in 0..Len(outbox)
      BY <1>1, <1>3 DEF RequeueEvent
    <3> QED
      BY <1>1, <3>1
  <2>2. /\ e \in Event /\ e.topic = outbox[n].topic /\ e.attempts = outbox[n].attempts
        /\ e.status = "pending"
    <3>1. outbox[n] \in Event
      BY <1>1, <2>1
    <3> QED
      BY <3>1 DEF Event, Status
  <2>3. /\ outbox' = [outbox EXCEPT ![n] = e] /\ looking' = [looking EXCEPT ![r] = 0]
        /\ UNCHANGED <<notices, worker, crashes, replays>>
    BY <1>3 DEF RequeueEvent
  <2>4. replays # 0
    BY <2>1 DEF Inv, ClaimsHold
  <2> HIDE DEF e
  <2>5. looking' \in [Reviewer -> 0..Len(outbox)]
        /\ \A q \in Reviewer : looking[q] = 0 => looking'[q] = 0
    BY <1>1, <2>3
  <2> QED
    BY <2>1, <2>2, <2>3, <2>4, <2>5, RequeuingKeepsInv
<1> QED
  BY <1>2, <1>3

\* Somebody decides to replay an event.
LEMMA LookKeepsInv ==
  ASSUME Inv, NEW r \in Reviewer, NEW n \in 1..Len(outbox), Look(r, n) PROVE Inv'
<1>1. /\ UNCHANGED <<outbox, notices, worker, crashes>> /\ replays' = replays + 1
      /\ looking' = [looking EXCEPT ![r] = n] /\ replays < MaxReplays
      /\ replays \in Nat /\ replays' # 0
  BY DEF Look, Inv, TypeOK
<1>2. TypeOK'
  BY <1>1, InputsTyped DEF Inv, TypeOK
<1>3. HandledMeansDelivered' /\ OneNoticePerEvent' /\ DeadMeansExhausted' /\ DoneMeansTold'
  BY <1>1 DEF Inv, HandledMeansDelivered, Delivered, Noticed, Current, OneNoticePerEvent,
              DeadMeansExhausted, DoneMeansTold
<1>4. ProcessingIsInHands'
  BY <1>1 DEF Inv, ProcessingIsInHands, Working, Current
<1>5. OneDispatcherPerEvent' /\ ClaimsHold'
  BY <1>1 DEF OneDispatcherPerEvent, ClaimsHold
<1> QED
  BY <1>2, <1>3, <1>4, <1>5 DEF Inv

\* A new event is nobody's.
LEMMA PublishKeepsInv ==
  ASSUME Inv, NEW t \in Topic, Publish(t) PROVE Inv'
<1> DEFINE e == [topic |-> t, status |-> "pending", attempts |-> 0, due |-> TRUE]
<1>1. e \in Event /\ e.status = "pending"
  BY DEF Event, Status
<1>2. /\ outbox' = Append(outbox, e) /\ outbox \in Seq(Event) /\ TypeOK
      /\ UNCHANGED <<notices, worker, looking, crashes, replays>>
  BY DEF Publish, Inv, TypeOK
<1> HIDE DEF e
<1>3. /\ outbox' \in Seq(Event) /\ Len(outbox') = Len(outbox) + 1 /\ Len(outbox) \in Nat
      /\ \A m \in 1..Len(outbox) : outbox'[m] = outbox[m]
      /\ outbox'[Len(outbox) + 1] = e
  BY <1>1, <1>2
<1>4. TypeOK'
  BY <1>2, <1>3 DEF TypeOK
<1>5. \A v \in Dispatcher, m \in 1..Len(outbox') :
        Working(v, m)' => m \in 1..Len(outbox) /\ Working(v, m)
  <2> SUFFICES ASSUME NEW v \in Dispatcher, NEW m \in 1..Len(outbox'), Working(v, m)'
               PROVE  m \in 1..Len(outbox) /\ Working(v, m)
    OBVIOUS
  <2>1. Working(v, m) /\ worker[v].stage # "idle" /\ Current(v) = m
    BY <1>2 DEF Working, Current
  <2> QED
    BY <1>2, <2>1, CurrentIsListed
<1>6. \A v \in Dispatcher, m \in 1..Len(outbox) : Working(v, m) => Working(v, m)'
  BY <1>2 DEF Working, Current
<1>7. HandledMeansDelivered'
  <2> SUFFICES ASSUME NEW v \in Dispatcher, worker[v].stage = "handled"
               PROVE  Delivered(Current(v))'
    BY <1>2 DEF HandledMeansDelivered
  <2>1. Delivered(Current(v)) /\ Current(v) \in 1..Len(outbox) /\ Current(v)' = Current(v)
    BY <1>2, CurrentIsListed DEF Inv, HandledMeansDelivered, Current
  <2> QED
    BY <1>2, <1>3, <2>1 DEF Delivered, Noticed
<1>8. OneNoticePerEvent' /\ DeadMeansExhausted'
  BY <1>1, <1>2, <1>3 DEF Inv, OneNoticePerEvent, DeadMeansExhausted
<1>9. DoneMeansTold'
  <2> SUFFICES ASSUME NEW m \in 1..Len(outbox'), outbox'[m].status = "done"
               PROVE  Delivered(m)'
    BY DEF DoneMeansTold, Delivered
  <2>1. m \in 1..Len(outbox) /\ outbox'[m] = outbox[m]
    BY <1>1, <1>3
  <2>2. Delivered(m)
    BY <2>1 DEF Inv, DoneMeansTold, Delivered
  <2> QED
    BY <1>2, <2>1, <2>2 DEF Delivered, Noticed
<1>10. ProcessingIsInHands'
  <2> SUFFICES ASSUME crashes = 0, NEW m \in 1..Len(outbox'), outbox'[m].status = "processing"
               PROVE  \E v \in Dispatcher : Working(v, m)'
    BY <1>2 DEF ProcessingIsInHands
  <2>1. m \in 1..Len(outbox) /\ outbox'[m] = outbox[m]
    BY <1>1, <1>3
  <2> QED
    BY <1>6, <2>1 DEF Inv, ProcessingIsInHands
<1>11. OneDispatcherPerEvent' /\ ClaimsHold'
  BY <1>1, <1>2, <1>3, <1>5 DEF Inv, OneDispatcherPerEvent, ClaimsHold
<1> QED
  BY <1>4, <1>7, <1>8, <1>9, <1>10, <1>11 DEF Inv

-----------------------------------------------------------------------------
\* One case per group of actions.
LEMMA NextKeepsInv == Inv /\ [Next]_vars => Inv'
<1> SUFFICES ASSUME Inv, [Next]_vars PROVE Inv'
  OBVIOUS
<1>1. CASE UNCHANGED vars
  <2>1. TypeOK' /\ OneNoticePerEvent' /\ DeadMeansExhausted'
    BY <1>1 DEF vars, Inv, TypeOK, OneNoticePerEvent, DeadMeansExhausted
  <2>2. HandledMeansDelivered' /\ DoneMeansTold'
    BY <1>1 DEF vars, Inv, HandledMeansDelivered, Delivered, Noticed, Current, DoneMeansTold
  <2>3. ProcessingIsInHands' /\ OneDispatcherPerEvent' /\ ClaimsHold'
    BY <1>1 DEF vars, Inv, ProcessingIsInHands, OneDispatcherPerEvent, ClaimsHold, Working, Current
  <2> QED
    BY <2>1, <2>2, <2>3 DEF Inv
<1> QED
  BY <1>1, MovesKeepInv, ClaimKeepsInv, NotifyKeepsInv, MarksKeepInv, RequeuesKeepInv,
     LookKeepsInv, PublishKeepsInv DEF Next, Dispatch

\* The inductive invariant holds in every behaviour.
LEMMA InvHolds == Spec => []Inv
BY InitInv, NextKeepsInv, PTL DEF Spec

\* Nobody is notified of an event twice, however often it is delivered.
THEOREM NobodyIsToldTwice == Spec => []ToldOnce
<1>1. Inv => ToldOnce
  BY DEF Inv, OneNoticePerEvent, ToldOnce
<1> QED
  BY <1>1, InvHolds, PTL

\* Done means that the handler ran to the end, whoever wrote the mark and when.
THEOREM DoneIsTruthful == Spec => []DoneMeansTold
<1>1. Inv => DoneMeansTold
  BY DEF Inv
<1> QED
  BY <1>1, InvHolds, PTL

\* Events are given up after all their attempts, although attempts are counted
\* from a value read before the handler ran.
THEOREM DeadIsTruthful == Spec => []DeadMeansExhausted
<1>1. Inv => DeadMeansExhausted
  BY DEF Inv
<1> QED
  BY <1>1, InvHolds, PTL

\* Only a crash leaves an event in processing that nobody works on.
THEOREM ProcessingHasAnOwner == Spec => []ProcessingIsInHands
<1>1. Inv => ProcessingIsInHands
  BY DEF Inv
<1> QED
  BY <1>1, InvHolds, PTL

\* Claims exclude each other as long as nobody replays.
THEOREM ClaimsExclude == Spec => []OneDispatcherPerEvent
<1>1. Inv => OneDispatcherPerEvent
  BY DEF Inv
<1> QED
  BY <1>1, InvHolds, PTL

-----------------------------------------------------------------------------
(* What the row locks of the stock service guarantee.                      *)

LockTypes ==
  /\ onHand \in [Dim -> Int] /\ reserved \in [Dim -> Int]
  /\ made \in [Order -> SUBSET Dim] /\ open \in [Order -> [Dim -> Nat]]
  /\ closed \subseteq Order
  /\ request \in [Call -> Request] /\ stage \in [Call -> Stage]
  /\ todo \in [Call -> Seq(Lock)] /\ held \in [Call -> SUBSET Lock]
  /\ seen \in [Call -> [onHand : [Dim -> Int], reserved : [Dim -> Int], open : [Dim -> Nat]]]

OrderOf(c) == request[c].order
KindOf(c) == request[c].kind
Posts(c) == KindOf(c) \in {"ship", "document"}
Steps(c) == 1..Len(todo[c])

\* A lock the call holds or still asks for.
Asked(c, l) == l \in held[c] \/ \E k \in Steps(c) : todo[c][k] = l

LocksExclude == \A c, e \in Call : c # e => held[c] \cap held[e] = {}

PledgesCovered == \A d \in Dim : reserved[d] <= onHand[d]
OpenIsMade == \A o \in Order, d \in Dim : open[o][d] > 0 => d \in made[o]

\* The order is locked first and alone, and stays locked and open.
OrderFirst(c) ==
  /\ stage[c] \in Ended => held[c] = {} /\ todo[c] = <<>>
  /\ stage[c] = "order" =>
       /\ KindOf(c) # "document"
       /\ \/ todo[c] = <<OrderLock(OrderOf(c))>> /\ held[c] = {}
          \/ todo[c] = <<>> /\ held[c] = {OrderLock(OrderOf(c))}
  /\ stage[c] \in {"balances", "rows"} /\ KindOf(c) # "document" =>
       OrderLock(OrderOf(c)) \in held[c] /\ OrderOf(c) \notin closed

\* What was read of a locked balance still holds.
ReadsStand(c) ==
  \A d \in Dim : BalanceLock(d) \in held[c] =>
    seen[c].onHand[d] = onHand[d] /\ seen[c].reserved[d] = reserved[d]

\* A reserving call locks the balance of all it reserves.
ReserveSound(c) ==
  stage[c] = "balances" /\ KindOf(c) = "reserve" =>
    \A d \in Reserving(c) : Asked(c, BalanceLock(d))

\* A posting locks all its balances and then, under them, the reservations.
PostingSound(c) ==
  /\ stage[c] = "balances" /\ Posts(c) =>
       /\ \A d \in Dims(request[c].lines) : Asked(c, BalanceLock(d))
       /\ \A k \in Steps(c) : \E d \in Dim : todo[c][k] = BalanceLock(d)
       /\ \A o \in Order, d \in Dim : RowLock(o, d) \notin held[c]
  /\ stage[c] = "rows" =>
       /\ Posts(c)
       /\ \A d \in Dims(request[c].lines) :
            /\ BalanceLock(d) \in held[c]
            /\ \/ seen[c].open[d] = open[OrderOf(c)][d]
               \/ \E k \in Steps(c) : todo[c][k] = RowLock(OrderOf(c), d)
       /\ \A k \in Steps(c) : \E d \in Dims(request[c].lines) : todo[c][k] = RowLock(OrderOf(c), d)

\* Closing locks each balance and right after it the reservation, of all that is open.
CloseSound(c) ==
  stage[c] = "balances" /\ KindOf(c) = "close" =>
    /\ \A d \in Dim : open[OrderOf(c)][d] > 0 => Asked(c, RowLock(OrderOf(c), d))
    /\ \A d \in Dim : RowLock(OrderOf(c), d) \in held[c] => seen[c].open[d] = open[OrderOf(c)][d]
    /\ \A k \in Steps(c) :
         \E d \in Dim :
           \/ /\ todo[c][k] = BalanceLock(d)
              /\ k + 1 \in Steps(c) /\ todo[c][k + 1] = RowLock(OrderOf(c), d)
           \/ /\ todo[c][k] = RowLock(OrderOf(c), d)
              /\ IF k = 1 THEN BalanceLock(d) \in held[c] ELSE todo[c][k - 1] = BalanceLock(d)

\* Apart from reserving: reservations are locked under their balance, balances
\* in ascending order, and no lock is asked for twice.
Climbs(c) ==
  KindOf(c) # "reserve" =>
    /\ \A o \in Order, d \in Dim : RowLock(o, d) \in held[c] => BalanceLock(d) \in held[c]
    /\ \A k \in Steps(c), d \in Dim : todo[c][k] = BalanceLock(d) =>
         /\ \A x \in Dim : BalanceLock(x) \in held[c] => x < d
         /\ \A j \in Steps(c), y \in Dim : j > k /\ todo[c][j] = BalanceLock(y) => d < y
    /\ \A k \in Steps(c) : todo[c][k] \notin held[c]
    /\ \A j, k \in Steps(c) : todo[c][j] = todo[c][k] => j = k

CallSound(c) ==
  OrderFirst(c) /\ ReadsStand(c) /\ ReserveSound(c) /\ PostingSound(c) /\ CloseSound(c) /\ Climbs(c)

LocksInv ==
  /\ LockTypes /\ LocksExclude /\ PledgesCovered /\ OpenIsMade /\ ClosedOrdersHoldNothing
  /\ \A c \in Call : CallSound(c)

-----------------------------------------------------------------------------
(* Sorted sets and the lists of locks.                                     *)

Sorts(s, D) ==
  /\ s \in [1..Cardinality(D) -> D]
  /\ \A x \in D : \E i \in 1..Cardinality(D) : s[i] = x
  /\ \A i, j \in 1..Cardinality(D) : i < j => s[i] < s[j]

\* A finite set of numbers can be sorted: by induction on its largest member.
LEMMA SortingExists ==
  ASSUME NEW m \in Nat, NEW D \in SUBSET (1..m)
  PROVE  \E s : Sorts(s, D)
<1> DEFINE Good == {k \in 0..m : \A E \in SUBSET (1..k) : \E s : Sorts(s, E)}
<1>1. 0 \in Good
  <2>1. ASSUME NEW E \in SUBSET (1..0) PROVE \E s : Sorts(s, E)
    <3>1. E = {} /\ Cardinality(E) = 0 /\ 1..0 = {}
      <4>1. 1..0 = {}
        OBVIOUS
      <4>2. E = {}
        BY <4>1
      <4>3. Cardinality({}) = 0
        BY FS_EmptySet, Zenon
      <4> QED
        BY <4>1, <4>2, <4>3
    <3> DEFINE none == [i \in 1..0 |-> i]
    <3>2. none \in [1..0 -> E]
      BY <3>1
    <3> HIDE DEF none
    <3>3. Sorts(none, E)
      BY <3>1, <3>2 DEF Sorts
    <3> QED
      BY <3>3
  <2> QED
    BY <2>1
<1>2. ASSUME NEW k \in 0..m, k < m, k \in Good PROVE k + 1 \in Good
  <2>1. ASSUME NEW E \in SUBSET (1..(k + 1)) PROVE \E s : Sorts(s, E)
    <3>1. CASE k + 1 \notin E
      <4>1. E \in SUBSET (1..k)
        BY <3>1
      <4> QED
        BY <1>2, <4>1
    <3>2. CASE k + 1 \in E
      <4> DEFINE F == E \ {k + 1}
                 n == Cardinality(F)
      <4>1. F \in SUBSET (1..k)
        OBVIOUS
      <4>2. PICK s : Sorts(s, F)
        BY <1>2, <4>1
      <4>3. IsFiniteSet(E) /\ IsFiniteSet(F)
        <5>1. IsFiniteSet(1..(k + 1))
          BY FS_Interval
        <5> QED
          BY <5>1, FS_Subset
      <4>4. n \in Nat /\ Cardinality(E) = n + 1
        BY <3>2, <4>3, FS_RemoveElement, FS_CardinalityType
      <4> DEFINE t == [i \in 1..(n + 1) |-> IF i = n + 1 THEN k + 1 ELSE s[i]]
      <4> HIDE DEF n
      <4>5. s \in [1..n -> F] /\ (\A x \in F : \E i \in 1..n : s[i] = x)
            /\ \A i, j \in 1..n : i < j => s[i] < s[j]
        BY <4>2 DEF Sorts, n
      <4>6. ASSUME NEW i \in 1..(n + 1), i # n + 1 PROVE i \in 1..n /\ t[i] = s[i] /\ s[i] \in F
        BY <4>4, <4>5, <4>6
      <4>7. t[n + 1] = k + 1 /\ n + 1 \in 1..(n + 1)
        BY <4>4
      <4>8. t \in [1..(n + 1) -> E]
        <5>1. \A i \in 1..(n + 1) : t[i] \in E
          BY <3>2, <4>6, <4>7
        <5> QED
          BY <5>1
      <4>9. ASSUME NEW x \in E PROVE \E i \in 1..(n + 1) : t[i] = x
        <5>1. CASE x = k + 1
          BY <4>7, <5>1
        <5>2. CASE x \in F
          <6>1. PICK i \in 1..n : s[i] = x
            BY <4>5, <5>2
          <6>2. i \in 1..(n + 1) /\ i # n + 1
            BY <4>4
          <6> QED
            BY <6>1, <6>2, <4>6
        <5> QED
          BY <5>1, <5>2
      <4>10. ASSUME NEW i \in 1..(n + 1), NEW j \in 1..(n + 1), i < j PROVE t[i] < t[j]
        <5>1. i # n + 1
          BY <4>4, <4>10
        <5>2. CASE j = n + 1
          <6>1. t[i] \in 1..k
            BY <4>1, <4>6, <5>1
          <6> QED
            BY <4>7, <5>2, <6>1
        <5>3. CASE j # n + 1
          BY <4>5, <4>6, <4>10, <5>1, <5>3
        <5> QED
          BY <5>2, <5>3
      <4> HIDE DEF t
      <4>11. Sorts(t, E)
        BY <4>4, <4>8, <4>9, <4>10 DEF Sorts
      <4> QED
        BY <4>11
    <3> QED
      BY <3>1, <3>2
  <2>2. k + 1 \in 0..m
    BY <1>2
  <2> QED
    BY <2>1, <2>2
<1>3. \A k \in 0..m : k < m /\ k \in Good => k + 1 \in Good
  BY <1>2
<1> HIDE DEF Good
<1>4. m \in Good
  <2>1. \A k \in 0..m : k \in Good
    BY <1>1, <1>3, InductionUpTo
  <2> QED
    BY <2>1
<1> QED
  BY <1>4 DEF Good

LEMMA AscendingSorts ==
  ASSUME NEW m \in Nat, NEW D \in SUBSET (1..m)
  PROVE  Sorts(Ascending(D), D) /\ Cardinality(D) \in Nat
<1>1. PICK s : Sorts(s, D)
  BY SortingExists
<1>2. Ascending(D) = CHOOSE t \in [1..Cardinality(D) -> D] :
        /\ \A x \in D : \E i \in 1..Cardinality(D) : t[i] = x
        /\ \A i, j \in 1..Cardinality(D) : i < j => t[i] < t[j]
  BY DEF Ascending
<1>3. Sorts(Ascending(D), D)
  BY <1>1, <1>2 DEF Sorts
<1>4. IsFiniteSet(D)
  <2>1. IsFiniteSet(1..m)
    BY FS_Interval
  <2> QED
    BY <2>1, FS_Subset
<1> QED
  BY <1>3, <1>4, FS_CardinalityType

LEMMA FunctionIsSequence ==
  ASSUME NEW S, NEW n \in Nat, NEW f \in [1..n -> S]
  PROVE  f \in Seq(S) /\ Len(f) = n
<1>1. f \in Seq(S)
  BY SeqDef
<1>2. DOMAIN f = 1..n /\ Len(f) \in Nat /\ DOMAIN f = 1..Len(f)
  BY <1>1, LenProperties
<1> QED BY <1>1, <1>2

LEMMA LocksDiffer ==
  /\ \A o \in Order, d \in Dim : OrderLock(o) # BalanceLock(d)
  /\ \A o, p \in Order, d \in Dim : OrderLock(o) # RowLock(p, d)
  /\ \A o \in Order, d, x \in Dim : BalanceLock(d) # RowLock(o, x)
  /\ \A d, x \in Dim : BalanceLock(d) = BalanceLock(x) => d = x
  /\ \A o, p \in Order : OrderLock(o) = OrderLock(p) => o = p
  /\ \A o, p \in Order, d, x \in Dim : RowLock(o, d) = RowLock(p, x) => o = p /\ d = x
BY DEF OrderLock, BalanceLock, RowLock

LEMMA LocksAre ==
  /\ \A o \in Order : OrderLock(o) \in Lock
  /\ \A d \in Dim : BalanceLock(d) \in Lock
  /\ \A o \in Order, d \in Dim : RowLock(o, d) \in Lock
BY DEF Lock

LEMMA BalancesAscend ==
  ASSUME NEW D \in SUBSET Dim
  PROVE  LET s == BalancesInOrder(D) IN
         /\ s \in Seq(Lock)
         /\ \A k \in 1..Len(s) : \E d \in D : s[k] = BalanceLock(d)
         /\ \A d \in D : \E k \in 1..Len(s) : s[k] = BalanceLock(d)
         /\ \A j, k \in 1..Len(s), x, y \in Dim :
              j < k /\ s[j] = BalanceLock(x) /\ s[k] = BalanceLock(y) => x < y
         /\ \A j, k \in 1..Len(s) : s[j] = s[k] => j = k
<1> DEFINE n == Cardinality(D)
           a == Ascending(D)
           s == BalancesInOrder(D)
<1>1. /\ n \in Nat /\ a \in [1..n -> D]
      /\ \A x \in D : \E i \in 1..n : a[i] = x
      /\ \A i, j \in 1..n : i < j => a[i] < a[j]
  BY RequestsTyped, AscendingSorts DEF Dim, Sorts
<1>2. s = [i \in 1..n |-> BalanceLock(a[i])]
  BY DEF BalancesInOrder
<1> HIDE DEF n, a, s
<1>3. \A i \in 1..n : a[i] \in D /\ s[i] = BalanceLock(a[i]) /\ s[i] \in Lock
  BY <1>1, <1>2, LocksAre
<1>4. s \in Seq(Lock) /\ Len(s) = n
  BY <1>1, <1>2, <1>3, FunctionIsSequence
<1>5. \A j, k \in 1..n, x, y \in Dim :
        s[j] = BalanceLock(x) /\ s[k] = BalanceLock(y) => x = a[j] /\ y = a[k]
  BY <1>3, LocksDiffer
<1>6. \A j, k \in 1..n : s[j] = s[k] => j = k
  <2>1. ASSUME NEW j \in 1..n, NEW k \in 1..n, s[j] = s[k] PROVE j = k
    <3>1. a[j] = a[k] /\ a[j] \in 1..Keys
      BY <1>3, <2>1, LocksDiffer DEF Dim
    <3>2. j < k \/ k < j \/ j = k
      BY <1>1
    <3>3. j < k => a[j] < a[k]
      BY <1>1
    <3>4. k < j => a[k] < a[j]
      BY <1>1
    <3> QED
      BY <3>1, <3>2, <3>3, <3>4, RequestsTyped
  <2> QED
    BY <2>1
<1>7. \A d \in D : \E k \in 1..n : s[k] = BalanceLock(d)
  BY <1>1, <1>3
<1>8. \A j, k \in 1..n, x, y \in Dim :
        j < k /\ s[j] = BalanceLock(x) /\ s[k] = BalanceLock(y) => x < y
  BY <1>1, <1>5
<1> QED
  BY <1>3, <1>4, <1>6, <1>7, <1>8 DEF s

LEMMA RowsAscend ==
  ASSUME NEW o \in Order, NEW D \in SUBSET Dim
  PROVE  LET s == RowsInOrder(o, D) IN
         /\ s \in Seq(Lock)
         /\ \A k \in 1..Len(s) : \E d \in D : s[k] = RowLock(o, d)
         /\ \A d \in D : \E k \in 1..Len(s) : s[k] = RowLock(o, d)
         /\ \A j, k \in 1..Len(s) : s[j] = s[k] => j = k
<1> DEFINE n == Cardinality(D)
           a == Ascending(D)
           s == RowsInOrder(o, D)
<1>1. /\ n \in Nat /\ a \in [1..n -> D]
      /\ \A x \in D : \E i \in 1..n : a[i] = x
      /\ \A i, j \in 1..n : i < j => a[i] < a[j]
  BY RequestsTyped, AscendingSorts DEF Dim, Sorts
<1>2. s = [i \in 1..n |-> RowLock(o, a[i])]
  BY DEF RowsInOrder
<1> HIDE DEF n, a, s
<1>3. \A i \in 1..n : a[i] \in D /\ s[i] = RowLock(o, a[i]) /\ s[i] \in Lock
  BY <1>1, <1>2, LocksAre
<1>4. s \in Seq(Lock) /\ Len(s) = n
  BY <1>1, <1>2, <1>3, FunctionIsSequence
<1>5. ASSUME NEW j \in 1..n, NEW k \in 1..n, s[j] = s[k] PROVE j = k
  <2>0. a[j] \in Dim /\ a[k] \in Dim /\ RowLock(o, a[j]) = RowLock(o, a[k])
    BY <1>3, <1>5
  <2>1. a[j] = a[k] /\ a[j] \in 1..Keys
    BY <2>0, LocksDiffer DEF Dim
  <2>2. j < k \/ k < j \/ j = k
    BY <1>1
  <2>3. j < k => a[j] < a[k]
    BY <1>1
  <2>4. k < j => a[k] < a[j]
    BY <1>1
  <2> QED
    BY <2>1, <2>2, <2>3, <2>4, RequestsTyped
<1>6. \A d \in D : \E k \in 1..n : s[k] = RowLock(o, d)
  BY <1>1, <1>3
<1> QED
  BY <1>3, <1>4, <1>5, <1>6 DEF s

\* Numbers up to 2n are the odd and even ones of n pairs.
LEMMA Pairs ==
  ASSUME NEW n \in Nat
  PROVE  /\ \A i \in 1..n : /\ 2 * i - 1 \in 1..(2 * n) /\ 2 * i \in 1..(2 * n)
                            /\ ((2 * i - 1) + 1) \div 2 = i /\ (2 * i - 1) % 2 = 1
                            /\ (2 * i + 1) \div 2 = i /\ (2 * i) % 2 = 0
         /\ \A k \in 1..(2 * n) : \E i \in 1..n : k = 2 * i - 1 \/ k = 2 * i
<1>1. ASSUME NEW k \in 1..(2 * n) PROVE \E i \in 1..n : k = 2 * i - 1 \/ k = 2 * i
  <2>1. (k + 1) \div 2 \in 1..n
    OBVIOUS
  <2>2. k = 2 * ((k + 1) \div 2) - 1 \/ k = 2 * ((k + 1) \div 2)
    OBVIOUS
  <2> QED
    BY <2>1, <2>2
<1>2. ASSUME NEW i \in 1..n
      PROVE  /\ 2 * i - 1 \in 1..(2 * n) /\ 2 * i \in 1..(2 * n)
             /\ ((2 * i - 1) + 1) \div 2 = i /\ (2 * i - 1) % 2 = 1
             /\ (2 * i + 1) \div 2 = i /\ (2 * i) % 2 = 0
  OBVIOUS
<1> QED
  BY <1>1, <1>2

LEMMA ReleasesAscend ==
  ASSUME NEW o \in Order
  PROVE  LET s == ReleasesInOrder(o) IN
         /\ s \in Seq(Lock)
         /\ \A d \in OpenDims(o) : \E k \in 1..Len(s) : s[k] = RowLock(o, d)
         /\ \A k \in 1..Len(s) : \E d \in Dim :
              \/ s[k] = BalanceLock(d) /\ k + 1 \in 1..Len(s) /\ s[k + 1] = RowLock(o, d)
              \/ s[k] = RowLock(o, d) /\ k # 1 /\ s[k - 1] = BalanceLock(d)
         /\ \A j, k \in 1..Len(s), x, y \in Dim :
              j < k /\ s[j] = BalanceLock(x) /\ s[k] = BalanceLock(y) => x < y
         /\ \A j, k \in 1..Len(s) : s[j] = s[k] => j = k
<1> DEFINE D == OpenDims(o)
           n == Cardinality(D)
           a == Ascending(D)
           s == ReleasesInOrder(o)
           At(k, i) == \/ k = 2 * i - 1 /\ s[k] = BalanceLock(a[i])
                       \/ k = 2 * i /\ s[k] = RowLock(o, a[i])
<1>0. D \in SUBSET Dim
  BY DEF OpenDims
<1>1. /\ n \in Nat /\ a \in [1..n -> D]
      /\ \A x \in D : \E i \in 1..n : a[i] = x
      /\ \A i, j \in 1..n : i < j => a[i] < a[j]
  BY <1>0, RequestsTyped, AscendingSorts DEF Dim, Sorts
<1>2. s = [i \in 1..(2 * n) |-> IF i % 2 = 1 THEN BalanceLock(a[(i + 1) \div 2])
                                             ELSE RowLock(o, a[(i + 1) \div 2])]
  BY DEF ReleasesInOrder
<1> HIDE DEF n, a, s, D
<1>3. \A i \in 1..n : /\ a[i] \in D /\ a[i] \in Dim
                      /\ 2 * i - 1 \in 1..(2 * n) /\ s[2 * i - 1] = BalanceLock(a[i])
                      /\ 2 * i \in 1..(2 * n) /\ s[2 * i] = RowLock(o, a[i])
  <2> TAKE i \in 1..n
  <2>1. a[i] \in D /\ a[i] \in Dim
    BY <1>0, <1>1
  <2>2. /\ 2 * i - 1 \in 1..(2 * n) /\ 2 * i \in 1..(2 * n)
        /\ ((2 * i - 1) + 1) \div 2 = i /\ (2 * i - 1) % 2 = 1
        /\ (2 * i + 1) \div 2 = i /\ (2 * i) % 2 = 0
    BY <1>1, Pairs
  <2>3. s[2 * i - 1] = BalanceLock(a[i])
    BY <1>2, <2>2
  <2>4. s[2 * i] = RowLock(o, a[i])
    BY <1>2, <2>2
  <2> QED
    BY <2>1, <2>2, <2>3, <2>4
<1>4. ASSUME NEW k \in 1..(2 * n) PROVE \E i \in 1..n : At(k, i)
  <2>1. PICK i \in 1..n : k = 2 * i - 1 \/ k = 2 * i
    BY <1>1, Pairs
  <2>2. At(k, i)
    BY <1>3, <2>1
  <2> QED
    BY <2>2
<1>5. s \in Seq(Lock) /\ Len(s) = 2 * n
  <2>1. ASSUME NEW k \in 1..(2 * n) PROVE s[k] \in Lock
    <3>1. PICK i \in 1..n : At(k, i)
      BY <1>4
    <3> QED
      BY <1>3, <3>1, LocksAre
  <2> HIDE DEF s
  <2>2. s \in [1..(2 * n) -> Lock]
    BY <1>2, <2>1
  <2>3. 2 * n \in Nat
    BY <1>1
  <2> QED
    BY <2>2, <2>3, FunctionIsSequence
<1>6. \A d \in D : \E k \in 1..(2 * n) : s[k] = RowLock(o, d)
  BY <1>1, <1>3
<1>7. ASSUME NEW k \in 1..(2 * n)
      PROVE  \E d \in Dim :
               \/ s[k] = BalanceLock(d) /\ k + 1 \in 1..(2 * n) /\ s[k + 1] = RowLock(o, d)
               \/ s[k] = RowLock(o, d) /\ k # 1 /\ s[k - 1] = BalanceLock(d)
  <2>1. PICK i \in 1..n : At(k, i)
    BY <1>4
  <2>2. CASE k = 2 * i - 1 /\ s[k] = BalanceLock(a[i])
    <3>1. k + 1 = 2 * i
      BY <2>2
    <3> QED
      BY <1>3, <2>2, <3>1
  <2>3. CASE k = 2 * i /\ s[k] = RowLock(o, a[i])
    <3>1. k - 1 = 2 * i - 1 /\ k # 1
      BY <2>3
    <3> QED
      BY <1>3, <2>3, <3>1
  <2> QED
    BY <2>1, <2>2, <2>3
<1>8. ASSUME NEW i \in 1..n, NEW j \in 1..n, a[i] = a[j] PROVE i = j
  <2>1. a[i] \in 1..Keys
    BY <1>3 DEF Dim
  <2>2. (i < j => a[i] < a[j]) /\ (j < i => a[j] < a[i])
    BY <1>1
  <2> QED
    BY <1>1, <1>8, <2>1, <2>2, RequestsTyped
<1>9. ASSUME NEW j \in 1..(2 * n), NEW k \in 1..(2 * n), s[j] = s[k] PROVE j = k
  <2>1. PICK i \in 1..n : At(j, i)
    BY <1>4
  <2>2. PICK h \in 1..n : At(k, h)
    BY <1>4
  <2>3. \/ j = 2 * i - 1 /\ k = 2 * h - 1 /\ a[i] = a[h]
        \/ j = 2 * i /\ k = 2 * h /\ a[i] = a[h]
    <3>1. a[i] \in Dim /\ a[h] \in Dim
      BY <1>3
    <3> QED
      BY <1>9, <2>1, <2>2, <3>1, LocksDiffer
  <2> QED
    BY <1>8, <2>3
<1>10. ASSUME NEW j \in 1..(2 * n), NEW k \in 1..(2 * n), NEW x \in Dim, NEW y \in Dim,
              j < k, s[j] = BalanceLock(x), s[k] = BalanceLock(y)
       PROVE  x < y
  <2>1. PICK i \in 1..n : At(j, i)
    BY <1>4
  <2>2. PICK h \in 1..n : At(k, h)
    BY <1>4
  <2>3. j = 2 * i - 1 /\ k = 2 * h - 1 /\ a[i] = x /\ a[h] = y
    <3>1. a[i] \in Dim /\ a[h] \in Dim
      BY <1>3
    <3> QED
      BY <1>10, <2>1, <2>2, <3>1, LocksDiffer
  <2>4. i < h
    BY <1>10, <2>3
  <2> QED
    BY <1>1, <2>3, <2>4
<1> QED
  BY <1>5, <1>6, <1>7, <1>9, <1>10 DEF s, D

LEMMA LinesCover ==
  ASSUME NEW o \in Order
  PROVE  LET s == LinesInOrder(o) IN
         /\ s \in Seq(Lock)
         /\ \A d \in Dims(OrderLines[o]) \ made[o] : \E k \in 1..Len(s) : s[k] = BalanceLock(d)
<1> DEFINE lines == OrderLines[o]
           D == {i \in 1..Len(lines) : lines[i].dim \notin made[o]}
           n == Cardinality(D)
           a == Ascending(D)
           s == LinesInOrder(o)
<1>0. lines \in Seq(Line) /\ Len(lines) \in Nat /\ D \in SUBSET (1..Len(lines))
      /\ \A i \in 1..Len(lines) : lines[i].dim \in Dim
  <2>1. lines \in Seq(Line)
    BY RequestsTyped
  <2>2. \A i \in 1..Len(lines) : lines[i] \in Line
    BY <2>1, ElementOfSeq
  <2> QED
    BY <2>1, <2>2 DEF Line
<1>1. /\ n \in Nat /\ a \in [1..n -> D]
      /\ \A x \in D : \E i \in 1..n : a[i] = x
  BY <1>0, AscendingSorts DEF Sorts
<1>2. s = [i \in 1..(2 * n) |-> IF i % 2 = 1 THEN RowLock(o, lines[a[(i + 1) \div 2]].dim)
                                             ELSE BalanceLock(lines[a[(i + 1) \div 2]].dim)]
  BY DEF LinesInOrder
<1>3. Dims(lines) = {lines[i].dim : i \in 1..Len(lines)}
  BY DEF Dims
<1>4. \A x \in D : x \in 1..Len(lines)
  OBVIOUS
<1>5. \A d \in Dims(lines) \ made[o] : \E x \in D : lines[x].dim = d
  BY <1>3
<1> HIDE DEF n, a, s, D, lines
<1>6. \A i \in 1..n : lines[a[i]].dim \in Dim
  BY <1>0, <1>1, <1>4
<1>7. s \in Seq(Lock) /\ Len(s) = 2 * n
  <2>1. ASSUME NEW k \in 1..(2 * n) PROVE s[k] \in Lock
    <3>1. (k + 1) \div 2 \in 1..n
      BY <1>1
    <3>2. lines[a[(k + 1) \div 2]].dim \in Dim
      BY <1>6, <3>1
    <3> QED
      BY <1>2, <3>2, LocksAre
  <2>2. s \in [1..(2 * n) -> Lock]
    BY <1>2, <2>1
  <2>3. 2 * n \in Nat
    BY <1>1
  <2> QED
    BY <2>2, <2>3, FunctionIsSequence
<1>8. ASSUME NEW d \in Dims(lines) \ made[o] PROVE \E k \in 1..(2 * n) : s[k] = BalanceLock(d)
  <2>1. PICK x \in D : lines[x].dim = d
    BY <1>5
  <2>2. PICK i \in 1..n : a[i] = x
    BY <1>1, <2>1
  <2>3. 2 * i \in 1..(2 * n) /\ (2 * i + 1) \div 2 = i /\ (2 * i) % 2 = 0
    BY <1>1, Pairs
  <2>4. s[2 * i] = BalanceLock(d)
    BY <1>2, <2>1, <2>2, <2>3
  <2> QED
    BY <2>3, <2>4
<1> QED
  BY <1>7, <1>8 DEF s, lines

-----------------------------------------------------------------------------
(* Requests, and what a call leaves to the others.                         *)

LEMMA RequestIs ==
  ASSUME LockTypes, NEW c \in Call
  PROVE  /\ OrderOf(c) \in Order /\ KindOf(c) \in Kind /\ request[c].lines \in Seq(Line)
         /\ request[c].order = OrderOf(c) /\ request[c].kind = KindOf(c)
<1>1. request[c] \in Request
  BY DEF LockTypes
<1>2. request[c] \in [kind : Kind, order : Order, lines : Seq(Line)]
  BY <1>1, RequestsTyped
<1> QED
  BY <1>2 DEF OrderOf, KindOf

LEMMA DimsOf ==
  ASSUME NEW lines \in Seq(Line)
  PROVE  /\ Dims(lines) \subseteq Dim
         /\ \A d \in Dims(lines) : QuantityOf(lines, d) \in Nat
<1>1. \A i \in 1..Len(lines) : lines[i].dim \in Dim /\ lines[i].quantity \in Nat
  <2> TAKE i \in 1..Len(lines)
  <2>1. lines[i] \in Line
    BY ElementOfSeq
  <2> QED
    BY <2>1 DEF Line
<1>2. Dims(lines) \subseteq Dim
  BY <1>1 DEF Dims
<1>3. ASSUME NEW d \in Dims(lines) PROVE QuantityOf(lines, d) \in Nat
  <2>1. \E i \in 1..Len(lines) : lines[i].dim = d
    BY DEF Dims
  <2>2. (CHOOSE i \in 1..Len(lines) : lines[i].dim = d) \in 1..Len(lines)
    BY <2>1
  <2> QED
    BY <1>1, <2>2 DEF QuantityOf
<1> QED
  BY <1>2, <1>3

LEMMA TailOf ==
  ASSUME NEW s \in Seq(Lock), s # <<>>
  PROVE  /\ Tail(s) \in Seq(Lock) /\ Head(s) = s[1] /\ Head(s) \in Lock
         /\ 1 \in 1..Len(s) /\ Len(s) \in Nat /\ Len(Tail(s)) = Len(s) - 1
         /\ \A k \in 1..Len(Tail(s)) : Tail(s)[k] = s[k + 1] /\ k + 1 \in 1..Len(s)
         /\ \A k \in 1..Len(s) : k # 1 => k - 1 \in 1..Len(Tail(s)) /\ Tail(s)[k - 1] = s[k]
<1>1. /\ Len(s) \in Nat /\ Len(s) # 0 /\ Tail(s) \in Seq(Lock) /\ Len(Tail(s)) = Len(s) - 1
      /\ \A k \in 1..Len(Tail(s)) : Tail(s)[k] = s[k + 1]
  BY HeadTailProperties, EmptySeq, LenProperties
<1>2. 1 \in 1..Len(s)
  BY <1>1
<1>3. Head(s) = s[1] /\ Head(s) \in Lock
  BY <1>2, ElementOfSeq, HeadTailProperties
<1>4. \A k \in 1..Len(s) : k # 1 => k - 1 \in 1..Len(Tail(s)) /\ Tail(s)[k - 1] = s[k]
  <2> TAKE k \in 1..Len(s)
  <2> HAVE k # 1
  <2>1. k - 1 \in 1..Len(Tail(s)) /\ (k - 1) + 1 = k
    BY <1>1
  <2> QED
    BY <1>1, <2>1
<1> QED
  BY <1>1, <1>2, <1>3, <1>4

\* A step of call e changes only what e has locked.
Touches(e) ==
  /\ request' = request
  /\ \A c \in Call : c # e =>
       /\ stage'[c] = stage[c] /\ todo'[c] = todo[c]
       /\ held'[c] = held[c] /\ seen'[c] = seen[c]
  /\ \A d \in Dim : BalanceLock(d) \notin held[e] =>
       /\ onHand'[d] = onHand[d] /\ reserved'[d] = reserved[d]
       /\ \A o \in Order : open'[o][d] = open[o][d]
  /\ \A o \in Order : OrderLock(o) \notin held[e] =>
       /\ made'[o] = made[o]
       /\ o \in closed' => o \in closed
       /\ \A d \in Dim : open'[o][d] > 0 => open[o][d] > 0

LEMMA OthersStaySound ==
  ASSUME LocksInv, NEW e \in Call, Touches(e), NEW c \in Call, c # e
  PROVE  CallSound(c)'
<1>1. /\ request' = request /\ stage'[c] = stage[c] /\ todo'[c] = todo[c]
      /\ held'[c] = held[c] /\ seen'[c] = seen[c]
  BY DEF Touches
<1>2. \A l : l \in held[c] => l \notin held[e]
  BY DEF LocksInv, LocksExclude
<1>3. ASSUME NEW d \in Dim, BalanceLock(d) \in held[c]
      PROVE  /\ onHand'[d] = onHand[d] /\ reserved'[d] = reserved[d]
             /\ \A o \in Order : open'[o][d] = open[o][d]
  BY <1>2, <1>3 DEF Touches
<1>4. ASSUME NEW o \in Order, OrderLock(o) \in held[c]
      PROVE  /\ made'[o] = made[o] /\ (o \in closed' => o \in closed)
             /\ \A d \in Dim : open'[o][d] > 0 => open[o][d] > 0
  BY <1>2, <1>4 DEF Touches
<1>5. OrderOf(c) \in Order /\ request[c].lines \in Seq(Line) /\ Dims(request[c].lines) \subseteq Dim
  BY RequestIs, DimsOf DEF LocksInv
<1>6. CallSound(c)
  BY DEF LocksInv
<1>7. OrderFirst(c)'
  BY <1>1, <1>4, <1>5, <1>6 DEF CallSound, OrderFirst, OrderOf, KindOf
<1>8. ReadsStand(c)'
  BY <1>1, <1>3, <1>6 DEF CallSound, ReadsStand
<1>9. ReserveSound(c)'
  <2> SUFFICES ASSUME stage[c] = "balances", KindOf(c) = "reserve"
               PROVE  \A d \in Reserving(c)' : Asked(c, BalanceLock(d))
    BY <1>1 DEF ReserveSound, Asked, Steps, KindOf
  <2>1. OrderLock(OrderOf(c)) \in held[c]
    BY <1>6 DEF CallSound, OrderFirst
  <2>2. Reserving(c)' = Reserving(c)
    BY <1>1, <1>4, <1>5, <2>1 DEF Reserving, OrderOf
  <2> QED
    BY <1>6, <2>2 DEF CallSound, ReserveSound
<1>10. PostingSound(c)'
  <2>1. CASE stage[c] = "balances"
    BY <1>1, <1>6, <2>1 DEF CallSound, PostingSound, Posts, KindOf, Asked, Steps
  <2>2. CASE stage[c] = "rows"
    <3>1. \A d \in Dims(request[c].lines) :
            BalanceLock(d) \in held[c] /\ open'[OrderOf(c)][d] = open[OrderOf(c)][d]
      BY <1>3, <1>5, <1>6, <2>2 DEF CallSound, PostingSound
    <3> QED
      BY <1>1, <1>6, <2>2, <3>1 DEF CallSound, PostingSound, Posts, KindOf, OrderOf, Steps
  <2>3. CASE stage[c] \notin {"balances", "rows"}
    BY <1>1, <2>3 DEF PostingSound
  <2> QED
    BY <2>1, <2>2, <2>3
<1>11. CloseSound(c)'
  <2> SUFFICES ASSUME stage[c] = "balances", KindOf(c) = "close"
               PROVE  CloseSound(c)'
    BY <1>1 DEF CloseSound, KindOf
  <2>1. OrderLock(OrderOf(c)) \in held[c]
    BY <1>6 DEF CallSound, OrderFirst
  <2>2. \A d \in Dim : open'[OrderOf(c)][d] > 0 => open[OrderOf(c)][d] > 0
    BY <1>4, <1>5, <2>1
  <2>3. \A d \in Dim : RowLock(OrderOf(c), d) \in held[c] =>
          open'[OrderOf(c)][d] = open[OrderOf(c)][d]
    <3>1. \A d \in Dim : RowLock(OrderOf(c), d) \in held[c] => BalanceLock(d) \in held[c]
      BY <1>5, <1>6 DEF CallSound, Climbs
    <3> QED
      BY <1>3, <1>5, <3>1
  <2> QED
    BY <1>1, <1>6, <2>2, <2>3 DEF CallSound, CloseSound, KindOf, OrderOf, Asked, Steps
<1>12. Climbs(c)'
  BY <1>1, <1>6 DEF CallSound, Climbs, KindOf, Steps
<1> QED
  BY <1>7, <1>8, <1>9, <1>10, <1>11, <1>12 DEF CallSound

\* A step keeps the invariant if it keeps the tables and the acting call sound.
LEMMA StepKeepsLocks ==
  ASSUME LocksInv, NEW c \in Call, Touches(c), LockTypes', CallSound(c)', LocksExclude',
         PledgesCovered', OpenIsMade', ClosedOrdersHoldNothing'
  PROVE  LocksInv'
<1>1. \A e \in Call : CallSound(e)'
  BY OthersStaySound
<1> QED
  BY <1>1 DEF LocksInv

LEMMA NewLocksExclude ==
  ASSUME LocksInv, NEW c \in Call, NEW H,
         held' = [held EXCEPT ![c] = H],
         \A l \in H : l \in held[c] \/ \A e \in Call : l \notin held[e]
  PROVE  LocksExclude'
<1>1. held \in [Call -> SUBSET Lock]
  BY DEF LocksInv, LockTypes
<1>2. \A e \in Call : held'[e] = IF e = c THEN H ELSE held[e]
  BY <1>1
<1> QED
  BY <1>2 DEF LocksInv, LocksExclude

\* While the tables stay, only the calls matter.
LEMMA TablesStay ==
  ASSUME LocksInv, UNCHANGED tables
  PROVE  PledgesCovered' /\ OpenIsMade' /\ ClosedOrdersHoldNothing'
BY DEF LocksInv, tables, PledgesCovered, OpenIsMade, ClosedOrdersHoldNothing

LEMMA QuietTouches ==
  ASSUME LocksInv, NEW c \in Call, UNCHANGED tables, request' = request,
         \A e \in Call : e # c =>
           /\ stage'[e] = stage[e] /\ todo'[e] = todo[e]
           /\ held'[e] = held[e] /\ seen'[e] = seen[e]
  PROVE  Touches(c)
BY DEF Touches, tables

\* A call that ended holds nothing, so nothing is asked of it.
LEMMA EndedIsSound ==
  ASSUME NEW c, stage'[c] \in Ended, held'[c] = {}, todo'[c] = <<>>
  PROVE  CallSound(c)'
<1>1. stage'[c] \notin {"order", "balances", "rows"}
  BY DEF Ended
<1>2. Steps(c)' = {}
  BY DEF Steps
<1>3. OrderFirst(c)'
  BY <1>1 DEF OrderFirst
<1>4. ReadsStand(c)' /\ ReserveSound(c)' /\ PostingSound(c)' /\ CloseSound(c)'
  BY <1>1 DEF ReadsStand, ReserveSound, PostingSound, CloseSound
<1>5. Climbs(c)'
  BY <1>2 DEF Climbs
<1> QED
  BY <1>3, <1>4, <1>5 DEF CallSound

-----------------------------------------------------------------------------
(* Steps that write no table.                                              *)

\* A step on the calls alone, by call c.
OwnStep(c, g, t, h, s) ==
  /\ stage' = [stage EXCEPT ![c] = g] /\ todo' = [todo EXCEPT ![c] = t]
  /\ held' = [held EXCEPT ![c] = h] /\ seen' = [seen EXCEPT ![c] = s]

Reads == [onHand : [Dim -> Int], reserved : [Dim -> Int], open : [Dim -> Nat]]

LEMMA OwnStepIs ==
  ASSUME LockTypes, NEW c \in Call, NEW g, NEW t, NEW h, NEW s, OwnStep(c, g, t, h, s)
  PROVE  /\ stage'[c] = g /\ todo'[c] = t /\ held'[c] = h /\ seen'[c] = s
         /\ \A e \in Call : e # c =>
              /\ stage'[e] = stage[e] /\ todo'[e] = todo[e]
              /\ held'[e] = held[e] /\ seen'[e] = seen[e]
BY DEF LockTypes, OwnStep

LEMMA OwnStepTypes ==
  ASSUME LockTypes, NEW c \in Call, NEW g \in Stage, NEW t \in Seq(Lock), NEW h \in SUBSET Lock,
         NEW s \in Reads, OwnStep(c, g, t, h, s), request' = request
  PROVE  /\ request' \in [Call -> Request] /\ stage' \in [Call -> Stage]
         /\ todo' \in [Call -> Seq(Lock)] /\ held' \in [Call -> SUBSET Lock]
         /\ seen' \in [Call -> Reads]
<1>1. seen \in [Call -> Reads]
  BY DEF LockTypes, Reads
<1> QED
  BY <1>1 DEF LockTypes, OwnStep

LEMMA QuietStep ==
  ASSUME LocksInv, NEW c \in Call, NEW g \in Stage, NEW t \in Seq(Lock), NEW h \in SUBSET Lock,
         NEW s \in Reads, OwnStep(c, g, t, h, s), UNCHANGED tables, request' = request,
         \A l \in h : l \in held[c] \/ \A e \in Call : l \notin held[e],
         CallSound(c)'
  PROVE  LocksInv'
<1>1. LockTypes
  BY DEF LocksInv
<1>2. Touches(c)
  BY <1>1, OwnStepIs, QuietTouches
<1>3. LockTypes'
  BY <1>1, OwnStepTypes DEF LockTypes, tables, Reads
<1>4. LocksExclude'
  BY NewLocksExclude DEF OwnStep
<1> QED
  BY <1>2, <1>3, <1>4, TablesStay, StepKeepsLocks

LEMMA UnreadType == Unread \in Reads
BY DEF Unread, Reads

LEMMA NoLocks == <<>> \in Seq(Lock) /\ {} \in SUBSET Lock
OBVIOUS

\* What Start sets up.
LEMMA StartKeepsLocks ==
  ASSUME LocksInv, NEW c \in Call, Start(c), UNCHANGED tables, request' = request
  PROVE  LocksInv'
<1> DEFINE o == OrderOf(c)
           lines == request[c].lines
<1>0. LockTypes
  BY DEF LocksInv
<1>1. o \in Order /\ lines \in Seq(Line) /\ Dims(lines) \in SUBSET Dim
      /\ request[c].order = o /\ request[c].kind = KindOf(c)
  BY <1>0, RequestIs, DimsOf
<1>2. CASE KindOf(c) = "document"
  <2> DEFINE t == BalancesInOrder(Dims(lines))
  <2>1. OwnStep(c, "balances", t, {}, Unread)
    BY <1>1, <1>2 DEF Start, OwnStep
  <2>2. /\ t \in Seq(Lock)
        /\ \A k \in 1..Len(t) : \E d \in Dims(lines) : t[k] = BalanceLock(d)
        /\ \A d \in Dims(lines) : \E k \in 1..Len(t) : t[k] = BalanceLock(d)
        /\ \A j, k \in 1..Len(t), x, y \in Dim :
             j < k /\ t[j] = BalanceLock(x) /\ t[k] = BalanceLock(y) => x < y
        /\ \A j, k \in 1..Len(t) : t[j] = t[k] => j = k
    BY <1>1, BalancesAscend
  <2> HIDE DEF t
  <2>3. stage'[c] = "balances" /\ todo'[c] = t /\ held'[c] = {} /\ seen'[c] = Unread
    BY <1>0, <2>1, OwnStepIs
  <2>4. OrderFirst(c)' /\ ReadsStand(c)' /\ ReserveSound(c)' /\ CloseSound(c)'
    BY <1>2, <2>3 DEF OrderFirst, ReadsStand, ReserveSound, CloseSound, Ended, KindOf
  <2>5. PostingSound(c)'
    BY <1>1, <2>2, <2>3 DEF PostingSound, Asked, Steps
  <2>6. Climbs(c)'
    <3>1. \A j, k \in 1..Len(t) : j > k => k < j
      OBVIOUS
    <3> QED
      BY <2>2, <2>3, <3>1 DEF Climbs, Steps
  <2>7. CallSound(c)'
    BY <2>4, <2>5, <2>6 DEF CallSound
  <2>8. "balances" \in Stage
    BY DEF Stage
  <2> QED
    BY <2>1, <2>2, <2>7, <2>8, UnreadType, NoLocks, QuietStep
<1>3. CASE KindOf(c) # "document"
  <2> DEFINE t == <<OrderLock(o)>>
  <2>1. OwnStep(c, "order", t, {}, Unread)
    BY <1>1, <1>3 DEF Start, OwnStep
  <2>2. t \in Seq(Lock) /\ Len(t) = 1 /\ t[1] = OrderLock(o)
    BY <1>1, LocksAre
  <2> HIDE DEF o
  <2>3. stage'[c] = "order" /\ todo'[c] = t /\ held'[c] = {} /\ seen'[c] = Unread
    BY <1>0, <2>1, OwnStepIs
  <2>4. ReadsStand(c)' /\ ReserveSound(c)' /\ CloseSound(c)' /\ PostingSound(c)'
    BY <2>3 DEF ReadsStand, ReserveSound, CloseSound, PostingSound
  <2>5. OrderFirst(c)'
    BY <1>3, <2>3 DEF OrderFirst, Ended, KindOf, OrderOf, o
  <2> HIDE DEF t
  <2>6. Climbs(c)'
    <3>1. \A k \in 1..Len(t) : k = 1 /\ \A d \in Dim : t[k] # BalanceLock(d)
      BY <1>1, <2>2, LocksDiffer
    <3> QED
      BY <2>3, <3>1 DEF Climbs, Steps
  <2>7. CallSound(c)'
    BY <2>4, <2>5, <2>6 DEF CallSound
  <2>8. "order" \in Stage
    BY DEF Stage
  <2> QED
    BY <2>1, <2>2, <2>7, <2>8, UnreadType, NoLocks, QuietStep
<1> QED
  BY <1>2, <1>3

LEMMA EndKeepsLocks ==
  ASSUME LocksInv, NEW c \in Call, NEW how \in Ended, EndWith(c, how), UNCHANGED tables,
         request' = request
  PROVE  LocksInv'
<1>1. OwnStep(c, how, <<>>, {}, Unread)
  BY DEF EndWith, OwnStep
<1>2. stage'[c] = how /\ todo'[c] = <<>> /\ held'[c] = {}
  BY <1>1, OwnStepIs DEF LocksInv
<1>3. CallSound(c)'
  BY <1>2, EndedIsSound
<1>4. how \in Stage
  BY DEF Stage
<1> QED
  BY <1>1, <1>3, <1>4, UnreadType, NoLocks, QuietStep

LEMMA BeginKeepsLocks ==
  ASSUME LocksInv, NEW c \in Call, Begin(c)
  PROVE  LocksInv'
BY StartKeepsLocks DEF Begin

LEMMA RefuseKeepsLocks ==
  ASSUME LocksInv, NEW c \in Call, Refuse(c)
  PROVE  LocksInv'
BY EndKeepsLocks DEF Refuse, Ended

LEMMA RollBackKeepsLocks ==
  ASSUME LocksInv, NEW c \in Call, RollBack(c)
  PROVE  LocksInv'
<1>1. CASE Start(c)
  BY <1>1, StartKeepsLocks DEF RollBack
<1>2. CASE EndWith(c, "failed")
  BY <1>2, EndKeepsLocks DEF RollBack, Ended
<1> QED
  BY <1>1, <1>2 DEF RollBack

\* With the order locked, nothing else is held: the new list is climbed from the bottom.
LEMMA AdmitKeepsLocks ==
  ASSUME LocksInv, NEW c \in Call, AdmitOrder(c)
  PROVE  LocksInv'
<1> DEFINE o == OrderOf(c)
           lines == request[c].lines
           t == todo'[c]
           s == [seen[c] EXCEPT !.open = open[o]]
<1>0. LockTypes /\ CallSound(c)
  BY DEF LocksInv
<1>1. o \in Order /\ lines \in Seq(Line) /\ Dims(lines) \in SUBSET Dim
      /\ request[c].order = o /\ request[c].kind = KindOf(c) /\ KindOf(c) \in Kind
  BY <1>0, RequestIs, DimsOf
<1>2. /\ stage[c] = "order" /\ todo[c] = <<>> /\ o \notin closed
      /\ KindOf(c) # "document" /\ held[c] = {OrderLock(o)}
  BY <1>0, <1>1 DEF AdmitOrder, CallSound, OrderFirst
<1>3. UNCHANGED tables /\ request' = request /\ held' = held
  BY DEF AdmitOrder
<1>4. /\ t = CASE KindOf(c) = "reserve" -> LinesInOrder(o)
               [] KindOf(c) = "ship" -> BalancesInOrder(Dims(lines))
               [] KindOf(c) = "close" -> ReleasesInOrder(o)
      /\ todo' = [todo EXCEPT ![c] = t]
  <2> DEFINE v == CASE KindOf(c) = "reserve" -> LinesInOrder(o)
                    [] KindOf(c) = "ship" -> BalancesInOrder(Dims(lines))
                    [] KindOf(c) = "close" -> ReleasesInOrder(o)
  <2>1. todo' = [todo EXCEPT ![c] = v]
    BY DEF AdmitOrder, OrderOf, KindOf
  <2> HIDE DEF v
  <2>2. todo'[c] = v
    BY <1>0, <2>1 DEF LockTypes
  <2> QED
    BY <2>1, <2>2 DEF v
<1>5. s \in Reads /\ s.open = open[o] /\ seen' = [seen EXCEPT ![c] = s]
  <2>1. seen[c] \in Reads /\ open[o] \in [Dim -> Nat]
    BY <1>0, <1>1 DEF LockTypes, Reads
  <2> QED
    BY <1>1, <2>1 DEF AdmitOrder, Reads
<1>6. OwnStep(c, "balances", t, held[c], s)
  BY <1>0, <1>3, <1>4, <1>5 DEF AdmitOrder, OwnStep, LockTypes
<1>7. \A d \in Dim : BalanceLock(d) \notin held[c]
  BY <1>1, <1>2, LocksDiffer
<1>8. \A p \in Order, d \in Dim : RowLock(p, d) \notin held[c]
  BY <1>1, <1>2, LocksDiffer
<1> HIDE DEF s, t
<1>9. stage'[c] = "balances" /\ todo'[c] = t /\ held'[c] = held[c] /\ seen'[c] = s
  BY <1>0, <1>6, OwnStepIs
<1>10. OrderFirst(c)' /\ ReadsStand(c)'
  BY <1>1, <1>2, <1>3, <1>7, <1>9 DEF OrderFirst, ReadsStand, Ended, KindOf, OrderOf, tables
<1>11. t \in Seq(Lock) /\ ReserveSound(c)' /\ PostingSound(c)' /\ CloseSound(c)' /\ Climbs(c)'
  <2>1. CASE KindOf(c) = "reserve"
    <3>1. t = LinesInOrder(o)
      BY <1>4, <2>1
    <3>2. t \in Seq(Lock) /\ \A d \in Dims(OrderLines[o]) \ made[o] :
                               \E k \in 1..Len(t) : t[k] = BalanceLock(d)
      BY <1>1, <3>1, LinesCover
    <3>3. ReserveSound(c)'
      BY <1>1, <1>3, <1>9, <3>2 DEF ReserveSound, Asked, Steps, Reserving, tables
    <3>4. PostingSound(c)' /\ CloseSound(c)' /\ Climbs(c)'
      BY <1>3, <1>9, <2>1 DEF PostingSound, CloseSound, Climbs, KindOf, Posts
    <3> QED
      BY <3>2, <3>3, <3>4
  <2>2. CASE KindOf(c) = "ship"
    <3> DEFINE b == BalancesInOrder(Dims(lines))
    <3>0. /\ b \in Seq(Lock)
          /\ \A k \in 1..Len(b) : \E d \in Dims(lines) : b[k] = BalanceLock(d)
          /\ \A d \in Dims(lines) : \E k \in 1..Len(b) : b[k] = BalanceLock(d)
          /\ \A j, k \in 1..Len(b), x, y \in Dim :
               j < k /\ b[j] = BalanceLock(x) /\ b[k] = BalanceLock(y) => x < y
          /\ \A j, k \in 1..Len(b) : b[j] = b[k] => j = k
      BY <1>1, BalancesAscend
    <3>1. t = b
      BY <1>4, <2>2
    <3> HIDE DEF b
    <3>2. /\ t \in Seq(Lock)
          /\ \A k \in 1..Len(t) : \E d \in Dims(lines) : t[k] = BalanceLock(d)
          /\ \A d \in Dims(lines) : \E k \in 1..Len(t) : t[k] = BalanceLock(d)
          /\ \A j, k \in 1..Len(t), x, y \in Dim :
               j < k /\ t[j] = BalanceLock(x) /\ t[k] = BalanceLock(y) => x < y
          /\ \A j, k \in 1..Len(t) : t[j] = t[k] => j = k
      BY <3>0, <3>1
    <3>3. ReserveSound(c)' /\ CloseSound(c)'
      BY <1>3, <1>9, <2>2 DEF ReserveSound, CloseSound, KindOf
    <3>4. PostingSound(c)'
      BY <1>1, <1>3, <1>8, <1>9, <3>2 DEF PostingSound, Asked, Steps
    <3>5. Climbs(c)'
      <4>1. \A j, k \in 1..Len(t) : j > k => k < j
        OBVIOUS
      <4>2. \A k \in 1..Len(t) : t[k] \notin held[c]
        BY <1>1, <1>7, <3>2
      <4> QED
        BY <1>7, <1>8, <1>9, <3>2, <4>1, <4>2 DEF Climbs, Steps
    <3> QED
      BY <3>2, <3>3, <3>4, <3>5
  <2>3. CASE KindOf(c) = "close"
    <3> DEFINE r == ReleasesInOrder(o)
    <3>0. /\ r \in Seq(Lock)
          /\ \A d \in OpenDims(o) : \E k \in 1..Len(r) : r[k] = RowLock(o, d)
          /\ \A k \in 1..Len(r) : \E d \in Dim :
               \/ r[k] = BalanceLock(d) /\ k + 1 \in 1..Len(r) /\ r[k + 1] = RowLock(o, d)
               \/ r[k] = RowLock(o, d) /\ k # 1 /\ r[k - 1] = BalanceLock(d)
          /\ \A j, k \in 1..Len(r), x, y \in Dim :
               j < k /\ r[j] = BalanceLock(x) /\ r[k] = BalanceLock(y) => x < y
          /\ \A j, k \in 1..Len(r) : r[j] = r[k] => j = k
      BY <1>1, ReleasesAscend
    <3>1. t = r
      BY <1>4, <2>3
    <3> HIDE DEF r
    <3>2. /\ t \in Seq(Lock)
          /\ \A d \in OpenDims(o) : \E k \in 1..Len(t) : t[k] = RowLock(o, d)
          /\ \A k \in 1..Len(t) : \E d \in Dim :
               \/ t[k] = BalanceLock(d) /\ k + 1 \in 1..Len(t) /\ t[k + 1] = RowLock(o, d)
               \/ t[k] = RowLock(o, d) /\ k # 1 /\ t[k - 1] = BalanceLock(d)
          /\ \A j, k \in 1..Len(t), x, y \in Dim :
               j < k /\ t[j] = BalanceLock(x) /\ t[k] = BalanceLock(y) => x < y
          /\ \A j, k \in 1..Len(t) : t[j] = t[k] => j = k
      BY <3>0, <3>1
    <3>3. ReserveSound(c)' /\ PostingSound(c)'
      BY <1>3, <1>9, <2>3 DEF ReserveSound, PostingSound, KindOf, Posts
    <3>4. CloseSound(c)'
      <4>1. \A d \in Dim : open[o][d] > 0 => \E k \in 1..Len(t) : t[k] = RowLock(o, d)
        BY <3>2 DEF OpenDims
      <4>2. request'[c].order = o /\ open' = open
        BY <1>1, <1>3 DEF tables
      <4> QED
        BY <1>1, <1>8, <1>9, <3>2, <4>1, <4>2 DEF CloseSound, Asked, Steps, OrderOf
    <3>5. Climbs(c)'
      <4>1. \A j, k \in 1..Len(t) : j > k => k < j
        OBVIOUS
      <4>2. \A k \in 1..Len(t) : t[k] \notin held[c]
        BY <1>1, <1>7, <1>8, <3>2
      <4> QED
        BY <1>7, <1>8, <1>9, <3>2, <4>1, <4>2 DEF Climbs, Steps
    <3> QED
      BY <3>2, <3>3, <3>4, <3>5
  <2> QED
    BY <1>1, <1>2, <2>1, <2>2, <2>3 DEF Kind
<1>12. CallSound(c)'
  BY <1>10, <1>11 DEF CallSound
<1>13. "balances" \in Stage /\ held[c] \in SUBSET Lock
  BY <1>0 DEF Stage, LockTypes
<1> QED
  BY <1>3, <1>5, <1>6, <1>11, <1>12, <1>13, QuietStep

\* Locking the next row of the list.
LEMMA AcquireKeepsLocks ==
  ASSUME LocksInv, NEW c \in Call, Acquire(c)
  PROVE  LocksInv'
<1> DEFINE o == OrderOf(c)
           lines == request[c].lines
           q == todo[c]
           l == Head(q)
           t == Tail(q)
           h == held[c] \union {l}
           s == seen'[c]
<1>0. LockTypes /\ CallSound(c)
  BY DEF LocksInv
<1>1. o \in Order /\ Dims(lines) \subseteq Dim /\ request[c].order = o
  BY <1>0, RequestIs, DimsOf
<1>2. q \in Seq(Lock) /\ q # <<>> /\ held[c] \in SUBSET Lock
  BY <1>0 DEF Acquire, LockTypes
<1>3. /\ t \in Seq(Lock) /\ l = q[1] /\ l \in Lock
      /\ 1 \in Steps(c) /\ Len(q) \in Nat /\ Len(t) = Len(q) - 1
      /\ \A k \in 1..Len(t) : t[k] = q[k + 1] /\ k + 1 \in Steps(c)
      /\ \A k \in Steps(c) : k # 1 => k - 1 \in 1..Len(t) /\ t[k - 1] = q[k]
  BY <1>2, TailOf DEF Steps
<1>4. UNCHANGED tables /\ request' = request /\ stage' = stage
      /\ \A e \in Call : l \notin held[e]
  BY DEF Acquire, Free
<1>5. /\ s \in Reads /\ seen' = [seen EXCEPT ![c] = s]
      /\ \A d \in Dim :
           /\ s.onHand[d] = IF l = BalanceLock(d) THEN onHand[d] ELSE seen[c].onHand[d]
           /\ s.reserved[d] = IF l = BalanceLock(d) THEN reserved[d] ELSE seen[c].reserved[d]
           /\ s.open[d] = IF l = RowLock(o, d) THEN open[o][d] ELSE seen[c].open[d]
  <2> DEFINE v == [onHand |-> [d \in Dim |-> IF l = BalanceLock(d) THEN onHand[d]
                                             ELSE seen[c].onHand[d]],
                   reserved |-> [d \in Dim |-> IF l = BalanceLock(d) THEN reserved[d]
                                               ELSE seen[c].reserved[d]],
                   open |-> [d \in Dim |-> IF l = RowLock(request[c].order, d)
                                           THEN open[request[c].order][d]
                                           ELSE seen[c].open[d]]]
  <2>1. seen' = [seen EXCEPT ![c] = v]
    BY DEF Acquire
  <2>2. seen[c] \in Reads /\ onHand \in [Dim -> Int] /\ reserved \in [Dim -> Int]
        /\ open[o] \in [Dim -> Nat]
    BY <1>0, <1>1 DEF LockTypes, Reads
  <2>3. v \in Reads
    BY <1>1, <2>2 DEF Reads
  <2>4. \A d \in Dim :
          /\ v.onHand[d] = IF l = BalanceLock(d) THEN onHand[d] ELSE seen[c].onHand[d]
          /\ v.reserved[d] = IF l = BalanceLock(d) THEN reserved[d] ELSE seen[c].reserved[d]
          /\ v.open[d] = IF l = RowLock(o, d) THEN open[o][d] ELSE seen[c].open[d]
    BY <1>1
  <2> HIDE DEF v, o, l
  <2>5. seen'[c] = v
    BY <1>0, <2>1 DEF LockTypes
  <2> QED
    BY <2>1, <2>3, <2>4, <2>5
<1>6. OwnStep(c, stage[c], t, h, s)
  <2>1. stage' = [stage EXCEPT ![c] = stage[c]]
    BY <1>0, <1>4 DEF LockTypes
  <2>2. todo' = [todo EXCEPT ![c] = t] /\ held' = [held EXCEPT ![c] = h]
    BY DEF Acquire
  <2> HIDE DEF s, t, h
  <2> QED
    BY <1>5, <2>1, <2>2 DEF OwnStep
<1> HIDE DEF s
<1>7. stage'[c] = stage[c] /\ todo'[c] = t /\ held'[c] = h /\ seen'[c] = s
  BY <1>0, <1>6, OwnStepIs
<1> HIDE DEF t, q, l
<1>8. \A x : Asked(c, x) => (x \in h \/ \E k \in 1..Len(t) : t[k] = x)
  BY <1>3 DEF Asked, q
<1>9. OrderOf(c)' = o /\ KindOf(c)' = KindOf(c) /\ Posts(c)' = Posts(c)
      /\ Steps(c)' = 1..Len(t) /\ request'[c].lines = lines
  BY <1>4, <1>7 DEF OrderOf, KindOf, Posts, Steps
<1>10. \A x : Asked(c, x) => Asked(c, x)'
  BY <1>7, <1>8, <1>9 DEF Asked
<1>11. OrderFirst(c)'
  <2>1. stage[c] \notin Ended
    BY <1>0, <1>2 DEF CallSound, OrderFirst, q
  <2>2. CASE stage[c] = "order"
    <3>1. q = <<OrderLock(o)>> /\ held[c] = {} /\ KindOf(c) # "document"
      BY <1>0, <1>2, <2>2 DEF CallSound, OrderFirst, q
    <3>2. l = OrderLock(o) /\ t = <<>>
      BY <3>1 DEF l, t
    <3> QED
      BY <1>7, <1>9, <2>1, <2>2, <3>1, <3>2 DEF OrderFirst
  <2>3. CASE stage[c] \in {"balances", "rows"}
    BY <1>0, <1>4, <1>7, <1>9, <2>1, <2>3 DEF CallSound, OrderFirst, tables
  <2>4. stage[c] \in Stage
    BY <1>0 DEF LockTypes
  <2> QED
    BY <2>1, <2>2, <2>3, <2>4 DEF Stage
<1>12. ReadsStand(c)'
  <2>1. ASSUME NEW d \in Dim, BalanceLock(d) \in h
        PROVE  s.onHand[d] = onHand[d] /\ s.reserved[d] = reserved[d]
    BY <1>0, <1>5, <2>1 DEF CallSound, ReadsStand
  <2> QED
    BY <1>4, <1>7, <2>1 DEF ReadsStand, tables
<1>13. ReserveSound(c)'
  BY <1>0, <1>4, <1>7, <1>9, <1>10 DEF CallSound, ReserveSound, Reserving, tables
<1>14. PostingSound(c)'
  <2>1. CASE stage[c] = "balances" /\ Posts(c)
    <3>1. \A d \in Dims(lines) : Asked(c, BalanceLock(d))'
      BY <1>0, <1>10, <2>1 DEF CallSound, PostingSound
    <3>2. \A k \in Steps(c) : \E d \in Dim : q[k] = BalanceLock(d)
      BY <1>0, <2>1 DEF CallSound, PostingSound, q
    <3>3. \A k \in 1..Len(t) : \E d \in Dim : t[k] = BalanceLock(d)
      BY <1>3, <3>2
    <3>4. \A p \in Order, d \in Dim : RowLock(p, d) \notin h
      <4>1. \A p \in Order, d \in Dim : RowLock(p, d) \notin held[c]
        BY <1>0, <2>1 DEF CallSound, PostingSound
      <4>2. PICK x \in Dim : l = BalanceLock(x)
        BY <1>3, <3>2
      <4> QED
        BY <4>1, <4>2, LocksDiffer
    <3> QED
      BY <1>7, <1>9, <2>1, <3>1, <3>3, <3>4 DEF PostingSound
  <2>2. CASE stage[c] = "rows"
    <3>1. Posts(c) /\ \A d \in Dims(lines) : BalanceLock(d) \in h
      BY <1>0, <2>2 DEF CallSound, PostingSound
    <3>2. ASSUME NEW d \in Dims(lines)
          PROVE  s.open[d] = open[o][d] \/ \E k \in 1..Len(t) : t[k] = RowLock(o, d)
      <4>1. seen[c].open[d] = open[o][d] \/ \E k \in Steps(c) : q[k] = RowLock(o, d)
        BY <1>0, <2>2 DEF CallSound, PostingSound, q
      <4>2. d \in Dim
        BY <1>1
      <4>3. CASE seen[c].open[d] = open[o][d]
        BY <1>5, <4>2, <4>3
      <4>4. ASSUME NEW k \in Steps(c), q[k] = RowLock(o, d)
            PROVE  s.open[d] = open[o][d] \/ \E j \in 1..Len(t) : t[j] = RowLock(o, d)
        <5>1. CASE k = 1
          BY <1>3, <1>5, <4>2, <4>4, <5>1
        <5>2. CASE k # 1
          BY <1>3, <4>4, <5>2
        <5> QED
          BY <5>1, <5>2
      <4> QED
        BY <4>1, <4>3, <4>4
    <3>3. \A k \in 1..Len(t) : \E d \in Dims(lines) : t[k] = RowLock(o, d)
      <4>1. \A k \in Steps(c) : \E d \in Dims(lines) : q[k] = RowLock(o, d)
        BY <1>0, <2>2 DEF CallSound, PostingSound, q
      <4> QED
        BY <1>3, <4>1
    <3>4. open' = open
      BY <1>4 DEF tables
    <3> QED
      BY <1>7, <1>9, <2>2, <3>1, <3>2, <3>3, <3>4 DEF PostingSound
  <2>3. CASE ~ (stage[c] = "balances" /\ Posts(c)) /\ stage[c] # "rows"
    BY <1>7, <1>9, <2>3 DEF PostingSound
  <2> QED
    BY <2>1, <2>2, <2>3
<1>15. CloseSound(c)'
  <2> SUFFICES ASSUME stage[c] = "balances", KindOf(c) = "close" PROVE CloseSound(c)'
    BY <1>7, <1>9 DEF CloseSound
  <2>1. /\ \A d \in Dim : open[o][d] > 0 => Asked(c, RowLock(o, d))
        /\ \A d \in Dim : RowLock(o, d) \in held[c] => seen[c].open[d] = open[o][d]
        /\ \A k \in Steps(c) :
             \E d \in Dim :
               \/ q[k] = BalanceLock(d) /\ k + 1 \in Steps(c) /\ q[k + 1] = RowLock(o, d)
               \/ /\ q[k] = RowLock(o, d)
                  /\ IF k = 1 THEN BalanceLock(d) \in held[c] ELSE q[k - 1] = BalanceLock(d)
    BY <1>0 DEF CallSound, CloseSound, q
  <2>2. open' = open
    BY <1>4 DEF tables
  <2>3. \A d \in Dim : open'[o][d] > 0 =>
          RowLock(o, d) \in h \/ \E k \in 1..Len(t) : t[k] = RowLock(o, d)
    BY <1>8, <2>1, <2>2
  <2>4. \A d \in Dim : RowLock(o, d) \in h => s.open[d] = open[o][d]
    BY <1>5, <2>1
  <2>5. ASSUME NEW k \in 1..Len(t)
        PROVE  \E d \in Dim :
                 \/ t[k] = BalanceLock(d) /\ k + 1 \in 1..Len(t) /\ t[k + 1] = RowLock(o, d)
                 \/ /\ t[k] = RowLock(o, d)
                    /\ IF k = 1 THEN BalanceLock(d) \in h ELSE t[k - 1] = BalanceLock(d)
    <3>1. k + 1 \in Steps(c) /\ t[k] = q[k + 1] /\ k + 1 # 1 /\ (k + 1) - 1 = k
      BY <1>3
    <3>2. PICK d \in Dim :
            \/ /\ q[k + 1] = BalanceLock(d)
               /\ (k + 1) + 1 \in Steps(c) /\ q[(k + 1) + 1] = RowLock(o, d)
            \/ q[k + 1] = RowLock(o, d) /\ q[k] = BalanceLock(d)
      <4> HIDE DEF o
      <4> DEFINE i == k + 1
      <4>1. i \in Steps(c) /\ i # 1 /\ i - 1 = k
        BY <3>1
      <4> HIDE DEF i
      <4>2. \E d \in Dim :
              \/ q[i] = BalanceLock(d) /\ i + 1 \in Steps(c) /\ q[i + 1] = RowLock(o, d)
              \/ q[i] = RowLock(o, d) /\ q[k] = BalanceLock(d)
        BY <2>1, <4>1
      <4> QED
        BY <4>2 DEF i
    <3>3. CASE /\ q[k + 1] = BalanceLock(d)
               /\ (k + 1) + 1 \in Steps(c) /\ q[(k + 1) + 1] = RowLock(o, d)
      <4>1. (k + 1) + 1 # 1 /\ ((k + 1) + 1) - 1 = k + 1
        BY <3>1
      <4>2. k + 1 \in 1..Len(t) /\ t[k + 1] = q[(k + 1) + 1]
        BY <1>3, <3>3, <4>1
      <4> QED
        BY <3>1, <3>3, <4>2
    <3>4. CASE q[k + 1] = RowLock(o, d) /\ q[k] = BalanceLock(d)
      <4>1. CASE k = 1
        BY <1>3, <3>1, <3>4, <4>1
      <4>2. CASE k # 1
        <5>1. k \in Steps(c)
          BY <1>3 DEF Steps, q
        <5>2. t[k - 1] = q[k]
          BY <1>3, <4>2, <5>1
        <5> QED
          BY <3>1, <3>4, <4>2, <5>2
      <4> QED
        BY <4>1, <4>2
    <3> QED
      BY <3>2, <3>3, <3>4
  <2> HIDE DEF h, o
  <2>6. \A k \in Steps(c)' :
          \E d \in Dim :
            \/ /\ todo'[c][k] = BalanceLock(d)
               /\ k + 1 \in Steps(c)' /\ todo'[c][k + 1] = RowLock(o, d)
            \/ /\ todo'[c][k] = RowLock(o, d)
               /\ IF k = 1 THEN BalanceLock(d) \in held'[c] ELSE todo'[c][k - 1] = BalanceLock(d)
    BY <1>7, <1>9, <2>5
  <2>7. \A d \in Dim : RowLock(o, d) \in held'[c] => seen'[c].open[d] = open'[o][d]
    BY <1>7, <2>2, <2>4
  <2> QED
    BY <1>7, <1>9, <2>3, <2>6, <2>7 DEF CloseSound, Asked
<1>16. Climbs(c)'
  <2> SUFFICES ASSUME KindOf(c) # "reserve" PROVE Climbs(c)'
    BY <1>9 DEF Climbs
  <2>1. /\ \A p \in Order, d \in Dim : RowLock(p, d) \in held[c] => BalanceLock(d) \in held[c]
        /\ \A k \in Steps(c), d \in Dim : q[k] = BalanceLock(d) =>
             /\ \A x \in Dim : BalanceLock(x) \in held[c] => x < d
             /\ \A j \in Steps(c), y \in Dim : j > k /\ q[j] = BalanceLock(y) => d < y
        /\ \A k \in Steps(c) : q[k] \notin held[c]
        /\ \A j, k \in Steps(c) : q[j] = q[k] => j = k
    BY <1>0 DEF CallSound, Climbs, q
  <2>2. ASSUME NEW p \in Order, NEW d \in Dim, l = RowLock(p, d) PROVE BalanceLock(d) \in held[c]
    <3>1. stage[c] \in Stage /\ KindOf(c) \in Kind /\ stage[c] \notin Ended
      BY <1>0, <1>2, RequestIs DEF CallSound, OrderFirst, LockTypes, q
    <3>2. stage[c] # "order"
      <4>1. q # <<OrderLock(o)>>
        <5>1. q = <<OrderLock(o)>> => l = OrderLock(o)
          BY <1>3
        <5> QED
          BY <1>1, <2>2, <5>1, LocksDiffer
      <4> QED
        BY <1>0, <1>2, <4>1 DEF CallSound, OrderFirst, q
    <3>3. CASE stage[c] = "balances" /\ Posts(c)
      <4>1. \E x \in Dim : l = BalanceLock(x)
        BY <1>0, <1>3, <3>3 DEF CallSound, PostingSound, q
      <4> QED
        BY <2>2, <4>1, LocksDiffer
    <3>4. CASE stage[c] = "balances" /\ KindOf(c) = "close"
      <4>1. PICK x \in Dim : \/ l = BalanceLock(x)
                             \/ l = RowLock(o, x) /\ BalanceLock(x) \in held[c]
        BY <1>0, <1>3, <3>4 DEF CallSound, CloseSound, q
      <4>2. l # BalanceLock(x)
        BY <2>2, LocksDiffer
      <4>3. l = RowLock(o, x) => x = d
        BY <1>1, <2>2, LocksDiffer
      <4> QED
        BY <4>1, <4>2, <4>3
    <3>5. CASE stage[c] = "rows"
      <4>1. PICK x \in Dims(lines) : l = RowLock(o, x) /\ BalanceLock(x) \in held[c]
        BY <1>0, <1>3, <3>5 DEF CallSound, PostingSound, q
      <4>2. x \in Dim /\ RowLock(o, x) = RowLock(p, d)
        BY <1>1, <2>2, <4>1
      <4>3. x = d
        BY <1>1, <4>2, LocksDiffer
      <4> QED
        BY <4>1, <4>3
    <3> QED
      BY <3>1, <3>2, <3>3, <3>4, <3>5 DEF Stage, Kind, Posts
  <2>3. \A p \in Order, d \in Dim : RowLock(p, d) \in h => BalanceLock(d) \in h
    BY <2>1, <2>2
  <2>4. ASSUME NEW k \in 1..Len(t), NEW d \in Dim, t[k] = BalanceLock(d)
        PROVE  /\ \A x \in Dim : BalanceLock(x) \in h => x < d
               /\ \A j \in 1..Len(t), y \in Dim : j > k /\ t[j] = BalanceLock(y) => d < y
    <3>1. k + 1 \in Steps(c) /\ q[k + 1] = BalanceLock(d) /\ k + 1 > 1
      BY <1>3, <2>4
    <3>2. ASSUME NEW x \in Dim, BalanceLock(x) \in h PROVE x < d
      <4>1. CASE BalanceLock(x) \in held[c]
        BY <2>1, <3>1, <4>1
      <4>2. CASE l = BalanceLock(x)
        BY <1>3, <2>1, <3>1, <4>2
      <4> QED
        BY <3>2, <4>1, <4>2
    <3>3. ASSUME NEW j \in 1..Len(t), NEW y \in Dim, j > k, t[j] = BalanceLock(y) PROVE d < y
      <4>1. j + 1 \in Steps(c) /\ q[j + 1] = BalanceLock(y) /\ j + 1 > k + 1
        BY <1>3, <3>3
      <4> QED
        BY <2>1, <3>1, <4>1
    <3> QED
      BY <3>2, <3>3
  <2>5. ASSUME NEW k \in 1..Len(t) PROVE t[k] \notin h
    <3>1. k + 1 \in Steps(c) /\ t[k] = q[k + 1] /\ k + 1 # 1
      BY <1>3
    <3> QED
      BY <1>3, <2>1, <3>1
  <2>6. ASSUME NEW j \in 1..Len(t), NEW k \in 1..Len(t), t[j] = t[k] PROVE j = k
    <3>1. j + 1 \in Steps(c) /\ k + 1 \in Steps(c) /\ q[j + 1] = q[k + 1]
      BY <1>3, <2>6
    <3>2. j + 1 = k + 1
      BY <2>1, <3>1
    <3> QED
      BY <3>2
  <2> HIDE DEF h
  <2> QED
    BY <1>7, <1>9, <2>3, <2>4, <2>5, <2>6 DEF Climbs
<1>17. CallSound(c)'
  BY <1>11, <1>12, <1>13, <1>14, <1>15, <1>16 DEF CallSound
<1>18. stage[c] \in Stage /\ h \in SUBSET Lock
       /\ \A x \in h : x \in held[c] \/ \A e \in Call : x \notin held[e]
  BY <1>0, <1>2, <1>3, <1>4 DEF LockTypes
<1> HIDE DEF h
<1> QED
  BY <1>3, <1>4, <1>5, <1>6, <1>17, <1>18, QuietStep

LEMMA SkipKeepsLocks ==
  ASSUME LocksInv, NEW c \in Call, SkipEnded(c)
  PROVE  LocksInv'
<1> DEFINE o == OrderOf(c)
           q == todo[c]
           t == Tail(Tail(q))
<1>0. LockTypes /\ CallSound(c)
  BY DEF LocksInv
<1>1. o \in Order /\ request[c].order = o /\ request[c].kind = KindOf(c)
  BY <1>0, RequestIs
<1>2. /\ KindOf(c) = "close" /\ stage[c] = "balances" /\ q \in Seq(Lock) /\ Len(q) > 1
      /\ UNCHANGED tables /\ request' = request /\ stage' = stage /\ held' = held
      /\ todo' = [todo EXCEPT ![c] = t]
  BY <1>0, <1>1 DEF SkipEnded, LockTypes
<1>3. PICK d0 \in Dim : /\ Head(q) = BalanceLock(d0) /\ open[o][d0] = 0
                        /\ seen' = [seen EXCEPT ![c].open[d0] = 0]
  BY <1>1 DEF SkipEnded
<1>4. /\ t \in Seq(Lock) /\ q[1] = BalanceLock(d0) /\ Len(q) \in Nat /\ Len(t) = Len(q) - 2
      /\ 1 \in Steps(c) /\ 2 \in Steps(c)
      /\ \A k \in 1..Len(t) : t[k] = q[k + 2] /\ k + 2 \in Steps(c)
      /\ \A k \in Steps(c) : k # 1 /\ k # 2 => k - 2 \in 1..Len(t) /\ t[k - 2] = q[k]
  <2> DEFINE u == Tail(q)
  <2>1. q # <<>>
    BY <1>2
  <2>2. /\ u \in Seq(Lock) /\ Head(q) = q[1] /\ Len(q) \in Nat /\ Len(u) = Len(q) - 1
        /\ \A k \in 1..Len(u) : u[k] = q[k + 1] /\ k + 1 \in 1..Len(q)
        /\ \A k \in 1..Len(q) : k # 1 => k - 1 \in 1..Len(u) /\ u[k - 1] = q[k]
    BY <1>2, <2>1, TailOf
  <2> HIDE DEF u
  <2>3. u # <<>>
    BY <1>2, <2>2
  <2>4. /\ Tail(u) \in Seq(Lock) /\ Len(Tail(u)) = Len(u) - 1
        /\ \A k \in 1..Len(Tail(u)) : Tail(u)[k] = u[k + 1] /\ k + 1 \in 1..Len(u)
        /\ \A k \in 1..Len(u) : k # 1 => k - 1 \in 1..Len(Tail(u)) /\ Tail(u)[k - 1] = u[k]
    BY <2>2, <2>3, TailOf
  <2>5. t = Tail(u)
    BY DEF u
  <2> HIDE DEF t
  <2>6. ASSUME NEW k \in 1..Len(t) PROVE t[k] = q[k + 2] /\ k + 2 \in 1..Len(q)
    <3>1. t[k] = u[k + 1] /\ k + 1 \in 1..Len(u)
      BY <2>4, <2>5
    <3>2. u[k + 1] = q[(k + 1) + 1] /\ (k + 1) + 1 \in 1..Len(q)
      BY <2>2, <3>1
    <3>3. (k + 1) + 1 = k + 2
      OBVIOUS
    <3> QED
      BY <3>1, <3>2, <3>3
  <2>7. ASSUME NEW k \in 1..Len(q), k # 1, k # 2
        PROVE  k - 2 \in 1..Len(t) /\ t[k - 2] = q[k]
    <3>1. k - 1 \in 1..Len(u) /\ u[k - 1] = q[k] /\ k - 1 # 1
      BY <2>2, <2>7
    <3>2. (k - 1) - 1 \in 1..Len(t) /\ t[(k - 1) - 1] = u[k - 1]
      BY <2>4, <2>5, <3>1
    <3>3. (k - 1) - 1 = k - 2
      BY <2>2
    <3> QED
      BY <3>1, <3>2, <3>3
  <2>8. 1 \in Steps(c) /\ 2 \in Steps(c) /\ Len(t) = Len(q) - 2
    BY <1>2, <2>2, <2>4, <2>5 DEF Steps
  <2> QED
    BY <1>3, <2>2, <2>4, <2>5, <2>6, <2>7, <2>8 DEF Steps
<1> DEFINE s == seen'[c]
<1>5. /\ s \in Reads /\ seen' = [seen EXCEPT ![c] = s]
      /\ s.onHand = seen[c].onHand /\ s.reserved = seen[c].reserved
      /\ \A d \in Dim : s.open[d] = IF d = d0 THEN 0 ELSE seen[c].open[d]
  <2> DEFINE v == [seen[c] EXCEPT !.open = [seen[c].open EXCEPT ![d0] = 0]]
  <2>1. seen[c] \in Reads
    BY <1>0 DEF LockTypes, Reads
  <2>2. seen' = [seen EXCEPT ![c] = v]
    BY <1>3
  <2>3. /\ v \in Reads /\ v.onHand = seen[c].onHand /\ v.reserved = seen[c].reserved
        /\ \A d \in Dim : v.open[d] = IF d = d0 THEN 0 ELSE seen[c].open[d]
    BY <2>1 DEF Reads
  <2> HIDE DEF v
  <2>4. seen'[c] = v
    BY <1>0, <2>2 DEF LockTypes
  <2> QED
    BY <2>2, <2>3, <2>4
<1> HIDE DEF s, t
<1>6. OwnStep(c, stage[c], t, held[c], s)
  BY <1>0, <1>2, <1>5 DEF OwnStep, LockTypes
<1>7. stage'[c] = stage[c] /\ todo'[c] = t /\ held'[c] = held[c] /\ seen'[c] = s
  BY <1>0, <1>6, OwnStepIs
<1> HIDE DEF q
<1>8. OrderOf(c)' = o /\ KindOf(c)' = KindOf(c) /\ Posts(c)' = Posts(c)
      /\ Steps(c)' = 1..Len(t) /\ open' = open
  BY <1>2, <1>7 DEF OrderOf, KindOf, Posts, Steps, tables
<1>9. /\ \A d \in Dim : open[o][d] > 0 => Asked(c, RowLock(o, d))
      /\ \A d \in Dim : RowLock(o, d) \in held[c] => seen[c].open[d] = open[o][d]
      /\ \A k \in Steps(c) :
           \E d \in Dim :
             \/ q[k] = BalanceLock(d) /\ k + 1 \in Steps(c) /\ q[k + 1] = RowLock(o, d)
             \/ /\ q[k] = RowLock(o, d)
                /\ IF k = 1 THEN BalanceLock(d) \in held[c] ELSE q[k - 1] = BalanceLock(d)
  BY <1>0, <1>2 DEF CallSound, CloseSound, q
<1> HIDE DEF o
<1>10. q[2] = RowLock(o, d0)
  <2>1. PICK d \in Dim :
          \/ q[1] = BalanceLock(d) /\ q[1 + 1] = RowLock(o, d)
          \/ q[1] = RowLock(o, d)
    BY <1>4, <1>9
  <2>2. q[1] # RowLock(o, d)
    BY <1>1, <1>4, LocksDiffer
  <2>3. d = d0
    BY <1>4, <2>1, <2>2, LocksDiffer
  <2> QED
    BY <2>1, <2>2, <2>3
<1>11. OrderFirst(c)' /\ ReadsStand(c)' /\ ReserveSound(c)' /\ PostingSound(c)'
  <2>1. OrderFirst(c)'
    BY <1>0, <1>2, <1>7, <1>8 DEF CallSound, OrderFirst, Ended, tables, o
  <2>2. ReadsStand(c)'
    BY <1>0, <1>2, <1>5, <1>7 DEF CallSound, ReadsStand, tables
  <2> QED
    BY <1>2, <1>7, <1>8, <2>1, <2>2 DEF ReserveSound, PostingSound, Posts
<1>12. ASSUME NEW d \in Dim, open[o][d] > 0
       PROVE  RowLock(o, d) \in held[c] \/ \E k \in 1..Len(t) : t[k] = RowLock(o, d)
  <2>1. RowLock(o, d) \in held[c] \/ \E k \in Steps(c) : q[k] = RowLock(o, d)
    BY <1>9, <1>12 DEF Asked, q
  <2>2. ASSUME NEW k \in Steps(c), q[k] = RowLock(o, d)
        PROVE  \E j \in 1..Len(t) : t[j] = RowLock(o, d)
    <3>1. k # 1
      BY <1>1, <1>4, <2>2, LocksDiffer
    <3>2. k # 2
      BY <1>1, <1>3, <1>10, <1>12, <2>2, LocksDiffer
    <3> QED
      BY <1>4, <2>2, <3>1, <3>2
  <2> QED
    BY <2>1, <2>2
<1>13. ASSUME NEW k \in 1..Len(t)
       PROVE  \E d \in Dim :
                \/ t[k] = BalanceLock(d) /\ k + 1 \in 1..Len(t) /\ t[k + 1] = RowLock(o, d)
                \/ /\ t[k] = RowLock(o, d)
                   /\ IF k = 1 THEN BalanceLock(d) \in held[c] ELSE t[k - 1] = BalanceLock(d)
  <2> DEFINE i == k + 2
  <2>1. i \in Steps(c) /\ t[k] = q[i] /\ i # 1 /\ i # 2 /\ i - 2 = k
    BY <1>4
  <2>2. i + 1 # 1 /\ i + 1 # 2 /\ (i + 1) - 2 = k + 1 /\ i - 1 = k + 1
    OBVIOUS
  <2> HIDE DEF i
  <2>3. PICK d \in Dim :
          \/ q[i] = BalanceLock(d) /\ i + 1 \in Steps(c) /\ q[i + 1] = RowLock(o, d)
          \/ q[i] = RowLock(o, d) /\ q[k + 1] = BalanceLock(d)
    BY <1>9, <2>1, <2>2
  <2>4. CASE q[i] = BalanceLock(d) /\ i + 1 \in Steps(c) /\ q[i + 1] = RowLock(o, d)
    <3>1. k + 1 \in 1..Len(t) /\ t[k + 1] = q[i + 1]
      BY <1>4, <2>2, <2>4
    <3> QED
      BY <2>1, <2>4, <3>1
  <2>5. CASE q[i] = RowLock(o, d) /\ q[k + 1] = BalanceLock(d)
    <3>1. CASE k = 1
      <4>1. q[2] = BalanceLock(d)
        BY <2>5, <3>1
      <4>2. BalanceLock(d) # RowLock(o, d0)
        BY <1>1, LocksDiffer
      <4> QED
        BY <1>1, <1>10, <4>1, <4>2
    <3>2. CASE k # 1
      <4>1. k + 1 \in Steps(c) /\ k + 1 # 1 /\ k + 1 # 2 /\ (k + 1) - 2 = k - 1
        BY <1>4, <3>2 DEF Steps, q
      <4>2. t[k - 1] = q[k + 1]
        BY <1>4, <4>1
      <4> QED
        BY <2>1, <2>5, <3>2, <4>2
    <3> QED
      BY <3>1, <3>2
  <2> QED
    BY <2>3, <2>4, <2>5
<1>14. CloseSound(c)'
  <2>1. \A d \in Dim : RowLock(o, d) \in held[c] => s.open[d] = open[o][d]
    BY <1>3, <1>5, <1>9
  <2>2. \A k \in Steps(c)' :
          \E d \in Dim :
            \/ /\ todo'[c][k] = BalanceLock(d)
               /\ k + 1 \in Steps(c)' /\ todo'[c][k + 1] = RowLock(o, d)
            \/ /\ todo'[c][k] = RowLock(o, d)
               /\ IF k = 1 THEN BalanceLock(d) \in held'[c] ELSE todo'[c][k - 1] = BalanceLock(d)
    BY <1>7, <1>8, <1>13
  <2>3. \A d \in Dim : RowLock(o, d) \in held'[c] => seen'[c].open[d] = open'[o][d]
    BY <1>7, <1>8, <2>1
  <2>4. \A d \in Dim : open'[o][d] > 0 =>
          RowLock(o, d) \in held'[c] \/ \E k \in Steps(c)' : todo'[c][k] = RowLock(o, d)
    BY <1>7, <1>8, <1>12
  <2> QED
    BY <1>8, <2>2, <2>3, <2>4 DEF CloseSound, Asked
<1>15. Climbs(c)'
  <2>1. /\ \A p \in Order, d \in Dim : RowLock(p, d) \in held[c] => BalanceLock(d) \in held[c]
        /\ \A k \in Steps(c), d \in Dim : q[k] = BalanceLock(d) =>
             /\ \A x \in Dim : BalanceLock(x) \in held[c] => x < d
             /\ \A j \in Steps(c), y \in Dim : j > k /\ q[j] = BalanceLock(y) => d < y
        /\ \A k \in Steps(c) : q[k] \notin held[c]
        /\ \A j, k \in Steps(c) : q[j] = q[k] => j = k
    BY <1>0, <1>2 DEF CallSound, Climbs, q
  <2>2. ASSUME NEW k \in 1..Len(t), NEW d \in Dim, t[k] = BalanceLock(d)
        PROVE  /\ \A x \in Dim : BalanceLock(x) \in held[c] => x < d
               /\ \A j \in 1..Len(t), y \in Dim : j > k /\ t[j] = BalanceLock(y) => d < y
    <3>1. k + 2 \in Steps(c) /\ q[k + 2] = BalanceLock(d)
      BY <1>4, <2>2
    <3>2. ASSUME NEW j \in 1..Len(t), NEW y \in Dim, j > k, t[j] = BalanceLock(y) PROVE d < y
      <4>1. j + 2 \in Steps(c) /\ q[j + 2] = BalanceLock(y) /\ j + 2 > k + 2
        BY <1>4, <3>2
      <4> QED
        BY <2>1, <3>1, <4>1
    <3> QED
      BY <2>1, <3>1, <3>2
  <2>3. \A k \in 1..Len(t) : t[k] \notin held[c]
    BY <1>4, <2>1
  <2>4. ASSUME NEW j \in 1..Len(t), NEW k \in 1..Len(t), t[j] = t[k] PROVE j = k
    <3>1. j + 2 \in Steps(c) /\ k + 2 \in Steps(c) /\ q[j + 2] = q[k + 2]
      BY <1>4, <2>4
    <3>2. j + 2 = k + 2
      BY <2>1, <3>1
    <3> QED
      BY <3>2
  <2> QED
    BY <1>7, <1>8, <2>1, <2>2, <2>3, <2>4 DEF Climbs
<1>16. CallSound(c)'
  BY <1>11, <1>14, <1>15 DEF CallSound
<1>17. stage[c] \in Stage /\ held[c] \in SUBSET Lock
  BY <1>0 DEF LockTypes
<1> QED
  BY <1>2, <1>4, <1>5, <1>6, <1>16, <1>17, QuietStep

LEMMA FindKeepsLocks ==
  ASSUME LocksInv, NEW c \in Call, FindReservations(c)
  PROVE  LocksInv'
<1> DEFINE o == OrderOf(c)
           lines == request[c].lines
           D == RowsFound(o, Dims(lines))
           t == RowsInOrder(o, D)
           s == [seen[c] EXCEPT !.open = [d \in Dim |-> 0]]
<1>0. LockTypes /\ CallSound(c)
  BY DEF LocksInv
<1>1. o \in Order /\ Dims(lines) \subseteq Dim
      /\ request[c].order = o /\ request[c].kind = KindOf(c)
  BY <1>0, RequestIs, DimsOf
<1>2. /\ Posts(c) /\ stage[c] = "balances" /\ todo[c] = <<>>
      /\ UNCHANGED tables /\ request' = request /\ held' = held
  BY <1>1 DEF FindReservations, Posts
<1>3. s \in Reads /\ s.onHand = seen[c].onHand /\ s.reserved = seen[c].reserved
      /\ \A d \in Dim : s.open[d] = 0
  <2>1. seen[c] \in Reads
    BY <1>0 DEF LockTypes, Reads
  <2> QED
    BY <2>1 DEF Reads
<1>4. /\ stage' = [stage EXCEPT ![c] = "rows"] /\ todo' = [todo EXCEPT ![c] = t]
      /\ seen' = [seen EXCEPT ![c] = s]
  BY <1>1 DEF FindReservations
<1>5. /\ D \in SUBSET Dim /\ D \subseteq Dims(lines)
      /\ \A d \in Dims(lines) : open[o][d] > 0 => d \in D
  BY <1>1 DEF RowsFound
<1> HIDE DEF s, D
<1>6. /\ t \in Seq(Lock)
      /\ \A k \in 1..Len(t) : \E d \in D : t[k] = RowLock(o, d)
      /\ \A d \in D : \E k \in 1..Len(t) : t[k] = RowLock(o, d)
      /\ \A j, k \in 1..Len(t) : t[j] = t[k] => j = k
  BY <1>1, <1>5, RowsAscend
<1> HIDE DEF t
<1>7. OwnStep(c, "rows", t, held[c], s)
  BY <1>0, <1>2, <1>4 DEF OwnStep, LockTypes
<1>8. stage'[c] = "rows" /\ todo'[c] = t /\ held'[c] = held[c] /\ seen'[c] = s
  BY <1>0, <1>7, OwnStepIs
<1>9. OrderOf(c)' = o /\ KindOf(c)' = KindOf(c) /\ Posts(c)' = Posts(c)
      /\ Steps(c)' = 1..Len(t) /\ open' = open /\ request'[c].lines = lines
  BY <1>2, <1>8 DEF OrderOf, KindOf, Posts, Steps, tables
<1>10. /\ \A d \in Dims(lines) : BalanceLock(d) \in held[c]
       /\ \A p \in Order, d \in Dim : RowLock(p, d) \notin held[c]
  <2>1. Steps(c) = {}
    BY <1>2 DEF Steps
  <2> QED
    BY <1>0, <1>2, <2>1 DEF CallSound, PostingSound, Asked
<1>11. OrderFirst(c)' /\ ReadsStand(c)' /\ ReserveSound(c)' /\ CloseSound(c)'
  <2>1. OrderFirst(c)'
    BY <1>0, <1>2, <1>8, <1>9 DEF CallSound, OrderFirst, Ended, tables
  <2>2. ReadsStand(c)'
    BY <1>0, <1>2, <1>3, <1>8 DEF CallSound, ReadsStand, tables
  <2> QED
    BY <1>8, <2>1, <2>2 DEF ReserveSound, CloseSound
<1>12. PostingSound(c)'
  <2>1. ASSUME NEW d \in Dims(lines)
        PROVE  s.open[d] = open[o][d] \/ \E k \in 1..Len(t) : t[k] = RowLock(o, d)
    <3>1. d \in Dim /\ open[o][d] \in Nat
      BY <1>0, <1>1 DEF LockTypes
    <3>2. CASE open[o][d] > 0
      BY <1>5, <1>6, <3>2
    <3>3. CASE open[o][d] = 0
      BY <1>3, <3>1, <3>3
    <3> QED
      BY <3>1, <3>2, <3>3
  <2>2. \A k \in 1..Len(t) : \E d \in Dims(lines) : t[k] = RowLock(o, d)
    BY <1>5, <1>6
  <2> QED
    BY <1>2, <1>8, <1>9, <1>10, <2>1, <2>2 DEF PostingSound
<1>13. Climbs(c)'
  <2>1. \A k \in 1..Len(t) : t[k] \notin held[c] /\ \A d \in Dim : t[k] # BalanceLock(d)
    BY <1>1, <1>5, <1>6, <1>10, LocksDiffer
  <2> QED
    BY <1>6, <1>8, <1>9, <1>10, <2>1 DEF Climbs
<1>14. CallSound(c)'
  BY <1>11, <1>12, <1>13 DEF CallSound
<1>15. "rows" \in Stage /\ held[c] \in SUBSET Lock
  BY <1>0 DEF LockTypes, Stage
<1> QED
  BY <1>2, <1>3, <1>6, <1>7, <1>14, <1>15, QuietStep

-----------------------------------------------------------------------------
(* Steps that write: each writes what it has locked, from values that      *)
(* still hold.                                                             *)

LEMMA ReserveWrites ==
  ASSUME LocksInv, NEW c \in Call, CommitReserve(c)
  PROVE  /\ OrderOf(c) \in Order /\ OrderLock(OrderOf(c)) \in held[c]
         /\ OrderOf(c) \notin closed /\ closed' = closed /\ onHand' = onHand
         /\ \A d \in Reserving(c) :
              /\ d \in Dim /\ BalanceLock(d) \in held[c] /\ open[OrderOf(c)][d] = 0
              /\ open'[OrderOf(c)][d] \in Nat
              /\ reserved'[d] = reserved[d] + open'[OrderOf(c)][d]
              /\ reserved'[d] <= onHand[d]
         /\ \A d \in Dim \ Reserving(c) :
              reserved'[d] = reserved[d] /\ open'[OrderOf(c)][d] = open[OrderOf(c)][d]
         /\ \A p \in Order \ {OrderOf(c)} : open'[p] = open[p] /\ made'[p] = made[p]
         /\ made'[OrderOf(c)] = made[OrderOf(c)] \union Reserving(c)
         /\ reserved' \in [Dim -> Int] /\ open' \in [Order -> [Dim -> Nat]]
         /\ made' \in [Order -> SUBSET Dim]
         /\ request' = request /\ EndWith(c, "done")
<1> DEFINE o == OrderOf(c)
           R == Reserving(c)
           amount == [d \in Dim |-> IF d \in R THEN QuantityOf(OrderLines[o], d) ELSE 0]
<1>0. LockTypes /\ CallSound(c)
  BY DEF LocksInv
<1>1. o \in Order /\ request[c].order = o /\ request[c].kind = KindOf(c)
  BY <1>0, RequestIs
<1>2. /\ KindOf(c) = "reserve" /\ stage[c] = "balances" /\ todo[c] = <<>> /\ ~ Insufficient(c)
      /\ reserved' = [d \in Dim |-> IF d \in R THEN seen[c].reserved[d] + amount[d]
                                    ELSE reserved[d]]
      /\ open' = [open EXCEPT ![o] = [d \in Dim |-> IF d \in R THEN amount[d] ELSE open[o][d]]]
      /\ made' = [made EXCEPT ![o] = made[o] \union R]
      /\ UNCHANGED <<onHand, closed>> /\ EndWith(c, "done") /\ request' = request
  BY DEF CommitReserve, OrderOf, KindOf
<1>3. OrderLines[o] \in Seq(Line)
  BY <1>1, RequestsTyped
<1>4. /\ R \subseteq Dims(OrderLines[o]) /\ R \subseteq Dim
      /\ \A d \in R : QuantityOf(OrderLines[o], d) \in Nat /\ d \notin made[o]
  BY <1>1, <1>3, DimsOf DEF Reserving
<1>5. amount \in [Dim -> Nat] /\ \A d \in R : amount[d] = QuantityOf(OrderLines[o], d)
  BY <1>4
<1>6. \A d \in R : BalanceLock(d) \in held[c]
  <2>1. Steps(c) = {}
    BY <1>2 DEF Steps
  <2> QED
    BY <1>0, <1>2, <2>1 DEF CallSound, ReserveSound, Asked
<1>7. \A d \in R : /\ seen[c].reserved[d] = reserved[d] /\ seen[c].onHand[d] = onHand[d]
                   /\ seen[c].onHand[d] - seen[c].reserved[d] >= amount[d]
  <2> TAKE d \in R
  <2>1. seen[c].reserved[d] = reserved[d] /\ seen[c].onHand[d] = onHand[d]
    BY <1>0, <1>4, <1>6 DEF CallSound, ReadsStand
  <2>2. reserved[d] \in Int /\ onHand[d] \in Int /\ amount[d] \in Nat
    BY <1>0, <1>4, <1>5 DEF LockTypes
  <2>3. ~ (seen[c].onHand[d] - seen[c].reserved[d] < QuantityOf(OrderLines[o], d))
    BY <1>1, <1>2, <1>4, <1>6 DEF Insufficient
  <2> HIDE DEF amount
  <2> QED
    BY <1>5, <2>1, <2>2, <2>3
<1> HIDE DEF amount, R
<1>8. open[o] \in [Dim -> Nat] /\ open \in [Order -> [Dim -> Nat]]
      /\ made \in [Order -> SUBSET Dim] /\ reserved \in [Dim -> Int] /\ onHand \in [Dim -> Int]
  BY <1>0, <1>1 DEF LockTypes
<1>9. open'[o] = [d \in Dim |-> IF d \in R THEN amount[d] ELSE open[o][d]]
  BY <1>1, <1>2, <1>8
<1>10. ASSUME NEW d \in R
       PROVE  /\ d \in Dim /\ BalanceLock(d) \in held[c] /\ open[o][d] = 0
              /\ open'[o][d] \in Nat /\ reserved'[d] = reserved[d] + open'[o][d]
              /\ reserved'[d] <= onHand[d]
  <2>1. d \in Dim /\ d \notin made[o]
    BY <1>4
  <2>2. open[o][d] = 0
    <3>1. ~ (open[o][d] > 0)
      BY <1>1, <2>1 DEF LocksInv, OpenIsMade
    <3> QED
      BY <1>8, <2>1, <3>1
  <2>3. open'[o][d] = amount[d] /\ reserved'[d] = reserved[d] + amount[d]
    BY <1>2, <1>7, <1>9, <2>1
  <2>4. reserved[d] \in Int /\ onHand[d] \in Int /\ amount[d] \in Nat
    BY <1>5, <1>8, <2>1
  <2>5. onHand[d] - reserved[d] >= amount[d]
    BY <1>7
  <2>6. reserved[d] + amount[d] <= onHand[d]
    BY <2>4, <2>5
  <2> QED
    BY <1>6, <2>1, <2>2, <2>3, <2>4, <2>6
<1>11. \A d \in Dim \ R : reserved'[d] = reserved[d] /\ open'[o][d] = open[o][d]
  BY <1>2, <1>9
<1>12. open' \in [Order -> [Dim -> Nat]] /\ made' \in [Order -> SUBSET Dim]
       /\ made'[o] = made[o] \union R
       /\ \A p \in Order \ {o} : open'[p] = open[p] /\ made'[p] = made[p]
  <2>1. [d \in Dim |-> IF d \in R THEN amount[d] ELSE open[o][d]] \in [Dim -> Nat]
    BY <1>5, <1>8
  <2> QED
    BY <1>1, <1>2, <1>4, <1>8, <2>1
<1>13. reserved' \in [Dim -> Int]
  <2>1. \A d \in Dim : reserved'[d] \in Int
    <3> TAKE d \in Dim
    <3>1. reserved[d] \in Int
      BY <1>8
    <3>2. CASE d \in R
      BY <1>10, <3>1, <3>2
    <3>3. CASE d \notin R
      BY <1>11, <3>1, <3>3
    <3> QED
      BY <3>2, <3>3
  <2> QED
    BY <1>2, <2>1
<1>14. OrderLock(o) \in held[c] /\ o \notin closed
  BY <1>0, <1>2 DEF CallSound, OrderFirst
<1> HIDE DEF o
<1> QED
  BY <1>1, <1>2, <1>10, <1>11, <1>12, <1>13, <1>14 DEF o, R

\* The order's reservations on what the posting takes out.
OutOf(c) == Dims(request[c].lines)

LEMMA PostingWrites ==
  ASSUME LocksInv, NEW c \in Call, CommitPosting(c)
  PROVE  /\ OrderOf(c) \in Order /\ OutOf(c) \subseteq Dim
         /\ closed' = closed /\ made' = made
         /\ \A d \in OutOf(c) :
              /\ BalanceLock(d) \in held[c]
              /\ open'[OrderOf(c)][d] \in Nat /\ open'[OrderOf(c)][d] <= open[OrderOf(c)][d]
              /\ reserved'[d] = reserved[d] - (open[OrderOf(c)][d] - open'[OrderOf(c)][d])
              /\ reserved'[d] <= onHand'[d]
         /\ \A d \in Dim \ OutOf(c) :
              /\ onHand'[d] = onHand[d] /\ reserved'[d] = reserved[d]
              /\ open'[OrderOf(c)][d] = open[OrderOf(c)][d]
         /\ \A p \in Order \ {OrderOf(c)} : open'[p] = open[p]
         /\ onHand' \in [Dim -> Int] /\ reserved' \in [Dim -> Int]
         /\ open' \in [Order -> [Dim -> Nat]]
         /\ request' = request /\ EndWith(c, "done")
<1> DEFINE o == OrderOf(c)
           lines == request[c].lines
           D == Dims(lines)
           t == [d \in Dim |-> Taken(c, d)]
           q == [d \in Dim |-> QuantityOf(lines, d)]
<1>0. LockTypes /\ CallSound(c)
  BY DEF LocksInv
<1>1. o \in Order /\ request[c].order = o /\ request[c].kind = KindOf(c) /\ lines \in Seq(Line)
      /\ D \subseteq Dim /\ \A d \in D : q[d] \in Nat
  BY <1>0, RequestIs, DimsOf
<1>2. /\ stage[c] = "rows" /\ todo[c] = <<>> /\ Covered(c)
      /\ onHand' = [d \in Dim |-> IF d \in D THEN seen[c].onHand[d] - QuantityOf(lines, d)
                                  ELSE onHand[d]]
      /\ reserved' = [d \in Dim |-> IF d \in D THEN seen[c].reserved[d] - Taken(c, d)
                                    ELSE reserved[d]]
      /\ open' = [open EXCEPT ![o] =
           [d \in Dim |-> IF d \in D /\ Taken(c, d) > 0 THEN seen[c].open[d] - Taken(c, d)
                          ELSE open[o][d]]]
      /\ UNCHANGED <<made, closed>> /\ EndWith(c, "done") /\ request' = request
  BY DEF CommitPosting, OrderOf
<1>3. \A d \in D : BalanceLock(d) \in held[c] /\ seen[c].open[d] = open[o][d]
  <2>1. Steps(c) = {}
    BY <1>2 DEF Steps
  <2> QED
    BY <1>0, <1>2, <2>1 DEF CallSound, PostingSound
<1>4. open[o] \in [Dim -> Nat] /\ open \in [Order -> [Dim -> Nat]]
      /\ reserved \in [Dim -> Int] /\ onHand \in [Dim -> Int]
  BY <1>0, <1>1 DEF LockTypes
<1>5. ASSUME NEW d \in D
      PROVE  /\ d \in Dim /\ t[d] = Taken(c, d) /\ q[d] = QuantityOf(lines, d)
             /\ t[d] \in Nat /\ q[d] \in Nat /\ t[d] <= open[o][d] /\ open[o][d] \in Nat
             /\ seen[c].onHand[d] = onHand[d] /\ seen[c].reserved[d] = reserved[d]
             /\ onHand[d] \in Int /\ reserved[d] \in Int
             /\ onHand[d] - reserved[d] + t[d] >= q[d]
  <2>1. d \in Dim /\ open[o][d] \in Nat /\ onHand[d] \in Int /\ reserved[d] \in Int
    BY <1>1, <1>4
  <2>2. t[d] = Taken(c, d) /\ q[d] = QuantityOf(lines, d) /\ q[d] \in Nat
    BY <1>1, <2>1
  <2>3. seen[c].onHand[d] = onHand[d] /\ seen[c].reserved[d] = reserved[d]
    BY <1>0, <1>3, <2>1 DEF CallSound, ReadsStand
  <2>4. Taken(c, d) = IF open[o][d] < QuantityOf(lines, d) THEN open[o][d]
                      ELSE QuantityOf(lines, d)
    BY <1>3 DEF Taken
  <2>5. t[d] \in Nat /\ t[d] <= open[o][d]
    <3> HIDE DEF t, q, o
    <3> QED
      BY <2>1, <2>2, <2>4
  <2>6. seen[c].onHand[d] - seen[c].reserved[d] + Taken(c, d) >= QuantityOf(lines, d)
    BY <1>2 DEF Covered
  <2> HIDE DEF t, q, o
  <2> QED
    BY <2>1, <2>2, <2>3, <2>5, <2>6
<1> HIDE DEF t, q, o
<1>6. open'[o] = [d \in Dim |-> IF d \in D /\ Taken(c, d) > 0
                                THEN seen[c].open[d] - Taken(c, d) ELSE open[o][d]]
  BY <1>1, <1>2, <1>4
<1>7. ASSUME NEW d \in D
      PROVE  /\ BalanceLock(d) \in held[c]
             /\ open'[o][d] \in Nat /\ open'[o][d] <= open[o][d]
             /\ reserved'[d] = reserved[d] - (open[o][d] - open'[o][d])
             /\ reserved'[d] <= onHand'[d] /\ onHand'[d] \in Int
  <2>1. open'[o][d] = IF t[d] > 0 THEN open[o][d] - t[d] ELSE open[o][d]
    BY <1>3, <1>5, <1>6
  <2>2. open'[o][d] = open[o][d] - t[d] /\ open[o][d] - t[d] \in Nat
    BY <1>5, <2>1
  <2>3. reserved'[d] = reserved[d] - t[d] /\ onHand'[d] = onHand[d] - q[d]
    BY <1>2, <1>5
  <2>4. reserved[d] - t[d] <= onHand[d] - q[d]
    BY <1>5
  <2>5. t[d] = open[o][d] - (open[o][d] - t[d]) /\ open[o][d] - t[d] <= open[o][d]
        /\ onHand[d] - q[d] \in Int
    BY <1>5
  <2> QED
    BY <1>3, <2>2, <2>3, <2>4, <2>5
<1>8. \A d \in Dim \ D : /\ onHand'[d] = onHand[d] /\ reserved'[d] = reserved[d]
                         /\ open'[o][d] = open[o][d]
  BY <1>2, <1>6
<1>9. open' \in [Order -> [Dim -> Nat]] /\ \A p \in Order \ {o} : open'[p] = open[p]
  <2>1. open'[o] \in [Dim -> Nat]
    <3>1. \A d \in Dim : open'[o][d] \in Nat
      BY <1>4, <1>7, <1>8
    <3> QED
      BY <1>6, <3>1
  <2> QED
    BY <1>1, <1>2, <1>4, <2>1
<1>10. onHand' \in [Dim -> Int] /\ reserved' \in [Dim -> Int]
  <2>1. ASSUME NEW d \in Dim PROVE onHand'[d] \in Int /\ reserved'[d] \in Int
    <3>1. CASE d \in D
      BY <1>2, <1>5, <3>1
    <3>2. CASE d \notin D
      BY <1>4, <1>8, <3>2
    <3> QED
      BY <3>1, <3>2
  <2> QED
    BY <1>2, <2>1
<1> QED
  BY <1>1, <1>2, <1>7, <1>8, <1>9, <1>10 DEF o, OutOf

LEMMA CloseWrites ==
  ASSUME LocksInv, NEW c \in Call, CommitClose(c)
  PROVE  /\ OrderOf(c) \in Order /\ OrderLock(OrderOf(c)) \in held[c]
         /\ closed' = closed \union {OrderOf(c)} /\ made' = made /\ onHand' = onHand
         /\ \A d \in Dim :
              /\ open'[OrderOf(c)][d] = 0
              /\ BalanceLock(d) \notin held[c] => open[OrderOf(c)][d] = 0
              /\ reserved'[d] = reserved[d] - open[OrderOf(c)][d]
         /\ \A p \in Order \ {OrderOf(c)} : open'[p] = open[p]
         /\ reserved' \in [Dim -> Int] /\ open' \in [Order -> [Dim -> Nat]]
         /\ request' = request /\ EndWith(c, "done")
<1> DEFINE o == OrderOf(c)
           F == {d \in Dim : RowLock(o, d) \in held[c]}
<1>0. LockTypes /\ CallSound(c)
  BY DEF LocksInv
<1>1. o \in Order
  BY <1>0, RequestIs
<1>2. /\ KindOf(c) = "close" /\ stage[c] = "balances" /\ todo[c] = <<>>
      /\ reserved' = [d \in Dim |-> IF d \in F THEN seen[c].reserved[d] - seen[c].open[d]
                                    ELSE reserved[d]]
      /\ open' = [open EXCEPT ![o] = [d \in Dim |-> IF d \in F THEN 0 ELSE open[o][d]]]
      /\ closed' = closed \union {o}
      /\ UNCHANGED <<onHand, made>> /\ EndWith(c, "done") /\ request' = request
  BY DEF CommitClose, OrderOf, KindOf
<1>3. open[o] \in [Dim -> Nat] /\ open \in [Order -> [Dim -> Nat]] /\ reserved \in [Dim -> Int]
  BY <1>0, <1>1 DEF LockTypes
<1>4. \A d \in F : /\ BalanceLock(d) \in held[c] /\ seen[c].open[d] = open[o][d]
                   /\ seen[c].reserved[d] = reserved[d]
  <2> TAKE d \in F
  <2>1. d \in Dim /\ RowLock(o, d) \in held[c]
    OBVIOUS
  <2>2. BalanceLock(d) \in held[c]
    BY <1>0, <1>1, <1>2, <2>1 DEF CallSound, Climbs
  <2>3. seen[c].open[d] = open[o][d]
    BY <1>0, <1>2, <2>1 DEF CallSound, CloseSound
  <2> QED
    BY <1>0, <2>1, <2>2, <2>3 DEF CallSound, ReadsStand
<1>5. \A d \in Dim \ F : open[o][d] = 0
  <2> TAKE d \in Dim \ F
  <2>1. Steps(c) = {}
    BY <1>2 DEF Steps
  <2>2. ~ (open[o][d] > 0)
    BY <1>0, <1>2, <2>1 DEF CallSound, CloseSound, Asked
  <2>3. open[o][d] \in Nat
    BY <1>3
  <2> HIDE DEF o
  <2> QED
    BY <2>2, <2>3
<1> HIDE DEF F, o
<1>6. open'[o] = [d \in Dim |-> IF d \in F THEN 0 ELSE open[o][d]]
  BY <1>1, <1>2, <1>3
<1>7. \A d \in Dim : open'[o][d] = 0
  BY <1>5, <1>6
<1>8. ASSUME NEW d \in Dim
      PROVE  /\ BalanceLock(d) \notin held[c] => open[o][d] = 0
             /\ reserved'[d] = reserved[d] - open[o][d] /\ reserved'[d] \in Int
  <2>1. reserved[d] \in Int /\ open[o][d] \in Nat
    BY <1>3
  <2>2. CASE d \in F
    BY <1>2, <1>4, <2>1, <2>2
  <2>3. CASE d \notin F
    BY <1>2, <1>5, <2>1, <2>3
  <2> QED
    BY <2>2, <2>3
<1>9. reserved' \in [Dim -> Int]
  BY <1>2, <1>8
<1>10. open' \in [Order -> [Dim -> Nat]] /\ \A p \in Order \ {o} : open'[p] = open[p]
  <2>1. [d \in Dim |-> IF d \in F THEN 0 ELSE open[o][d]] \in [Dim -> Nat]
    BY <1>3
  <2> QED
    BY <1>1, <1>2, <1>3, <2>1
<1>11. OrderLock(o) \in held[c]
  BY <1>0, <1>2 DEF CallSound, OrderFirst, o
<1> QED
  BY <1>1, <1>2, <1>7, <1>8, <1>9, <1>10, <1>11 DEF o

\* A commit: the tables stay sound, and the call lets all its locks go.
LEMMA CommitKeepsLocks ==
  ASSUME LocksInv, NEW c \in Call, EndWith(c, "done"), request' = request,
         onHand' \in [Dim -> Int], reserved' \in [Dim -> Int],
         made' \in [Order -> SUBSET Dim], open' \in [Order -> [Dim -> Nat]],
         closed' \subseteq Order,
         \A d \in Dim : BalanceLock(d) \notin held[c] =>
           /\ onHand'[d] = onHand[d] /\ reserved'[d] = reserved[d]
           /\ \A o \in Order : open'[o][d] = open[o][d],
         \A o \in Order : OrderLock(o) \notin held[c] =>
           /\ made'[o] = made[o] /\ (o \in closed' => o \in closed)
           /\ \A d \in Dim : open'[o][d] > 0 => open[o][d] > 0,
         PledgesCovered', OpenIsMade', ClosedOrdersHoldNothing'
  PROVE  LocksInv'
<1>0. LockTypes
  BY DEF LocksInv
<1>1. OwnStep(c, "done", <<>>, {}, Unread)
  BY DEF EndWith, OwnStep
<1>2. /\ stage'[c] = "done" /\ todo'[c] = <<>> /\ held'[c] = {}
      /\ \A e \in Call : e # c =>
           /\ stage'[e] = stage[e] /\ todo'[e] = todo[e]
           /\ held'[e] = held[e] /\ seen'[e] = seen[e]
  BY <1>0, <1>1, OwnStepIs
<1>3. CallSound(c)'
  <2>1. stage'[c] \in Ended
    BY <1>2 DEF Ended
  <2> QED
    BY <1>2, <2>1, EndedIsSound
<1>4. Touches(c)
  BY <1>2 DEF Touches
<1>5. LocksExclude'
  <2>1. \A e \in Call : held'[e] \subseteq held[e]
    BY <1>2
  <2> QED
    BY <2>1 DEF LocksInv, LocksExclude
<1>6. LockTypes'
  <2>1. "done" \in Stage
    BY DEF Stage, Ended
  <2> QED
    BY <1>0, <1>1, <2>1, OwnStepTypes, UnreadType, NoLocks DEF LockTypes, Reads
<1> QED
  BY <1>3, <1>4, <1>5, <1>6, StepKeepsLocks

LEMMA CommitReserveKeepsLocks ==
  ASSUME LocksInv, NEW c \in Call, CommitReserve(c)
  PROVE  LocksInv'
<1> DEFINE o == OrderOf(c)
           R == Reserving(c)
<1>1. /\ o \in Order /\ OrderLock(o) \in held[c]
      /\ o \notin closed /\ closed' = closed /\ onHand' = onHand
      /\ \A d \in R :
           /\ d \in Dim /\ BalanceLock(d) \in held[c]
           /\ open'[o][d] \in Nat /\ reserved'[d] <= onHand[d]
      /\ \A d \in Dim \ R : reserved'[d] = reserved[d] /\ open'[o][d] = open[o][d]
      /\ \A p \in Order \ {o} : open'[p] = open[p] /\ made'[p] = made[p]
      /\ made'[o] = made[o] \union R
      /\ reserved' \in [Dim -> Int] /\ open' \in [Order -> [Dim -> Nat]]
      /\ made' \in [Order -> SUBSET Dim]
      /\ request' = request /\ EndWith(c, "done")
  BY ReserveWrites
<1> HIDE DEF o, R
<1>2. PledgesCovered'
  BY <1>1 DEF LocksInv, PledgesCovered
<1>3. OpenIsMade'
  BY <1>1 DEF LocksInv, OpenIsMade
<1>4. ClosedOrdersHoldNothing'
  <2>1. ASSUME NEW p \in closed, NEW d \in Dim PROVE open'[p][d] = 0
    <3>1. p \in Order \ {o} /\ open[p][d] = 0
      BY <1>1 DEF LocksInv, LockTypes, ClosedOrdersHoldNothing
    <3> QED
      BY <1>1, <3>1
  <2> QED
    BY <1>1, <2>1 DEF ClosedOrdersHoldNothing
<1>5. \A d \in Dim : BalanceLock(d) \notin held[c] =>
        /\ onHand'[d] = onHand[d] /\ reserved'[d] = reserved[d]
        /\ \A p \in Order : open'[p][d] = open[p][d]
  BY <1>1
<1>6. \A p \in Order : OrderLock(p) \notin held[c] =>
        /\ made'[p] = made[p] /\ (p \in closed' => p \in closed)
        /\ \A d \in Dim : open'[p][d] > 0 => open[p][d] > 0
  BY <1>1
<1>7. onHand' \in [Dim -> Int] /\ closed' \subseteq Order
  BY <1>1 DEF LocksInv, LockTypes
<1> QED
  BY <1>1, <1>2, <1>3, <1>4, <1>5, <1>6, <1>7, CommitKeepsLocks

LEMMA CommitPostingKeepsLocks ==
  ASSUME LocksInv, NEW c \in Call, CommitPosting(c)
  PROVE  LocksInv'
<1> DEFINE o == OrderOf(c)
           D == OutOf(c)
<1>1. /\ o \in Order /\ D \subseteq Dim /\ closed' = closed /\ made' = made
      /\ \A d \in D :
           /\ BalanceLock(d) \in held[c]
           /\ open'[o][d] \in Nat /\ open'[o][d] <= open[o][d]
           /\ reserved'[d] <= onHand'[d]
      /\ \A d \in Dim \ D : /\ onHand'[d] = onHand[d] /\ reserved'[d] = reserved[d]
                            /\ open'[o][d] = open[o][d]
      /\ \A p \in Order \ {o} : open'[p] = open[p]
      /\ onHand' \in [Dim -> Int] /\ reserved' \in [Dim -> Int]
      /\ open' \in [Order -> [Dim -> Nat]]
      /\ request' = request /\ EndWith(c, "done")
  BY PostingWrites
<1> HIDE DEF o, D
<1>2. \A p \in Order, d \in Dim : open'[p][d] \in Nat /\ open[p][d] \in Nat
                                  /\ open'[p][d] <= open[p][d]
  <2> TAKE p \in Order, d \in Dim
  <2>1. open[p][d] \in Nat
    BY DEF LocksInv, LockTypes
  <2>2. CASE p = o /\ d \in D
    BY <1>1, <2>1, <2>2
  <2>3. CASE ~ (p = o /\ d \in D)
    <3>1. open'[p][d] = open[p][d]
      BY <1>1, <2>3
    <3> QED
      BY <2>1, <3>1
  <2> QED
    BY <2>2, <2>3
<1>3. PledgesCovered'
  BY <1>1 DEF LocksInv, PledgesCovered
<1>4. OpenIsMade'
  <2>1. ASSUME NEW p \in Order, NEW d \in Dim, open'[p][d] > 0 PROVE d \in made[p]
    <3>1. open[p][d] > 0
      BY <1>2, <2>1
    <3> QED
      BY <3>1 DEF LocksInv, OpenIsMade
  <2> QED
    BY <1>1, <2>1 DEF OpenIsMade
<1>5. ClosedOrdersHoldNothing'
  <2>1. ASSUME NEW p \in closed, NEW d \in Dim PROVE open'[p][d] = 0
    <3>1. p \in Order /\ open[p][d] = 0
      BY DEF LocksInv, LockTypes, ClosedOrdersHoldNothing
    <3> QED
      BY <1>2, <3>1
  <2> QED
    BY <1>1, <2>1 DEF ClosedOrdersHoldNothing
<1>6. \A d \in Dim : BalanceLock(d) \notin held[c] =>
        /\ onHand'[d] = onHand[d] /\ reserved'[d] = reserved[d]
        /\ \A p \in Order : open'[p][d] = open[p][d]
  BY <1>1
<1>7. \A p \in Order : OrderLock(p) \notin held[c] =>
        /\ made'[p] = made[p] /\ (p \in closed' => p \in closed)
        /\ \A d \in Dim : open'[p][d] > 0 => open[p][d] > 0
  BY <1>1, <1>2
<1>8. closed' \subseteq Order /\ made' \in [Order -> SUBSET Dim]
  BY <1>1 DEF LocksInv, LockTypes
<1> QED
  BY <1>1, <1>3, <1>4, <1>5, <1>6, <1>7, <1>8, CommitKeepsLocks

LEMMA CommitCloseKeepsLocks ==
  ASSUME LocksInv, NEW c \in Call, CommitClose(c)
  PROVE  LocksInv'
<1> DEFINE o == OrderOf(c)
<1>1. /\ o \in Order /\ OrderLock(o) \in held[c]
      /\ closed' = closed \union {o} /\ made' = made /\ onHand' = onHand
      /\ \A d \in Dim :
           /\ open'[o][d] = 0 /\ (BalanceLock(d) \notin held[c] => open[o][d] = 0)
           /\ reserved'[d] = reserved[d] - open[o][d]
      /\ \A p \in Order \ {o} : open'[p] = open[p]
      /\ reserved' \in [Dim -> Int] /\ open' \in [Order -> [Dim -> Nat]]
      /\ request' = request /\ EndWith(c, "done")
  BY CloseWrites
<1> HIDE DEF o
<1>2. \A d \in Dim : /\ open[o][d] \in Nat /\ reserved[d] \in Int /\ onHand[d] \in Int
                     /\ reserved[d] <= onHand[d]
  BY <1>1 DEF LocksInv, LockTypes, PledgesCovered
<1>3. PledgesCovered'
  <2>1. \A d \in Dim : reserved'[d] <= onHand[d]
    BY <1>1, <1>2
  <2> QED
    BY <1>1, <2>1 DEF PledgesCovered
<1>4. OpenIsMade'
  <2>1. ASSUME NEW p \in Order, NEW d \in Dim, open'[p][d] > 0 PROVE d \in made[p]
    <3>1. p # o
      BY <1>1, <2>1
    <3> QED
      BY <1>1, <2>1, <3>1 DEF LocksInv, OpenIsMade
  <2> QED
    BY <1>1, <2>1 DEF OpenIsMade
<1>5. ClosedOrdersHoldNothing'
  <2>1. ASSUME NEW p \in closed \union {o}, NEW d \in Dim PROVE open'[p][d] = 0
    <3>1. CASE p = o
      BY <1>1, <3>1
    <3>2. CASE p # o
      <4>1. p \in Order \ {o} /\ open[p][d] = 0
        BY <3>2 DEF LocksInv, LockTypes, ClosedOrdersHoldNothing
      <4> QED
        BY <1>1, <4>1
    <3> QED
      BY <3>1, <3>2
  <2> QED
    BY <1>1, <2>1 DEF ClosedOrdersHoldNothing
<1>6. ASSUME NEW d \in Dim, BalanceLock(d) \notin held[c]
      PROVE  /\ onHand'[d] = onHand[d] /\ reserved'[d] = reserved[d]
             /\ \A p \in Order : open'[p][d] = open[p][d]
  <2>1. open[o][d] = 0 /\ reserved'[d] = reserved[d]
    BY <1>1, <1>2, <1>6
  <2> QED
    BY <1>1, <2>1
<1>7. \A p \in Order : OrderLock(p) \notin held[c] =>
        /\ made'[p] = made[p] /\ (p \in closed' => p \in closed)
        /\ \A d \in Dim : open'[p][d] > 0 => open[p][d] > 0
  BY <1>1
<1>8. closed' \subseteq Order /\ made' \in [Order -> SUBSET Dim] /\ onHand' \in [Dim -> Int]
  BY <1>1 DEF LocksInv, LockTypes
<1> QED
  BY <1>1, <1>3, <1>4, <1>5, <1>6, <1>7, <1>8, CommitKeepsLocks

LEMMA LocksInitInv == LocksInit => LocksInv
<1> SUFFICES ASSUME LocksInit PROVE LocksInv
  OBVIOUS
<1>1. Supply \in [Dim -> Nat]
  BY RequestsTyped
<1>2. LockTypes
  <2>1. Unread \in [onHand : [Dim -> Int], reserved : [Dim -> Int], open : [Dim -> Nat]]
    BY UnreadType DEF Reads
  <2>2. "idle" \in Stage
    BY DEF Stage, Ended
  <2>3. onHand \in [Dim -> Int] /\ reserved \in [Dim -> Int]
    BY <1>1 DEF LocksInit
  <2>4. made \in [Order -> SUBSET Dim] /\ open \in [Order -> [Dim -> Nat]] /\ closed \subseteq Order
    BY DEF LocksInit
  <2>5. /\ request \in [Call -> Request] /\ stage \in [Call -> Stage]
        /\ todo \in [Call -> Seq(Lock)] /\ held \in [Call -> SUBSET Lock]
    BY <2>2, NoLocks DEF LocksInit
  <2>6. seen \in [Call -> [onHand : [Dim -> Int], reserved : [Dim -> Int], open : [Dim -> Nat]]]
    <3> HIDE DEF Unread
    <3> QED
      BY <2>1 DEF LocksInit
  <2> QED
    BY <2>3, <2>4, <2>5, <2>6 DEF LockTypes
<1>3. LocksExclude /\ ClosedOrdersHoldNothing
  BY DEF LocksInit, LocksExclude, ClosedOrdersHoldNothing
<1>4. PledgesCovered
  BY <1>1 DEF LocksInit, PledgesCovered
<1>5. OpenIsMade
  BY DEF LocksInit, OpenIsMade
<1>6. ASSUME NEW c \in Call PROVE CallSound(c)
  <2>1. stage[c] = "idle" /\ todo[c] = <<>> /\ held[c] = {}
    BY DEF LocksInit
  <2>2. Steps(c) = {}
    BY <2>1 DEF Steps
  <2>3. OrderFirst(c)
    BY <2>1 DEF OrderFirst
  <2>4. ReadsStand(c) /\ ReserveSound(c) /\ PostingSound(c) /\ CloseSound(c)
    BY <2>1 DEF ReadsStand, ReserveSound, PostingSound, CloseSound
  <2>5. Climbs(c)
    BY <2>1, <2>2 DEF Climbs
  <2> QED
    BY <2>3, <2>4, <2>5 DEF CallSound
<1> QED
  BY <1>2, <1>3, <1>4, <1>5, <1>6 DEF LocksInv

LEMMA LocksNextInv == LocksInv /\ [LocksNext]_lockVars => LocksInv'
<1> SUFFICES ASSUME LocksInv, [LocksNext]_lockVars PROVE LocksInv'
  OBVIOUS
<1>1. ASSUME NEW c \in Call, Begin(c) PROVE LocksInv'
  BY <1>1, BeginKeepsLocks
<1>2. ASSUME NEW c \in Call, Step(c) PROVE LocksInv'
  BY <1>2, AcquireKeepsLocks, AdmitKeepsLocks, SkipKeepsLocks, FindKeepsLocks,
     CommitReserveKeepsLocks, CommitPostingKeepsLocks, CommitCloseKeepsLocks,
     RefuseKeepsLocks DEF Step
<1>3. ASSUME NEW c \in Call, RollBack(c) PROVE LocksInv'
  BY <1>3, RollBackKeepsLocks
<1>4. CASE UNCHANGED lockVars
  <2>1. UNCHANGED tables /\ request' = request /\ stage' = stage /\ todo' = todo
        /\ held' = held /\ seen' = seen
    BY <1>4 DEF lockVars, tables
  <2>2. LockTypes' /\ LocksExclude'
    BY <2>1 DEF LocksInv, LockTypes, LocksExclude, tables
  <2>3. ASSUME NEW c \in Call PROVE CallSound(c)'
    BY <2>1 DEF LocksInv, CallSound, OrderFirst, ReadsStand, ReserveSound, PostingSound,
       CloseSound, Climbs, OrderOf, KindOf, Posts, Steps, Asked, Reserving, tables
  <2> QED
    BY <2>1, <2>2, <2>3, TablesStay DEF LocksInv
<1> QED
  BY <1>1, <1>2, <1>3, <1>4 DEF LocksNext

LEMMA LocksInvHolds == LocksSpec => []LocksInv
BY LocksInitInv, LocksNextInv, PTL DEF LocksSpec

\* However calls interleave at their row locks, retry and roll back, an order that
\* was closed has nothing reserved and never gets anything reserved again.
THEOREM ClosedOrdersStayEmpty == LocksSpec => []ClosedOrdersHoldNothing
<1>1. LocksInv => ClosedOrdersHoldNothing
  BY DEF LocksInv
<1> QED
  BY <1>1, LocksInvHolds, PTL

-----------------------------------------------------------------------------
(* Interleaved at their row locks, the calls do what StockPromises allows.  *)

LEMMA ReservePromises ==
  ASSUME LocksInv, NEW c \in Call, CommitReserve(c)
  PROVE  Promises!OnlyFor(OrderOf(c)) /\ Promises!Promise(OrderOf(c))
<1> DEFINE o == OrderOf(c)
           R == Reserving(c)
<1>1. /\ o \in Order /\ onHand' = onHand
      /\ \A d \in R : /\ d \in Dim /\ open[o][d] = 0 /\ open'[o][d] \in Nat
                      /\ reserved'[d] = reserved[d] + open'[o][d] /\ reserved'[d] <= onHand[d]
      /\ \A d \in Dim \ R : reserved'[d] = reserved[d] /\ open'[o][d] = open[o][d]
      /\ \A p \in Order \ {o} : open'[p] = open[p]
  BY ReserveWrites
<1>2. \A d \in Dim : /\ open[o][d] \in Nat /\ reserved[d] \in Int /\ onHand[d] \in Int
                     /\ reserved[d] <= onHand[d]
  BY <1>1 DEF LocksInv, LockTypes, PledgesCovered
<1> HIDE DEF o, R
<1>3. ASSUME NEW d \in Dim
      PROVE  /\ open'[o][d] >= open[o][d]
             /\ reserved'[d] = reserved[d] + (open'[o][d] - open[o][d])
             /\ reserved'[d] <= onHand[d]
  <2>1. CASE d \in R
    BY <1>1, <1>2, <2>1
  <2>2. CASE d \notin R
    BY <1>1, <1>2, <2>2
  <2> QED
    BY <2>1, <2>2
<1>4. Promises!OnlyFor(o) /\ Promises!Promise(o)
  BY <1>1, <1>3 DEF Promises!OnlyFor, Promises!Promise
<1> QED
  BY <1>4 DEF o

LEMMA PostingSpends ==
  ASSUME LocksInv, NEW c \in Call, CommitPosting(c)
  PROVE  Promises!OnlyFor(OrderOf(c)) /\ Promises!Spend(OrderOf(c))
<1> DEFINE o == OrderOf(c)
           D == OutOf(c)
<1>1. /\ o \in Order /\ D \subseteq Dim
      /\ \A d \in D : /\ open'[o][d] \in Nat /\ open'[o][d] <= open[o][d]
                      /\ reserved'[d] = reserved[d] - (open[o][d] - open'[o][d])
                      /\ reserved'[d] <= onHand'[d]
      /\ \A d \in Dim \ D : /\ onHand'[d] = onHand[d] /\ reserved'[d] = reserved[d]
                            /\ open'[o][d] = open[o][d]
      /\ \A p \in Order \ {o} : open'[p] = open[p]
  BY PostingWrites
<1>2. \A d \in Dim : /\ open[o][d] \in Nat /\ reserved[d] \in Int /\ onHand[d] \in Int
                     /\ reserved[d] <= onHand[d]
  BY <1>1 DEF LocksInv, LockTypes, PledgesCovered
<1> HIDE DEF o, D
<1>3. ASSUME NEW d \in Dim
      PROVE  /\ 0 <= open'[o][d] /\ open'[o][d] <= open[o][d]
             /\ reserved'[d] = reserved[d] - (open[o][d] - open'[o][d])
             /\ reserved'[d] <= onHand'[d]
  <2>1. CASE d \in D
    BY <1>1, <1>2, <2>1
  <2>2. CASE d \notin D
    BY <1>1, <1>2, <2>2
  <2> QED
    BY <2>1, <2>2
<1>4. Promises!OnlyFor(o) /\ Promises!Spend(o)
  BY <1>1, <1>3 DEF Promises!OnlyFor, Promises!Spend
<1> QED
  BY <1>4 DEF o

LEMMA CloseSpends ==
  ASSUME LocksInv, NEW c \in Call, CommitClose(c)
  PROVE  Promises!OnlyFor(OrderOf(c)) /\ Promises!Spend(OrderOf(c))
<1> DEFINE o == OrderOf(c)
<1>1. /\ o \in Order /\ onHand' = onHand
      /\ \A d \in Dim : open'[o][d] = 0 /\ reserved'[d] = reserved[d] - open[o][d]
      /\ \A p \in Order \ {o} : open'[p] = open[p]
  BY CloseWrites
<1>2. \A d \in Dim : open[o][d] \in Nat /\ reserved[d] \in Int
  BY <1>1 DEF LocksInv, LockTypes
<1> HIDE DEF o
<1>3. \A d \in Dim : /\ 0 <= open'[o][d] /\ open'[o][d] <= open[o][d]
                     /\ reserved'[d] = reserved[d] - (open[o][d] - open'[o][d])
  BY <1>1, <1>2
<1>4. Promises!OnlyFor(o) /\ Promises!Spend(o)
  BY <1>1, <1>3 DEF Promises!OnlyFor, Promises!Spend
<1> QED
  BY <1>4 DEF o

LEMMA LocksStepKeepsPromises ==
  LocksInv /\ [LocksNext]_lockVars => [Promises!Next]_(Promises!vars)
<1> SUFFICES ASSUME LocksInv, [LocksNext]_lockVars PROVE [Promises!Next]_(Promises!vars)
  OBVIOUS
<1>0. UNCHANGED tables => UNCHANGED Promises!vars
  BY DEF tables, Promises!vars
<1>1. ASSUME NEW c \in Call, Begin(c) \/ RollBack(c) PROVE UNCHANGED tables
  BY <1>1 DEF Begin, RollBack
<1>2. ASSUME NEW c \in Call, Acquire(c) \/ AdmitOrder(c) \/ SkipEnded(c) \/ FindReservations(c) \/ Refuse(c)
      PROVE  UNCHANGED tables
  BY <1>2 DEF Acquire, AdmitOrder, SkipEnded, FindReservations, Refuse
<1>3. ASSUME NEW c \in Call, CommitReserve(c) \/ CommitPosting(c) \/ CommitClose(c)
      PROVE  Promises!Next
  <2>1. OrderOf(c) \in Order
    BY RequestIs DEF LocksInv
  <2> QED
    BY <1>3, <2>1, ReservePromises, PostingSpends, CloseSpends DEF Promises!Next
<1>4. CASE UNCHANGED lockVars
  BY <1>4 DEF lockVars, Promises!vars
<1> QED
  BY <1>0, <1>1, <1>2, <1>3, <1>4 DEF LocksNext, Step

\* Calls that interleave at their row locks, wait, are rolled back and start over
\* never lose a promise, break one or promise the same stock twice.
THEOREM LocksKeepPromises == LocksSpec => ImplementsPromises
<1>1. LocksInit => Promises!Init
  BY RequestsTyped DEF LocksInit, Promises!Init
<1> QED
  BY <1>1, LocksStepKeepsPromises, LocksInvHolds, PTL DEF LocksSpec, ImplementsPromises, Promises!Spec

-----------------------------------------------------------------------------
(* Only reserving can close a circle of waiting calls.                      *)

\* A call of a circle that reserves nothing has its order, and waits for a balance.
LEMMA CircleWaitsForBalances ==
  ASSUME LocksInv, NEW S \in SUBSET Call, Circle(S), \A e \in S : KindOf(e) # "reserve",
         NEW c \in S
  PROVE  \E d \in Dim, e \in S :
           /\ 1 \in Steps(c) /\ todo[c][1] = BalanceLock(d)
           /\ BalanceLock(d) \in held[e]
<1>0. c \in Call /\ LockTypes /\ CallSound(c)
  BY DEF LocksInv
<1>1. PICK e \in S : WaitsFor(c, e)
  BY DEF Circle
<1>2. PICK f \in S : WaitsFor(f, c)
  BY DEF Circle
<1>3. /\ todo[c] \in Seq(Lock) /\ todo[c] # <<>> /\ Head(todo[c]) = todo[c][1] /\ 1 \in Steps(c)
      /\ todo[c][1] \in held[e]
  <2>1. todo[c] \in Seq(Lock)
    BY <1>0 DEF LockTypes
  <2> QED
    BY <1>1, <2>1, TailOf DEF WaitsFor, Steps
<1>4. held[c] # {}
  BY <1>2 DEF WaitsFor
<1>5. e \in Call /\ CallSound(e) /\ KindOf(e) # "reserve" /\ KindOf(c) # "reserve"
  BY DEF LocksInv
<1>6. stage[c] \in {"balances", "rows"}
  <2>1. stage[c] \in Stage
    BY <1>0 DEF LockTypes
  <2>2. stage[c] \notin Ended /\ stage[c] # "order"
    BY <1>0, <1>3, <1>4 DEF CallSound, OrderFirst
  <2> QED
    BY <2>1, <2>2 DEF Stage
<1>7. /\ todo[c][1] \notin held[c] /\ e # c
      /\ \A o \in Order, d \in Dim : RowLock(o, d) \in held[e] => BalanceLock(d) \in held[e]
  BY <1>0, <1>3, <1>5 DEF CallSound, Climbs
<1>8. ASSUME NEW o \in Order, NEW d \in Dim, todo[c][1] = RowLock(o, d), BalanceLock(d) \in held[c]
      PROVE  FALSE
  <2>1. BalanceLock(d) \in held[e]
    BY <1>3, <1>7, <1>8
  <2> QED
    BY <1>0, <1>5, <1>7, <1>8, <2>1 DEF LocksInv, LocksExclude
<1>9. OrderOf(c) \in Order /\ Dims(request[c].lines) \subseteq Dim /\ KindOf(c) \in Kind
  BY <1>0, RequestIs, DimsOf
<1>10. \E d \in Dim : todo[c][1] = BalanceLock(d)
  <2>1. CASE stage[c] = "rows"
    <3>1. PICK d \in Dims(request[c].lines) : todo[c][1] = RowLock(OrderOf(c), d)
      BY <1>0, <1>3, <2>1 DEF CallSound, PostingSound
    <3>2. d \in Dim /\ BalanceLock(d) \in held[c]
      BY <1>0, <1>9, <2>1 DEF CallSound, PostingSound
    <3> QED
      BY <1>8, <1>9, <3>1, <3>2
  <2>2. CASE stage[c] = "balances" /\ Posts(c)
    BY <1>0, <1>3, <2>2 DEF CallSound, PostingSound
  <2>3. CASE stage[c] = "balances" /\ KindOf(c) = "close"
    <3>1. PICK d \in Dim : \/ todo[c][1] = BalanceLock(d)
                           \/ todo[c][1] = RowLock(OrderOf(c), d) /\ BalanceLock(d) \in held[c]
      BY <1>0, <1>3, <2>3 DEF CallSound, CloseSound
    <3> QED
      BY <1>8, <1>9, <3>1
  <2> QED
    BY <1>5, <1>6, <1>9, <2>1, <2>2, <2>3 DEF Kind, Posts
<1> QED
  BY <1>3, <1>10

\* The balance its holder waits for is a later one than the one it holds.
LEMMA HolderWaitsHigher ==
  ASSUME LocksInv, NEW e \in Call, KindOf(e) # "reserve", NEW d \in Dim, NEW x \in Dim,
         BalanceLock(d) \in held[e], 1 \in Steps(e), todo[e][1] = BalanceLock(x)
  PROVE  d < x
BY DEF LocksInv, CallSound, Climbs

\* A circle of calls that post, ship and close: each waits for a balance whose
\* holder waits for a later one, and the dimensions are finitely many.
\* Postings, shipments and closings never deadlock among themselves.
THEOREM OnlyReservingDeadlocks == LocksSpec => []DeadlocksNeedReserving
<1>1. LocksInv => DeadlocksNeedReserving
  <2> SUFFICES ASSUME LocksInv, NEW S \in SUBSET Call, Circle(S),
                      \A c \in S : KindOf(c) # "reserve"
               PROVE  FALSE
    BY DEF DeadlocksNeedReserving, KindOf
  <2> DEFINE Awaited == {d \in Dim : \E e \in S : BalanceLock(d) \in held[e]}
             Gaps == {n \in Nat : \E d \in Awaited : n = Keys - d}
  <2>1. Keys \in Nat /\ \A d \in Dim : d \in Int /\ d <= Keys
    BY RequestsTyped DEF Dim
  <2>2. ASSUME NEW d \in Awaited PROVE \E x \in Awaited : d < x
    <3>1. PICK e \in S : BalanceLock(d) \in held[e]
      OBVIOUS
    <3>2. PICK x \in Dim, f \in S : /\ 1 \in Steps(e) /\ todo[e][1] = BalanceLock(x)
                                    /\ BalanceLock(x) \in held[f]
      BY CircleWaitsForBalances
    <3>3. d < x
      BY <3>1, <3>2, HolderWaitsHigher
    <3> QED
      BY <3>2, <3>3
  <2>3. Awaited # {}
    <3>1. PICK c \in S : TRUE
      BY DEF Circle
    <3> QED
      BY CircleWaitsForBalances
  <2>4. \A d \in Awaited : d \in Int /\ d <= Keys /\ Keys - d \in Nat
    BY <2>1
  <2> HIDE DEF Awaited
  <2>5. Gaps \in SUBSET Nat /\ Gaps # {}
    BY <2>3, <2>4
  <2>6. PICK n \in Gaps : \A m \in Gaps : n <= m
    BY <2>5, LeastNatural
  <2>7. PICK d \in Awaited : n = Keys - d
    OBVIOUS
  <2>8. PICK x \in Awaited : d < x
    BY <2>2
  <2>9. Keys - x \in Gaps /\ Keys - x < n
    BY <2>1, <2>4, <2>7, <2>8
  <2> QED
    BY <2>1, <2>4, <2>6, <2>7, <2>8, <2>9
<1> QED
  BY <1>1, LocksInvHolds, PTL
=============================================================================
