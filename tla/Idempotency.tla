----------------------------- MODULE Idempotency -----------------------------
(***************************************************************************)
(* idempotent_execute (apps/core/services.py): calls that carry an         *)
(* Idempotency-Key insert a record under a unique (scope, key), run the    *)
(* business function and store its answer in the record, all in one        *)
(* transaction.  Clients that lost an answer call again with the same key; *)
(* records expire and are cleaned up.                                      *)
(*                                                                         *)
(* Abstracted: the business function, which does its work (one effect) or  *)
(* refuses; the request's content, of which each endpoint hands a part to  *)
(* be fingerprinted; the hash, taken to be injective on that part; waiting *)
(* longer than the database allows, which ends like a crash.               *)
(***************************************************************************)
EXTENDS Integers, Sequences

CONSTANTS
  Call,            \* HTTP requests
  Key,             \* pairs of scope and Idempotency-Key
  Content,         \* what requests ask for
  Fingerprint,     \* the part of a content the endpoint has hashed
  MaxCleanups      \* bound on the records cleaned up

ASSUME InputsTyped == Fingerprint \in [Content -> Content] /\ MaxCleanups \in Nat

VARIABLES
  records,   \* committed IdempotencyRecord rows: [key, hash, result, expired]
  effects,   \* what business functions did, in commit order: [key, content]
  request,   \* [key, content] of each call
  stage,     \* how far it is
  answer,    \* what it was told: [kind, result]
  cleaned    \* how often each key's record was cleaned up

vars == <<records, effects, request, stage, answer, cleaned>>

Request == [key : Key, content : Content]
Record == [key : Key, hash : Content, result : Nat \ {0}, expired : BOOLEAN]
Answer == [kind : {"none", "executed", "replayed", "conflict", "in_progress", "refused", "lost"},
           result : Nat]
Told(kind) == [kind |-> kind, result |-> 0]

TypeOK ==
  /\ records \subseteq Record
  /\ effects \in Seq(Request)
  /\ request \in [Call -> Request]
  /\ stage \in [Call -> {"idle", "inserting", "running", "duplicate", "answered"}]
  /\ answer \in [Call -> Answer]
  /\ cleaned \in [Key -> Nat]
  /\ \A r, s \in records : r.key = s.key => r = s

Init ==
  /\ records = {}
  /\ effects = <<>>
  /\ request \in [Call -> Request]
  /\ stage = [c \in Call |-> "idle"]
  /\ answer = [c \in Call |-> Told("none")]
  /\ cleaned = [k \in Key |-> 0]

-----------------------------------------------------------------------------
Recorded(k) == \E r \in records : r.key = k

End(c, a) ==
  /\ stage' = [stage EXCEPT ![c] = "answered"]
  /\ answer' = [answer EXCEPT ![c] = a]

Begin(c) ==
  /\ stage[c] = "idle"
  /\ stage' = [stage EXCEPT ![c] = "inserting"]
  /\ UNCHANGED <<records, effects, request, answer, cleaned>>

\* The unique key makes the insert wait for another call's uncommitted record.
Insert(c) ==
  LET k == request[c].key IN
  /\ stage[c] = "inserting" /\ ~ Recorded(k)
  /\ \A e \in Call : stage[e] = "running" => request[e].key # k
  /\ stage' = [stage EXCEPT ![c] = "running"]
  /\ UNCHANGED <<records, effects, request, answer, cleaned>>

FindDuplicate(c) ==
  /\ stage[c] = "inserting" /\ Recorded(request[c].key)
  /\ stage' = [stage EXCEPT ![c] = "duplicate"]
  /\ UNCHANGED <<records, effects, request, answer, cleaned>>

NewRecord(c, result) ==
  [key |-> request[c].key, hash |-> Fingerprint[request[c].content],
   result |-> result, expired |-> FALSE]

\* Bug: the record is stored in a transaction after the business transaction,
\* and the process may die in between.
SucceedBeforeRecord(c) ==
  /\ stage[c] = "running"
  /\ effects' = Append(effects, request[c])
  /\ \/ /\ records' = records \union {NewRecord(c, Len(effects'))}
        /\ End(c, [kind |-> "executed", result |-> Len(effects')])
     \/ UNCHANGED records /\ End(c, Told("lost"))
  /\ UNCHANGED <<request, cleaned>>

\* The function's work and the record with its answer are committed together;
\* the answer reaches the client or is lost.
Succeed(c) ==
  /\ stage[c] = "running"
  /\ effects' = Append(effects, request[c])
  /\ records' = records \union {NewRecord(c, Len(effects'))}
  /\ \/ End(c, [kind |-> "executed", result |-> Len(effects')])
     \/ End(c, Told("lost"))
  /\ UNCHANGED <<request, cleaned>>

\* The function refuses: the record is rolled back and the key is free.
RefuseBusiness(c) ==
  /\ stage[c] = "running"
  /\ End(c, Told("refused"))
  /\ UNCHANGED <<records, effects, request, cleaned>>

\* The function meets a unique key of its own, and its error looks the same.
FailOnOtherKey(c) ==
  /\ stage[c] = "running"
  /\ stage' = [stage EXCEPT ![c] = "duplicate"]
  /\ UNCHANGED <<records, effects, request, answer, cleaned>>

\* Bug: a call that finds no record after all starts over.
StartOver(c) ==
  /\ stage[c] = "duplicate"
  /\ \/ /\ ~ Recorded(request[c].key)
        /\ stage' = [stage EXCEPT ![c] = "inserting"]
        /\ UNCHANGED answer
     \/ \E r \in records :
          r.key = request[c].key /\ End(c, [kind |-> "replayed", result |-> r.result])
  /\ UNCHANGED <<records, effects, request, cleaned>>

\* After the rollback the record is read again.
AnswerDuplicate(c) ==
  LET k == request[c].key
      hash == Fingerprint[request[c].content]
  IN  /\ stage[c] = "duplicate"
      /\ \/ ~ Recorded(k) /\ End(c, Told("in_progress"))
         \/ \E r \in records :
              /\ r.key = k
              /\ End(c, IF r.hash # hash THEN Told("conflict")
                        ELSE [kind |-> "replayed", result |-> r.result])
      /\ UNCHANGED <<records, effects, request, cleaned>>

\* The process dies before it commits, or gives up waiting.
Crash(c) ==
  /\ stage[c] \in {"inserting", "running", "duplicate"}
  /\ End(c, Told("lost"))
  /\ UNCHANGED <<records, effects, request, cleaned>>

\* IDEMPOTENCY_TTL_HOURS pass.  An expired record still answers.
Expire(r) ==
  /\ ~ r.expired
  /\ records' = (records \ {r}) \union {[r EXCEPT !.expired = TRUE]}
  /\ UNCHANGED <<effects, request, stage, answer, cleaned>>

CleanUp(r) ==
  /\ r.expired /\ cleaned[r.key] < MaxCleanups
  /\ records' = records \ {r}
  /\ cleaned' = [cleaned EXCEPT ![r.key] = @ + 1]
  /\ UNCHANGED <<effects, request, stage, answer>>

-----------------------------------------------------------------------------
Step(c) ==
  \/ Insert(c) \/ FindDuplicate(c) \/ Succeed(c) \/ RefuseBusiness(c) \/ FailOnOtherKey(c)
  \/ AnswerDuplicate(c)

Next ==
  \/ \E c \in Call : Begin(c) \/ Step(c) \/ Crash(c)
  \/ \E r \in records : Expire(r) \/ CleanUp(r)

\* A request that was begun runs on.
Spec == Init /\ [][Next]_vars
FairSpec == Spec /\ \A c \in Call : WF_vars(Step(c))

-----------------------------------------------------------------------------
(* What the keys are for.                                                  *)

EffectsOf(k) == {i \in 1..Len(effects) : effects[i].key = k}

\* docs/api-conventions.md 7, rule 1: however often, however concurrently and
\* after whatever crash a key is used, its work is done once, until its record
\* has been cleaned up; and a key whose call failed is free again.
WorkIsDoneOnce ==
  \A k \in Key : \A i, j \in EffectsOf(k) :
    cleaned[k] = 0 => i = j /\ \E r \in records : r.key = k /\ r.result = i

\* A call that is answered with a result gets that of its own key's work, done
\* before, for the content it asked for (rules 1 and 2): a key used again for
\* another content is refused.
AnswersAreForTheContent ==
  \A c \in Call : answer[c].kind \in {"executed", "replayed"} =>
    /\ answer[c].result \in 1..Len(effects)
    /\ effects[answer[c].result] = request[c]

\* Only the first of several calls is told that it did the work; the others get
\* that answer again.
OneCallExecutes ==
  \A c, e \in Call :
    answer[c].kind = "executed" /\ answer[e].kind = "executed"
      /\ answer[c].result = answer[e].result => c = e

\* Calls that wait for the same key do not wait forever.
EveryCallAnswered == \A c \in Call : (stage[c] = "inserting") ~> (stage[c] = "answered")
=============================================================================
