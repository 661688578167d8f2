--------------------------- MODULE IdempotencyProofs ---------------------------
(***************************************************************************)
(* What Idempotency promises, for any number of calls, keys, contents and  *)
(* cleanups: a key's work is done once, and answers are its own.  And what *)
(* Access promises of the requests that these calls arrive with, for any   *)
(* number of accounts, roles, codes, administrators and requests;          *)
(* what the Pages that send them show, for any number of calls, and what   *)
(* the Scopes of an account's roles show it, for any roles and tables.     *)
(***************************************************************************)
EXTENDS Idempotency, Access, Scopes, Pages, SumLemmas, SequenceTheorems

(***************************************************************************)
(* Idempotency.                                                            *)
(***************************************************************************)

\* The unique key lets one call at a time run the work of a key, and none while
\* the key has a record.
OneRunsPerKey ==
  \A c \in Call : stage[c] = "running" =>
    /\ ~ Recorded(request[c].key)
    /\ \A e \in Call : stage[e] = "running" /\ request[e].key = request[c].key => e = c

\* A record was committed with an effect of its key, whose content it fingerprints.
RecordsAreOfEffects ==
  \A r \in records :
    /\ r.result \in 1..Len(effects)
    /\ effects[r.result].key = r.key
    /\ Fingerprint[effects[r.result].content] = r.hash

HasResult(c) == answer[c].kind \in {"executed", "replayed"}

\* The content is right as far as the fingerprint tells contents apart.
AnswersAreOfTheKey ==
  \A c \in Call : HasResult(c) =>
    /\ answer[c].result \in 1..Len(effects)
    /\ effects[answer[c].result].key = request[c].key
    /\ Fingerprint[effects[answer[c].result].content] = Fingerprint[request[c].content]

\* WorkIsDoneOnce needs OneRunsPerKey: only a call that runs beside no record may
\* add an effect.
Inv ==
  /\ TypeOK
  /\ OneRunsPerKey
  /\ RecordsAreOfEffects
  /\ WorkIsDoneOnce
  /\ AnswersAreOfTheKey
  /\ OneCallExecutes

-----------------------------------------------------------------------------
\* Nothing has been asked, done or recorded at first.
LEMMA InitInv == Init => Inv
<1> SUFFICES ASSUME Init PROVE Inv
  OBVIOUS
<1>1. TypeOK
  BY InputsTyped DEF Init, TypeOK, Answer, Told
<1>2. OneRunsPerKey /\ AnswersAreOfTheKey /\ OneCallExecutes
  BY DEF Init, OneRunsPerKey, AnswersAreOfTheKey, OneCallExecutes, HasResult, Told
<1>3. RecordsAreOfEffects /\ WorkIsDoneOnce
  BY DEF Init, RecordsAreOfEffects, WorkIsDoneOnce, EffectsOf
<1> QED
  BY <1>1, <1>2, <1>3 DEF Inv

\* A step that leaves the committed tables alone, and answers no call with a result
\* it cannot show, keeps the invariant.
LEMMA TablesUnchanged ==
  ASSUME Inv, UNCHANGED <<records, effects, request, cleaned>>,
         TypeOK', OneRunsPerKey',
         \A c \in Call : HasResult(c)' => UNCHANGED answer[c] \/
           /\ answer'[c].kind = "replayed"
           /\ \E r \in records : /\ r.key = request[c].key /\ r.result = answer'[c].result
                                 /\ r.hash = Fingerprint[request[c].content]
  PROVE  Inv'
<1>1. RecordsAreOfEffects' /\ WorkIsDoneOnce'
  BY DEF Inv, RecordsAreOfEffects, WorkIsDoneOnce, EffectsOf
<1>2. AnswersAreOfTheKey'
  BY DEF Inv, AnswersAreOfTheKey, HasResult, RecordsAreOfEffects
<1>3. OneCallExecutes'
  BY DEF Inv, OneCallExecutes, HasResult
<1> QED
  BY <1>1, <1>2, <1>3 DEF Inv

\* A call that ends without a result.
LEMMA EndingKeepsInv ==
  ASSUME Inv, NEW c \in Call, NEW a \in Answer, End(c, a),
         UNCHANGED <<records, effects, request, cleaned>>,
         a.kind \in {"executed", "replayed"} =>
           /\ a.kind = "replayed"
           /\ \E r \in records : /\ r.key = request[c].key /\ r.result = a.result
                                 /\ r.hash = Fingerprint[request[c].content]
  PROVE  Inv'
<1>1. TypeOK'
  BY DEF Inv, TypeOK, End
<1>2. OneRunsPerKey'
  BY DEF Inv, OneRunsPerKey, TypeOK, End, Recorded
<1>3. \A e \in Call : answer'[e] = IF e = c THEN a ELSE answer[e]
  BY DEF Inv, TypeOK, End
<1> QED
  BY <1>1, <1>2, <1>3, TablesUnchanged DEF HasResult

\* A call that goes on without an answer, and does not start to run.
LEMMA MovingOnKeepsInv ==
  ASSUME Inv, NEW c \in Call, NEW s \in {"inserting", "duplicate"},
         stage' = [stage EXCEPT ![c] = s],
         UNCHANGED <<records, effects, request, answer, cleaned>>
  PROVE  Inv'
<1>1. TypeOK'
  BY DEF Inv, TypeOK
<1>2. OneRunsPerKey'
  BY DEF Inv, OneRunsPerKey, TypeOK, Recorded
<1> QED
  BY <1>1, <1>2, TablesUnchanged DEF HasResult

\* Insert waits for a running call of the same key.
LEMMA InsertKeepsInv ==
  ASSUME Inv, NEW c \in Call, Insert(c) PROVE Inv'
<1>1. TypeOK'
  BY DEF Inv, TypeOK, Insert
<1>2. OneRunsPerKey'
  BY DEF Inv, OneRunsPerKey, TypeOK, Recorded, Insert
<1> QED
  BY <1>1, <1>2, TablesUnchanged DEF HasResult, Insert

\* Replaying answers with a record whose fingerprint is the request's.
LEMMA AnswerDuplicateKeepsInv ==
  ASSUME Inv, NEW c \in Call, AnswerDuplicate(c) PROVE Inv'
<1>1. UNCHANGED <<records, effects, request, cleaned>>
  BY DEF AnswerDuplicate
<1>2. CASE End(c, Told("in_progress")) \/ End(c, Told("conflict"))
  <2>1. Told("in_progress") \in Answer /\ Told("conflict") \in Answer
    BY DEF Told, Answer
  <2> QED
    BY <1>1, <1>2, <2>1, EndingKeepsInv DEF Told
<1>3. ASSUME NEW r \in records, r.key = request[c].key,
             r.hash = Fingerprint[request[c].content],
             End(c, [kind |-> "replayed", result |-> r.result])
      PROVE  Inv'
  <2>1. [kind |-> "replayed", result |-> r.result] \in Answer
    BY DEF Inv, TypeOK, Record, Answer
  <2> QED
    BY <1>1, <1>3, <2>1, EndingKeepsInv
<1> QED
  BY <1>2, <1>3 DEF AnswerDuplicate

-----------------------------------------------------------------------------
\* The work of a call and its record, committed together.
LEMMA SucceedKeepsInv ==
  ASSUME Inv, NEW c \in Call, Succeed(c) PROVE Inv'
<1> DEFINE n == Len(effects) + 1
           k == request[c].key
           r == NewRecord(c, n)
<1>1. /\ request[c] \in Request /\ k \in Key /\ request[c].content \in Content
      /\ effects \in Seq(Request) /\ Len(effects) \in Nat
      /\ Fingerprint[request[c].content] \in Content
  BY InputsTyped DEF Inv, TypeOK, Request
<1>2. /\ effects' = Append(effects, request[c]) /\ effects' \in Seq(Request)
      /\ Len(effects') = n /\ n \in Nat \ {0} /\ effects'[n] = request[c]
      /\ \A i \in 1..Len(effects) : effects'[i] = effects[i]
  BY <1>1 DEF Succeed
<1>3. /\ records' = records \union {r} /\ UNCHANGED <<request, cleaned>>
      /\ stage[c] = "running" /\ ~ Recorded(k)
  BY <1>2 DEF Succeed, Inv, OneRunsPerKey
<1>4. r \in Record /\ r.key = k /\ r.result = n
      /\ r.hash = Fingerprint[request[c].content]
  BY <1>1, <1>2 DEF NewRecord, Record
<1>5. PICK a \in {[kind |-> "executed", result |-> n], Told("lost")} : End(c, a)
  BY <1>2 DEF Succeed
<1>6. a \in Answer
  BY <1>2, <1>5 DEF Answer, Told
<1>7. \A e \in Call : /\ answer'[e] = IF e = c THEN a ELSE answer[e]
                      /\ stage'[e] = IF e = c THEN "answered" ELSE stage[e]
  BY <1>5 DEF End, Inv, TypeOK
<1> HIDE DEF r
<1>8. TypeOK'
  <2>1. /\ stage' \in [Call -> {"idle", "inserting", "running", "duplicate", "answered"}]
        /\ answer' \in [Call -> Answer]
    BY <1>5, <1>6 DEF End, Inv, TypeOK
  <2>2. records' \subseteq Record /\ \A p, q \in records' : p.key = q.key => p = q
    BY <1>3, <1>4 DEF Inv, TypeOK, Recorded
  <2> QED
    BY <1>2, <1>3, <2>1, <2>2 DEF Inv, TypeOK
<1>9. OneRunsPerKey'
  <2> SUFFICES ASSUME NEW e \in Call, stage'[e] = "running"
               PROVE  /\ ~ Recorded(request[e].key)'
                      /\ \A g \in Call : stage'[g] = "running" /\ request[g].key = request[e].key => g = e
    BY <1>3 DEF OneRunsPerKey
  <2>1. e # c /\ stage[e] = "running"
    BY <1>7
  <2>2. request[e].key # k /\ ~ Recorded(request[e].key)
    BY <1>3, <2>1 DEF Inv, OneRunsPerKey
  <2>3. ~ Recorded(request[e].key)'
    BY <1>3, <1>4, <2>2 DEF Recorded
  <2> QED
    BY <1>7, <2>1, <2>3 DEF Inv, OneRunsPerKey
<1>10. RecordsAreOfEffects'
  <2> SUFFICES ASSUME NEW p \in records'
               PROVE  /\ p.result \in 1..n /\ effects'[p.result].key = p.key
                      /\ Fingerprint[effects'[p.result].content] = p.hash
    BY <1>2 DEF RecordsAreOfEffects
  <2>1. CASE p \in records
    BY <1>1, <1>2, <2>1 DEF Inv, RecordsAreOfEffects
  <2>2. CASE p = r
    BY <1>2, <1>4, <2>2
  <2> QED
    BY <1>3, <2>1, <2>2
<1>11. WorkIsDoneOnce'
  <2> SUFFICES ASSUME NEW l \in Key, NEW i \in EffectsOf(l)', NEW j \in EffectsOf(l)',
                      cleaned[l] = 0
               PROVE  i = j /\ \E p \in records' : p.key = l /\ p.result = i
    BY <1>3 DEF WorkIsDoneOnce
  <2>1. i \in 1..n /\ j \in 1..n /\ effects'[i].key = l /\ effects'[j].key = l
    BY <1>2 DEF EffectsOf
  <2>2. CASE l # k
    <3>1. i \in EffectsOf(l) /\ j \in EffectsOf(l)
      BY <1>1, <1>2, <2>1, <2>2 DEF EffectsOf
    <3> QED
      BY <1>3, <3>1 DEF Inv, WorkIsDoneOnce
  <2>3. CASE l = k
    <3>1. EffectsOf(k) = {}
      BY <1>3, <2>3 DEF Inv, WorkIsDoneOnce, Recorded
    <3>2. i = n /\ j = n
      BY <1>1, <1>2, <2>1, <2>3, <3>1 DEF EffectsOf
    <3> QED
      BY <1>3, <1>4, <2>3, <3>2
  <2> QED
    BY <2>2, <2>3
<1>12. AnswersAreOfTheKey'
  <2> SUFFICES ASSUME NEW e \in Call, HasResult(e)'
               PROVE  /\ answer'[e].result \in 1..n
                      /\ effects'[answer'[e].result].key = request[e].key
                      /\ Fingerprint[effects'[answer'[e].result].content]
                           = Fingerprint[request[e].content]
    BY <1>2, <1>3 DEF AnswersAreOfTheKey
  <2>1. CASE e = c
    BY <1>2, <1>5, <1>7, <2>1 DEF HasResult, Told
  <2>2. CASE e # c
    BY <1>1, <1>2, <1>7, <2>2 DEF HasResult, Inv, AnswersAreOfTheKey
  <2> QED
    BY <2>1, <2>2
<1>13. OneCallExecutes'
  <2>1. \A e \in Call : e # c /\ answer'[e].kind = "executed" => answer'[e].result < n
    BY <1>1, <1>7 DEF Inv, AnswersAreOfTheKey, HasResult
  <2>2. answer'[c].kind = "executed" => answer'[c].result = n
    BY <1>5, <1>7 DEF Told
  <2> QED
    BY <1>2, <1>7, <2>1, <2>2 DEF Inv, OneCallExecutes
<1> QED
  BY <1>8, <1>9, <1>10, <1>11, <1>12, <1>13 DEF Inv

\* An expired record goes on answering.
LEMMA ExpireKeepsInv ==
  ASSUME Inv, NEW r \in records, Expire(r) PROVE Inv'
<1> DEFINE s == [r EXCEPT !.expired = TRUE]
<1>1. s \in Record /\ s.key = r.key /\ s.hash = r.hash /\ s.result = r.result
  BY DEF Inv, TypeOK, Record
<1>2. /\ records' = (records \ {r}) \union {s}
      /\ UNCHANGED <<effects, request, stage, answer, cleaned>>
  BY DEF Expire
<1> HIDE DEF s
<1>3. TypeOK'
  BY <1>1, <1>2 DEF Inv, TypeOK
<1>4. OneRunsPerKey'
  BY <1>1, <1>2 DEF Inv, OneRunsPerKey, Recorded
<1>5. RecordsAreOfEffects'
  BY <1>1, <1>2 DEF Inv, RecordsAreOfEffects
<1>6. WorkIsDoneOnce'
  <2> SUFFICES ASSUME NEW l \in Key, NEW i \in EffectsOf(l), NEW j \in EffectsOf(l),
                      cleaned[l] = 0
               PROVE  i = j /\ \E p \in records' : p.key = l /\ p.result = i
    BY <1>2 DEF WorkIsDoneOnce, EffectsOf
  <2>1. i = j /\ \E p \in records : p.key = l /\ p.result = i
    BY DEF Inv, WorkIsDoneOnce
  <2> QED
    BY <1>1, <1>2, <2>1
<1>7. AnswersAreOfTheKey' /\ OneCallExecutes'
  BY <1>2 DEF Inv, AnswersAreOfTheKey, HasResult, OneCallExecutes
<1> QED
  BY <1>3, <1>4, <1>5, <1>6, <1>7 DEF Inv

\* Cleaning up a record makes its key one that was cleaned up.
LEMMA CleanUpKeepsInv ==
  ASSUME Inv, NEW r \in records, CleanUp(r) PROVE Inv'
<1>1. /\ records' = records \ {r}
      /\ UNCHANGED <<effects, request, stage, answer>>
      /\ \A l \in Key : cleaned'[l] = IF l = r.key THEN cleaned[l] + 1 ELSE cleaned[l]
      /\ cleaned \in [Key -> Nat] /\ cleaned' \in [Key -> Nat]
  <2>1. r.key \in Key /\ cleaned \in [Key -> Nat]
    BY DEF Inv, TypeOK, Record
  <2> QED
    BY <2>1 DEF CleanUp
<1>2. TypeOK'
  BY <1>1 DEF Inv, TypeOK
<1>3. OneRunsPerKey'
  BY <1>1 DEF Inv, OneRunsPerKey, Recorded
<1>4. RecordsAreOfEffects'
  BY <1>1 DEF Inv, RecordsAreOfEffects
<1>5. WorkIsDoneOnce'
  <2> SUFFICES ASSUME NEW l \in Key, NEW i \in EffectsOf(l), NEW j \in EffectsOf(l),
                      cleaned'[l] = 0
               PROVE  i = j /\ \E p \in records' : p.key = l /\ p.result = i
    BY <1>1 DEF WorkIsDoneOnce, EffectsOf
  <2>1. l # r.key /\ cleaned[l] = 0
    BY <1>1
  <2> QED
    BY <1>1, <2>1 DEF Inv, WorkIsDoneOnce
<1>6. AnswersAreOfTheKey' /\ OneCallExecutes'
  BY <1>1 DEF Inv, AnswersAreOfTheKey, HasResult, OneCallExecutes
<1> QED
  BY <1>2, <1>3, <1>4, <1>5, <1>6 DEF Inv

-----------------------------------------------------------------------------
\* One case per action.
LEMMA NextKeepsInv == Inv /\ [Next]_vars => Inv'
<1> SUFFICES ASSUME Inv, [Next]_vars PROVE Inv'
  OBVIOUS
<1>1. ASSUME NEW c \in Call, Begin(c) \/ FindDuplicate(c) \/ FailOnOtherKey(c) PROVE Inv'
  BY <1>1, MovingOnKeepsInv DEF Begin, FindDuplicate, FailOnOtherKey
<1>2. ASSUME NEW c \in Call, Insert(c) PROVE Inv'
  BY <1>2, InsertKeepsInv
<1>3. ASSUME NEW c \in Call, Succeed(c) PROVE Inv'
  BY <1>3, SucceedKeepsInv
<1>4. ASSUME NEW c \in Call, RefuseBusiness(c) \/ Crash(c) PROVE Inv'
  <2>1. Told("refused") \in Answer /\ Told("lost") \in Answer
    BY DEF Told, Answer
  <2> QED
    BY <1>4, <2>1, EndingKeepsInv DEF RefuseBusiness, Crash, Told
<1>5. ASSUME NEW c \in Call, AnswerDuplicate(c) PROVE Inv'
  BY <1>5, AnswerDuplicateKeepsInv
<1>6. ASSUME NEW r \in records, Expire(r) \/ CleanUp(r) PROVE Inv'
  BY <1>6, ExpireKeepsInv, CleanUpKeepsInv
<1>7. CASE UNCHANGED vars
  <2>1. TypeOK' /\ OneRunsPerKey'
    BY <1>7 DEF vars, Inv, TypeOK, OneRunsPerKey, Recorded
  <2>2. RecordsAreOfEffects' /\ WorkIsDoneOnce'
    BY <1>7 DEF vars, Inv, RecordsAreOfEffects, WorkIsDoneOnce, EffectsOf
  <2>3. AnswersAreOfTheKey' /\ OneCallExecutes'
    BY <1>7 DEF vars, Inv, AnswersAreOfTheKey, HasResult, OneCallExecutes
  <2> QED
    BY <2>1, <2>2, <2>3 DEF Inv
<1> QED
  BY <1>1, <1>2, <1>3, <1>4, <1>5, <1>6, <1>7 DEF Next, Step

\* The inductive invariant holds in every behaviour.
LEMMA InvHolds == Spec => []Inv
BY InitInv, NextKeepsInv, PTL DEF Spec

\* However often, however concurrently and after whatever crash a key is used, its
\* work is done once until its record is cleaned up.
THEOREM KeysWorkOnce == Spec => []WorkIsDoneOnce
<1>1. Inv => WorkIsDoneOnce
  BY DEF Inv
<1> QED
  BY <1>1, InvHolds, PTL

\* Of all calls that get one answer, at most one is told that it did the work.
THEOREM OneIsToldItExecuted == Spec => []OneCallExecutes
<1>1. Inv => OneCallExecutes
  BY DEF Inv
<1> QED
  BY <1>1, InvHolds, PTL

\* Where the fingerprint tells contents apart, an answer is that of the content
\* that was asked for.  Run Idempotency_content shows that it has to.
THEOREM AnswersFitContent ==
  ASSUME \A x, y \in Content : Fingerprint[x] = Fingerprint[y] => x = y
  PROVE  Spec => []AnswersAreForTheContent
<1>1. Inv => AnswersAreForTheContent
  <2> SUFFICES ASSUME Inv, NEW c \in Call, HasResult(c)
               PROVE  /\ answer[c].result \in 1..Len(effects)
                      /\ effects[answer[c].result] = request[c]
    BY DEF AnswersAreForTheContent, HasResult
  <2>1. /\ answer[c].result \in 1..Len(effects)
        /\ effects[answer[c].result].key = request[c].key
        /\ Fingerprint[effects[answer[c].result].content] = Fingerprint[request[c].content]
    BY DEF Inv, AnswersAreOfTheKey
  <2>2. effects[answer[c].result] \in Request /\ request[c] \in Request
    BY <2>1 DEF Inv, TypeOK
  <2>3. effects[answer[c].result].content = request[c].content
    BY <2>1, <2>2 DEF Request
  <2> QED
    BY <2>1, <2>2, <2>3 DEF Request
<1> QED
  BY <1>1, InvHolds, PTL

(***************************************************************************)
(* Access.  A request that has read something is right about it as long as *)
(* its account still has the version it began with: AccessInv says so of   *)
(* every stage, and that no version is ahead of its account's.             *)
(***************************************************************************)

\* What a request that read the roles or the codes of its account knows of them.
KnowsRoles(q) ==
  /\ asked[q].stage = "roles" /\ asked[q].version = accounts[asked[q].account].version
  /\ asked[q].account \notin behind \union rewound
  => asked[q].roles = active_roles(asked[q].account)

KnowsCodes(q) ==
  /\ asked[q].stage = "codes" /\ asked[q].version = accounts[asked[q].account].version
  /\ asked[q].account \notin behind \union rewound
  => asked[q].codes = permission_codes(asked[q].account)

\* No version is ahead of its account's.
VersionsArePast ==
  /\ \A e \in cached : e.account \notin rewound => e.version <= accounts[e.account].version
  /\ \A q \in Reader :
       asked[q].stage # "none" /\ asked[q].account \notin rewound
       => asked[q].version <= accounts[asked[q].account].version

AccessInv ==
  /\ AccessTypeOK
  /\ VersionsArePast
  /\ CachedCodesAreCurrent
  /\ \A q \in Reader : KnowsRoles(q) /\ KnowsCodes(q)

\* What a step of an administrator's call does to account a: it raises its version, or
\* lets its roles and codes be, or says that it did not.
Accounted(a) ==
  /\ a \notin rewound' => a \notin rewound /\ accounts[a].version <= accounts'[a].version
  /\ a \notin behind' \union rewound' /\ accounts'[a].version = accounts[a].version
     => /\ a \notin behind \union rewound
        /\ active_roles(a)' = active_roles(a)
        /\ permission_codes(a)' = permission_codes(a)

LEMMA AskedHasAccount ==
  ASSUME AccessTypeOK, NEW q \in Reader, asked[q].stage # "none"
  PROVE  /\ asked[q].account \in Account /\ asked[q].version \in 0..MaxVersion
         /\ asked[q].stage \in {"loaded", "roles", "codes"}
         /\ asked[q].stage = "roles" => asked[q].roles \in SUBSET Role
         /\ asked[q].stage = "codes" => asked[q].codes \in SUBSET Permission
<1>1. asked[q] \in Requests
  BY DEF AccessTypeOK
<1> QED BY <1>1 DEF Requests, NoRequest

LEMMA AdministrationKeepsInv ==
  ASSUME AccessInv, AccessTypeOK', UNCHANGED <<cached, asked>>, \A a \in Account : Accounted(a)
  PROVE  AccessInv'
<1>1. AccessTypeOK /\ cached \subseteq Entry
  BY DEF AccessInv, AccessTypeOK
<1>2. \A a \in Account : accounts[a].version \in Nat /\ accounts'[a].version \in Nat
  <2>1. \A a \in Account : accounts[a] \in AccountRow /\ accounts'[a] \in AccountRow
    BY DEF AccessInv, AccessTypeOK
  <2> QED BY <2>1, AccessInputs DEF AccountRow
<1>3. VersionsArePast'
  <2>1. ASSUME NEW e \in cached', e.account \notin rewound'
        PROVE  e.version <= accounts'[e.account].version
    <3>1. e \in cached /\ e.account \in Account /\ e.version \in Nat
      BY <1>1, <2>1, AccessInputs DEF Entry
    <3>2. e.account \notin rewound /\ accounts[e.account].version <= accounts'[e.account].version
      BY <2>1, <3>1 DEF Accounted
    <3>3. e.version <= accounts[e.account].version
      BY <3>1, <3>2 DEF AccessInv, VersionsArePast
    <3> QED BY <1>2, <3>1, <3>2, <3>3
  <2>2. ASSUME NEW q \in Reader, asked'[q].stage # "none", asked'[q].account \notin rewound'
        PROVE  asked'[q].version <= accounts'[asked'[q].account].version
    <3> DEFINE a == asked[q].account
    <3>1. asked' = asked /\ asked[q].stage # "none" /\ a \notin rewound'
      BY <2>2
    <3>2. a \in Account /\ asked[q].version \in Nat
      BY <1>1, <3>1, AskedHasAccount, AccessInputs
    <3>3. a \notin rewound /\ accounts[a].version <= accounts'[a].version
      BY <3>1, <3>2 DEF Accounted
    <3>4. asked[q].version <= accounts[a].version
      BY <3>1, <3>3 DEF AccessInv, VersionsArePast
    <3> QED BY <1>2, <3>1, <3>2, <3>3, <3>4
  <2> QED BY <2>1, <2>2 DEF VersionsArePast
<1>4. CachedCodesAreCurrent'
  <2> SUFFICES ASSUME NEW e \in cached', e.version = accounts'[e.account].version,
                      e.account \notin behind' \union rewound'
               PROVE  e.codes = permission_codes(e.account)'
    BY DEF CachedCodesAreCurrent
  <2>1. e \in cached /\ e.account \in Account /\ e.version \in Nat
    BY <1>1, AccessInputs DEF Entry
  <2>2. e.account \notin rewound /\ accounts[e.account].version <= accounts'[e.account].version
    BY <2>1 DEF Accounted
  <2>3. accounts'[e.account].version = accounts[e.account].version
    BY <1>2, <2>1, <2>2 DEF AccessInv, VersionsArePast
  <2>4. e.account \notin behind \union rewound /\ permission_codes(e.account)' = permission_codes(e.account)
    BY <2>1, <2>3 DEF Accounted
  <2> QED BY <2>1, <2>3, <2>4 DEF AccessInv, CachedCodesAreCurrent
<1>5. ASSUME NEW q \in Reader PROVE KnowsRoles(q)' /\ KnowsCodes(q)'
  <2> SUFFICES ASSUME NEW a, a = asked[q].account, asked[q].stage \in {"roles", "codes"},
                      asked[q].version = accounts'[a].version, a \notin behind' \union rewound'
               PROVE  /\ asked[q].stage = "roles" => asked[q].roles = active_roles(a)'
                      /\ asked[q].stage = "codes" => asked[q].codes = permission_codes(a)'
    BY DEF KnowsRoles, KnowsCodes, active_roles, permission_codes, CodesOf
  <2>1. a \in Account /\ asked[q].version \in Nat
    BY <1>1, AskedHasAccount, AccessInputs
  <2>2. a \notin rewound /\ accounts[a].version <= accounts'[a].version
    BY <2>1 DEF Accounted
  <2>3. accounts'[a].version = accounts[a].version
    BY <1>2, <2>1, <2>2 DEF AccessInv, VersionsArePast
  <2>4. /\ a \notin behind \union rewound
        /\ active_roles(a)' = active_roles(a) /\ permission_codes(a)' = permission_codes(a)
    BY <2>1, <2>3 DEF Accounted
  <2>5. KnowsRoles(q) /\ KnowsCodes(q)
    BY DEF AccessInv
  <2> QED BY <2>3, <2>4, <2>5 DEF KnowsRoles, KnowsCodes
<1> QED BY <1>3, <1>4, <1>5 DEF AccessInv

LEMMA SameCodes ==
  ASSUME NEW a \in Account, accounts'[a].roles = accounts[a].roles,
         \A r \in accounts[a].roles : roles'[r].active = roles[r].active /\ roles'[r].codes = roles[r].codes
  PROVE  active_roles(a)' = active_roles(a) /\ permission_codes(a)' = permission_codes(a)
<1>1. active_roles(a)' = active_roles(a)
  BY DEF active_roles
<1>2. {roles'[r].codes : r \in active_roles(a)'} = {roles[r].codes : r \in active_roles(a)}
  BY <1>1 DEF active_roles
<1> QED BY <1>1, <1>2 DEF permission_codes, CodesOf

LEMMA RowsHaveTypes ==
  ASSUME AccessTypeOK
  PROVE  /\ \A a \in Account : /\ accounts[a] \in AccountRow
                               /\ accounts[a].version \in 0..MaxVersion
                               /\ accounts[a].roles \in SUBSET Role
                               /\ accounts[a].active \in BOOLEAN
         /\ \A r \in Role : /\ roles[r] \in RoleRow
                            /\ roles[r].codes \in SUBSET Permission
                            /\ roles[r].active \in BOOLEAN
BY DEF AccessTypeOK, AccountRow, RoleRow

\* A step that leaves the roles, and what accounts have of them, as they were.
LEMMA NothingHappened ==
  ASSUME AccessTypeOK, UNCHANGED <<roles, behind, rewound>>,
         \A a \in Account : accounts'[a].roles = accounts[a].roles
                            /\ accounts'[a].version = accounts[a].version
  PROVE  \A a \in Account : Accounted(a)
<1> SUFFICES ASSUME NEW a \in Account PROVE Accounted(a)
  OBVIOUS
<1>1. active_roles(a)' = active_roles(a) /\ permission_codes(a)' = permission_codes(a)
  BY SameCodes
<1>2. accounts[a].version \in 0..MaxVersion
  BY RowsHaveTypes
<1> QED BY <1>1, <1>2, AccessInputs DEF Accounted

LEMMA TakeKeeps ==
  ASSUME AccessInv, NEW d \in Admin, NEW call \in Calls, Take(d, call)
  PROVE  AccessInv'
<1>1. AccessTypeOK
  BY DEF AccessInv
<1>2. AccessTypeOK'
  BY <1>1, AccessInputs DEF AccessTypeOK, Take
<1>3. \A a \in Account : Accounted(a)
  BY <1>1, NothingHappened DEF Take
<1> QED BY <1>2, <1>3, AdministrationKeepsInv DEF Take

LEMMA RaiseRaises ==
  ASSUME AccessTypeOK, NEW affected, Raise(affected)
  PROVE  /\ accounts' \in [Account -> AccountRow]
         /\ \A a \in Account : /\ accounts'[a].roles = accounts[a].roles
                               /\ accounts[a].version <= accounts'[a].version
                               /\ a \notin affected => accounts'[a] = accounts[a]
                               /\ a \in affected => accounts'[a].version # accounts[a].version
<1> SUFFICES ASSUME NEW a \in Account
             PROVE  /\ accounts'[a] \in AccountRow
                    /\ accounts'[a].roles = accounts[a].roles
                    /\ accounts[a].version <= accounts'[a].version
                    /\ a \notin affected => accounts'[a] = accounts[a]
                    /\ a \in affected => accounts'[a].version # accounts[a].version
  BY DEF Raise
<1>1. accounts[a] \in AccountRow /\ accounts[a].version \in 0..MaxVersion
  BY RowsHaveTypes
<1>2. CASE a \in affected
  BY <1>1, <1>2, AccessInputs DEF Raise, AccountRow
<1>3. CASE a \notin affected
  BY <1>1, <1>3, AccessInputs DEF Raise
<1> QED BY <1>2, <1>3

LEMMA PermissionsKeep ==
  ASSUME AccessInv, NEW d \in Admin, set_role_permissions(d)
  PROVE  AccessInv'
<1> DEFINE call == desk[d]
<1>1. AccessTypeOK
  BY DEF AccessInv
<1>2. /\ call \in Calls /\ call.call = "permissions"
      /\ Raise(call.affected)
      /\ roles' = [roles EXCEPT ![call.role].codes = Merged(@, call.from, call.to)]
      /\ behind' = (behind \union Holders(call.role)) \ call.affected
      /\ desk' = [desk EXCEPT ![d] = NoCall]
      /\ UNCHANGED <<cached, asked, adminCalls, rewound>>
  BY <1>1 DEF set_role_permissions, AccessTypeOK
<1>3. call.role \in Role /\ call.from \in SUBSET Permission /\ call.to \in SUBSET Permission
  BY <1>2 DEF Calls, NoCall
<1> HIDE DEF call
<1>4. roles' \in [Role -> RoleRow]
      /\ \A r \in Role : /\ roles'[r].active = roles[r].active
                         /\ r # call.role => roles'[r].codes = roles[r].codes
  <2> SUFFICES ASSUME NEW r \in Role
               PROVE  /\ roles'[r] \in RoleRow /\ roles'[r].active = roles[r].active
                      /\ r # call.role => roles'[r].codes = roles[r].codes
    BY <1>1, <1>2 DEF AccessTypeOK
  <2>1. roles \in [Role -> RoleRow] /\ roles[r] \in RoleRow
    BY <1>1 DEF AccessTypeOK
  <2>2. CASE r # call.role
    BY <1>2, <2>1, <2>2
  <2>3. CASE r = call.role
    BY <1>2, <1>3, <2>1, <2>3 DEF Merged, RoleRow
  <2> QED BY <2>2, <2>3
<1>5. AccessTypeOK'
  <2>1. accounts' \in [Account -> AccountRow]
    BY <1>1, <1>2, RaiseRaises
  <2>2. behind' \subseteq Account
    BY <1>1, <1>2 DEF AccessTypeOK, Holders
  <2>3. desk' \in [Admin -> Calls]
    BY <1>1, <1>2 DEF AccessTypeOK, Calls
  <2> QED BY <1>1, <1>2, <1>4, <2>1, <2>2, <2>3 DEF AccessTypeOK
<1>6. ASSUME NEW a \in Account PROVE Accounted(a)
  <2>1. /\ accounts'[a].roles = accounts[a].roles /\ accounts[a].roles \subseteq Role
        /\ accounts[a].version <= accounts'[a].version
        /\ a \in call.affected => accounts'[a].version # accounts[a].version
    BY <1>1, <1>2, RaiseRaises, RowsHaveTypes
  <2>2. ASSUME a \notin behind', a \notin call.affected
        PROVE  /\ a \notin behind
               /\ active_roles(a)' = active_roles(a) /\ permission_codes(a)' = permission_codes(a)
    <3>1. a \notin behind /\ call.role \notin accounts[a].roles
      BY <1>2, <2>2 DEF Holders
    <3>2. \A r \in accounts[a].roles : roles'[r].active = roles[r].active /\ roles'[r].codes = roles[r].codes
      BY <1>4, <2>1, <3>1
    <3>3. accounts'[a].roles = accounts[a].roles
      BY <2>1
    <3>4. active_roles(a)' = active_roles(a) /\ permission_codes(a)' = permission_codes(a)
      BY <3>2, <3>3, SameCodes
    <3> QED BY <3>1, <3>4
  <2> QED BY <1>2, <2>1, <2>2 DEF Accounted
<1> QED BY <1>2, <1>5, <1>6, AdministrationKeepsInv

LEMMA MenusKeep ==
  ASSUME AccessInv, NEW d \in Admin, set_role_menus(d)
  PROVE  AccessInv'
<1> DEFINE call == desk[d]
<1>1. AccessTypeOK
  BY DEF AccessInv
<1>2. /\ Raise(call.affected)
      /\ behind' = behind \ call.affected
      /\ desk' = [desk EXCEPT ![d] = NoCall]
      /\ UNCHANGED <<roles, cached, asked, adminCalls, rewound>>
  BY <1>1 DEF set_role_menus
<1> HIDE DEF call
<1>3. AccessTypeOK'
  <2>1. accounts' \in [Account -> AccountRow]
    BY <1>1, <1>2, RaiseRaises
  <2>2. desk' \in [Admin -> Calls]
    BY <1>1, <1>2 DEF AccessTypeOK, Calls
  <2> QED BY <1>1, <1>2, <2>1, <2>2 DEF AccessTypeOK
<1>4. ASSUME NEW a \in Account PROVE Accounted(a)
  <2>1. /\ accounts'[a].roles = accounts[a].roles
        /\ accounts[a].version <= accounts'[a].version
        /\ a \in call.affected => accounts'[a].version # accounts[a].version
    BY <1>1, <1>2, RaiseRaises
  <2>2. active_roles(a)' = active_roles(a) /\ permission_codes(a)' = permission_codes(a)
    BY <1>2, <2>1, SameCodes
  <2> QED BY <1>2, <2>1, <2>2 DEF Accounted
<1> QED BY <1>2, <1>3, <1>4, AdministrationKeepsInv

LEMMA AssignmentKeeps ==
  ASSUME AccessInv, NEW d \in Admin, assign_user_roles(d)
  PROVE  AccessInv'
<1> DEFINE call == desk[d]
           b == call.account
<1>1. AccessTypeOK
  BY DEF AccessInv
<1>2. /\ call \in Calls /\ call.call = "roles" /\ accounts[b].version < MaxVersion
      /\ accounts' = [accounts EXCEPT ![b].roles = Merged(@, call.from, call.to),
                                      ![b].version = @ + 1]
      /\ behind' = behind \ {b}
      /\ desk' = [desk EXCEPT ![d] = NoCall]
      /\ UNCHANGED <<roles, cached, asked, adminCalls, rewound>>
  BY <1>1 DEF assign_user_roles, AccessTypeOK
<1>3. b \in Account /\ call.from \in SUBSET Role /\ call.to \in SUBSET Role
  BY <1>2 DEF Calls, NoCall
<1>4. accounts[b] \in AccountRow /\ accounts[b].version \in 0..MaxVersion
  BY <1>1, <1>3, RowsHaveTypes
<1> HIDE DEF call, b
<1>5. \A a \in Account : a # b => accounts'[a] = accounts[a]
  BY <1>1, <1>2 DEF AccessTypeOK
<1>6. accounts'[b] \in AccountRow /\ accounts'[b].version = accounts[b].version + 1
  <2>1. accounts'[b] = [accounts[b] EXCEPT !.roles = Merged(@, call.from, call.to), !.version = @ + 1]
    BY <1>1, <1>2, <1>3 DEF AccessTypeOK
  <2>2. Merged(accounts[b].roles, call.from, call.to) \in SUBSET Role
    BY <1>3, <1>4 DEF AccountRow, Merged
  <2>3. accounts[b].version + 1 \in 0..MaxVersion
    BY <1>2, <1>4, AccessInputs
  <2> QED BY <1>4, <2>1, <2>2, <2>3 DEF AccountRow
<1>7. AccessTypeOK'
  <2>1. accounts' \in [Account -> AccountRow]
    <3>1. \A a \in Account : accounts'[a] \in AccountRow
      BY <1>1, <1>5, <1>6, RowsHaveTypes
    <3>2. accounts' = [a \in Account |-> accounts'[a]]
      BY <1>1, <1>2 DEF AccessTypeOK
    <3> QED BY <3>1, <3>2
  <2>2. desk' \in [Admin -> Calls]
    BY <1>1, <1>2 DEF AccessTypeOK, Calls
  <2> QED BY <1>1, <1>2, <2>1, <2>2 DEF AccessTypeOK
<1>8. ASSUME NEW a \in Account PROVE Accounted(a)
  <2>1. accounts[a].version \in Nat
    BY <1>1, RowsHaveTypes, AccessInputs
  <2>2. CASE a = b
    BY <1>2, <1>6, <2>1, <2>2 DEF Accounted
  <2>3. CASE a # b
    <3>1. accounts'[a] = accounts[a]
      BY <1>5, <2>3
    <3>2. active_roles(a)' = active_roles(a) /\ permission_codes(a)' = permission_codes(a)
      BY <1>2, <3>1, SameCodes
    <3> QED BY <1>2, <2>1, <2>3, <3>1, <3>2 DEF Accounted
  <2> QED BY <2>2, <2>3
<1> QED BY <1>2, <1>7, <1>8, AdministrationKeepsInv

LEMMA RoleFormKeeps ==
  ASSUME AccessInv, NEW d \in Admin, update_role(d)
  PROVE  AccessInv'
<1> DEFINE call == desk[d]
<1>1. AccessTypeOK
  BY DEF AccessInv
<1>2. /\ call \in Calls /\ call.call = "role_form"
      /\ roles' = [roles EXCEPT ![call.role].active = call.active]
      /\ behind' = IF call.active = roles[call.role].active THEN behind
                   ELSE behind \union Holders(call.role)
      /\ desk' = [desk EXCEPT ![d] = NoCall]
      /\ UNCHANGED <<accounts, cached, asked, adminCalls, rewound>>
  BY <1>1 DEF update_role, AccessTypeOK
<1>3. call.role \in Role /\ call.active \in BOOLEAN
  BY <1>2 DEF Calls, NoCall
<1> HIDE DEF call
<1>4. roles' \in [Role -> RoleRow]
      /\ \A r \in Role : /\ roles'[r].codes = roles[r].codes
                         /\ r # call.role \/ call.active = roles[call.role].active
                            => roles'[r].active = roles[r].active
  <2> SUFFICES ASSUME NEW r \in Role
               PROVE  /\ roles'[r] \in RoleRow /\ roles'[r].codes = roles[r].codes
                      /\ r # call.role \/ call.active = roles[call.role].active
                         => roles'[r].active = roles[r].active
    BY <1>1, <1>2 DEF AccessTypeOK
  <2>1. roles \in [Role -> RoleRow] /\ roles[r] \in RoleRow
    BY <1>1 DEF AccessTypeOK
  <2>2. CASE r # call.role
    BY <1>2, <2>1, <2>2
  <2>3. CASE r = call.role
    <3>1. roles'[r] = [roles[r] EXCEPT !.active = call.active]
      BY <1>2, <1>3, <2>1, <2>3
    <3>2. roles'[r] \in RoleRow
      BY <1>3, <2>1, <3>1 DEF RoleRow
    <3>3. roles'[r].codes = roles[r].codes /\ roles'[r].active = call.active
      BY <2>1, <3>1 DEF RoleRow
    <3> QED BY <2>3, <3>2, <3>3
  <2> QED BY <2>2, <2>3
<1>5. AccessTypeOK'
  <2>1. behind' \subseteq Account
    BY <1>1, <1>2 DEF AccessTypeOK, Holders
  <2>2. desk' \in [Admin -> Calls]
    BY <1>1, <1>2 DEF AccessTypeOK, Calls
  <2> QED BY <1>1, <1>2, <1>4, <2>1, <2>2 DEF AccessTypeOK
<1>6. ASSUME NEW a \in Account PROVE Accounted(a)
  <2>1. accounts[a].version \in Nat /\ accounts[a].roles \subseteq Role
    BY <1>1, RowsHaveTypes, AccessInputs
  <2>2. ASSUME a \notin behind'
        PROVE  /\ a \notin behind
               /\ active_roles(a)' = active_roles(a) /\ permission_codes(a)' = permission_codes(a)
    <3>1. a \notin behind
      BY <1>2, <2>2
    <3>2. call.role \notin accounts[a].roles \/ call.active = roles[call.role].active
      BY <1>2, <2>2 DEF Holders
    <3>3. \A r \in accounts[a].roles : roles'[r].active = roles[r].active /\ roles'[r].codes = roles[r].codes
      BY <1>4, <2>1, <3>2
    <3> QED BY <1>2, <3>1, <3>3, SameCodes
  <2> QED BY <1>2, <2>1, <2>2 DEF Accounted
<1> QED BY <1>2, <1>5, <1>6, AdministrationKeepsInv

LEMMA AccountFormKeeps ==
  ASSUME AccessInv, NEW d \in Admin, update_user(d)
  PROVE  AccessInv'
<1> DEFINE call == desk[d]
           b == call.account
<1>1. AccessTypeOK
  BY DEF AccessInv
<1>2. /\ call \in Calls /\ call.call = "account_form"
      /\ accounts' = [accounts EXCEPT ![b].version = call.row.version, ![b].active = call.row.active]
      /\ rewound' = IF call.row.version = accounts[b].version THEN rewound ELSE rewound \union {b}
      /\ desk' = [desk EXCEPT ![d] = NoCall]
      /\ UNCHANGED <<roles, cached, asked, adminCalls, behind>>
  BY <1>1 DEF update_user, AccessTypeOK
<1>3. b \in Account /\ call.row \in AccountRow
  BY <1>2 DEF Calls, NoCall
<1>4. accounts[b] \in AccountRow
  BY <1>1, <1>3, RowsHaveTypes
<1> HIDE DEF call, b
<1>5. \A a \in Account : a # b => accounts'[a] = accounts[a]
  BY <1>1, <1>2 DEF AccessTypeOK
<1>6. /\ accounts'[b] \in AccountRow /\ accounts'[b].roles = accounts[b].roles
      /\ accounts'[b].version = call.row.version
  <2>1. accounts'[b] = [accounts[b] EXCEPT !.version = call.row.version, !.active = call.row.active]
    BY <1>1, <1>2, <1>3 DEF AccessTypeOK
  <2> QED BY <1>3, <1>4, <2>1 DEF AccountRow
<1>7. AccessTypeOK'
  <2>1. accounts' \in [Account -> AccountRow]
    <3>1. \A a \in Account : accounts'[a] \in AccountRow
      BY <1>1, <1>5, <1>6, RowsHaveTypes
    <3>2. accounts' = [a \in Account |-> accounts'[a]]
      BY <1>1, <1>2 DEF AccessTypeOK
    <3> QED BY <3>1, <3>2
  <2>2. desk' \in [Admin -> Calls] /\ rewound' \subseteq Account
    BY <1>1, <1>2, <1>3 DEF AccessTypeOK, Calls
  <2> QED BY <1>1, <1>2, <2>1, <2>2 DEF AccessTypeOK
<1>8. ASSUME NEW a \in Account PROVE Accounted(a)
  <2>1. accounts[a].version \in Nat
    BY <1>1, RowsHaveTypes, AccessInputs
  <2>2. accounts'[a].roles = accounts[a].roles
    BY <1>5, <1>6
  <2>3. active_roles(a)' = active_roles(a) /\ permission_codes(a)' = permission_codes(a)
    BY <1>2, <2>2, SameCodes
  <2>4. a \notin rewound' => a \notin rewound /\ accounts'[a].version = accounts[a].version
    BY <1>2, <1>5, <1>6
  <2> QED BY <1>2, <2>1, <2>3, <2>4 DEF Accounted
<1> QED BY <1>2, <1>7, <1>8, AdministrationKeepsInv

LEMMA SwitchKeeps ==
  ASSUME AccessInv, NEW b \in Account, NEW active \in BOOLEAN, set_user_active(b, active)
  PROVE  AccessInv'
<1>1. AccessTypeOK
  BY DEF AccessInv
<1>2. /\ accounts' = [accounts EXCEPT ![b].active = active]
      /\ adminCalls' \in 0..MaxAdminCalls
      /\ UNCHANGED <<roles, cached, desk, asked, behind, rewound>>
  BY <1>1, AccessInputs DEF set_user_active, AccessTypeOK
<1>3. \A a \in Account : /\ accounts'[a] \in AccountRow /\ accounts'[a].roles = accounts[a].roles
                         /\ accounts'[a].version = accounts[a].version
  <2> SUFFICES ASSUME NEW a \in Account
               PROVE  /\ accounts'[a] \in AccountRow /\ accounts'[a].roles = accounts[a].roles
                      /\ accounts'[a].version = accounts[a].version
    OBVIOUS
  <2>1. accounts[a] \in AccountRow
    BY <1>1, RowsHaveTypes
  <2>2. CASE a # b
    BY <1>1, <1>2, <2>1, <2>2 DEF AccessTypeOK
  <2>3. CASE a = b
    <3>1. accounts'[a] = [accounts[a] EXCEPT !.active = active]
      BY <1>1, <1>2, <2>3 DEF AccessTypeOK
    <3> QED BY <2>1, <3>1 DEF AccountRow
  <2> QED BY <2>2, <2>3
<1>4. AccessTypeOK'
  <2>1. accounts' = [a \in Account |-> accounts'[a]]
    BY <1>1, <1>2 DEF AccessTypeOK
  <2>2. accounts' \in [Account -> AccountRow]
    BY <1>3, <2>1
  <2> QED BY <1>1, <1>2, <2>2 DEF AccessTypeOK
<1>5. \A a \in Account : Accounted(a)
  BY <1>1, <1>2, <1>3, NothingHappened
<1> QED BY <1>2, <1>4, <1>5, AdministrationKeepsInv

\* A request's step, which changes the cache and what the request knows.
LEMMA ReadingKeepsInv ==
  ASSUME AccessInv, NEW p \in Reader, NEW r \in Requests, asked' = [asked EXCEPT ![p] = r],
         UNCHANGED <<accounts, roles, desk, adminCalls, behind, rewound>>,
         cached' \subseteq Entry,
         \A e \in cached' \ cached :
           /\ e.account \notin rewound => e.version <= accounts[e.account].version
           /\ e.version = accounts[e.account].version /\ e.account \notin behind \union rewound
              => e.codes = permission_codes(e.account),
         r.stage # "none" /\ r.account \notin rewound => r.version <= accounts[r.account].version,
         r.stage \in {"roles", "codes"} /\ r.version = accounts[r.account].version
           /\ r.account \notin behind \union rewound
         => /\ r.stage = "roles" => r.roles = active_roles(r.account)
            /\ r.stage = "codes" => r.codes = permission_codes(r.account)
  PROVE  AccessInv'
<1>1. AccessTypeOK /\ VersionsArePast /\ CachedCodesAreCurrent
  BY DEF AccessInv
<1>2. AccessTypeOK'
  BY <1>1 DEF AccessTypeOK
<1>3. \A q \in Reader : asked'[q] = IF q = p THEN r ELSE asked[q]
  BY <1>1 DEF AccessTypeOK
<1>4. VersionsArePast'
  <2>1. ASSUME NEW e \in cached', e.account \notin rewound
        PROVE  e.version <= accounts[e.account].version
    BY <1>1, <2>1 DEF VersionsArePast
  <2>2. ASSUME NEW q \in Reader, asked'[q].stage # "none", asked'[q].account \notin rewound
        PROVE  asked'[q].version <= accounts[asked'[q].account].version
    <3>1. CASE q = p
      BY <1>3, <2>2, <3>1
    <3>2. CASE q # p
      BY <1>1, <1>3, <2>2, <3>2 DEF VersionsArePast
    <3> QED BY <3>1, <3>2
  <2> QED BY <2>1, <2>2 DEF VersionsArePast
<1>5. \A a : permission_codes(a)' = permission_codes(a) /\ active_roles(a)' = active_roles(a)
  BY DEF permission_codes, active_roles, CodesOf
<1>6. CachedCodesAreCurrent'
  <2> SUFFICES ASSUME NEW e \in cached', e.version = accounts[e.account].version,
                      e.account \notin behind \union rewound
               PROVE  e.codes = permission_codes(e.account)'
    BY DEF CachedCodesAreCurrent
  <2>1. e.codes = permission_codes(e.account)
    BY <1>1 DEF CachedCodesAreCurrent
  <2> QED BY <1>5, <2>1
<1>7. ASSUME NEW q \in Reader PROVE KnowsRoles(q)' /\ KnowsCodes(q)'
  <2>1. CASE q = p
    BY <1>3, <1>5, <2>1 DEF KnowsRoles, KnowsCodes
  <2>2. CASE q # p
    <3>1. KnowsRoles(q) /\ KnowsCodes(q) /\ asked'[q] = asked[q]
      BY <1>3, <2>2 DEF AccessInv
    <3> QED BY <1>5, <3>1 DEF KnowsRoles, KnowsCodes
  <2> QED BY <2>1, <2>2
<1> QED BY <1>2, <1>4, <1>6, <1>7 DEF AccessInv

LEMMA ReadersKeep ==
  ASSUME AccessInv, NEW q \in Reader
  PROVE  /\ \A a \in Account : LoadAccount(q, a) => AccessInv'
         /\ UseCached(q) \/ ReadRoles(q) \/ ReadCodes(q) \/ FillCache(q) => AccessInv'
<1>1. AccessTypeOK /\ VersionsArePast /\ KnowsRoles(q) /\ KnowsCodes(q) /\ cached \subseteq Entry
  BY DEF AccessInv, AccessTypeOK
<1>2. NoRequest \in Requests /\ NoRequest.stage = "none"
  BY DEF Requests, NoRequest
<1>3. ASSUME NEW a \in Account, LoadAccount(q, a) PROVE AccessInv'
  <2> DEFINE r == [stage |-> "loaded", account |-> a, version |-> accounts[a].version]
  <2>1. accounts[a].version \in 0..MaxVersion
    BY <1>1, RowsHaveTypes
  <2>2. r \in Requests /\ r.stage = "loaded" /\ r.version <= accounts[r.account].version
    BY <2>1, AccessInputs DEF Requests
  <2>3. asked' = [asked EXCEPT ![q] = r] /\ UNCHANGED <<accounts, roles, cached, desk, adminCalls, behind, rewound>>
    BY <1>3 DEF LoadAccount
  <2> HIDE DEF r
  <2> QED BY <1>1, <2>2, <2>3, ReadingKeepsInv
<1>4. ASSUME UseCached(q) PROVE AccessInv'
  <2>1. asked' = [asked EXCEPT ![q] = NoRequest] /\ UNCHANGED <<accounts, roles, cached, desk, adminCalls, behind, rewound>>
    BY <1>4 DEF UseCached
  <2> QED BY <1>1, <1>2, <2>1, ReadingKeepsInv
<1> DEFINE b == asked[q].account
           v == asked[q].version
<1>5. ASSUME asked[q].stage # "none"
      PROVE  b \in Account /\ v \in 0..MaxVersion /\ (b \notin rewound => v <= accounts[b].version)
  BY <1>1, <1>5, AskedHasAccount DEF VersionsArePast
<1>6. ASSUME ReadRoles(q) PROVE AccessInv'
  <2> DEFINE r == [stage |-> "roles", account |-> b, version |-> v, roles |-> active_roles(b)]
  <2>1. asked[q].stage = "loaded" /\ asked' = [asked EXCEPT ![q] = r]
        /\ UNCHANGED <<accounts, roles, cached, desk, adminCalls, behind, rewound>>
    BY <1>6 DEF ReadRoles
  <2>2. b \in Account /\ v \in 0..MaxVersion /\ (b \notin rewound => v <= accounts[b].version)
    BY <1>5, <2>1
  <2>3. active_roles(b) \in SUBSET Role
    BY <1>1, <2>2, RowsHaveTypes DEF active_roles
  <2>4. r \in Requests
    BY <2>2, <2>3 DEF Requests
  <2>5. r.stage = "roles" /\ r.account = b /\ r.version = v /\ r.roles = active_roles(b)
    OBVIOUS
  <2> HIDE DEF r, b, v
  <2> QED BY <1>1, <2>1, <2>2, <2>4, <2>5, ReadingKeepsInv
<1>7. ASSUME ReadCodes(q) PROVE AccessInv'
  <2> DEFINE held == asked[q].roles
             r == [stage |-> "codes", account |-> b, version |-> v, codes |-> CodesOf(held)]
  <2>1. asked[q].stage = "roles" /\ asked' = [asked EXCEPT ![q] = r]
        /\ UNCHANGED <<accounts, roles, cached, desk, adminCalls, behind, rewound>>
    BY <1>7 DEF ReadCodes
  <2>2. /\ b \in Account /\ v \in 0..MaxVersion /\ (b \notin rewound => v <= accounts[b].version)
        /\ held \in SUBSET Role
    BY <1>1, <1>5, <2>1, AskedHasAccount
  <2>3. CodesOf(held) \in SUBSET Permission
    BY <1>1, <2>2, RowsHaveTypes DEF CodesOf
  <2>4. r \in Requests
    BY <2>2, <2>3 DEF Requests
  <2>5. v = accounts[b].version /\ b \notin behind \union rewound => CodesOf(held) = permission_codes(b)
    BY <1>1, <2>1 DEF KnowsRoles, permission_codes
  <2>6. r.stage = "codes" /\ r.account = b /\ r.version = v /\ r.codes = CodesOf(held)
    OBVIOUS
  <2> HIDE DEF r, b, v, held
  <2> QED BY <1>1, <2>1, <2>2, <2>4, <2>5, <2>6, ReadingKeepsInv
<1>8. ASSUME FillCache(q) PROVE AccessInv'
  <2> DEFINE new == [account |-> b, version |-> v, codes |-> asked[q].codes]
  <2>1. /\ asked[q].stage = "codes" /\ asked' = [asked EXCEPT ![q] = NoRequest]
        /\ UNCHANGED <<accounts, roles, desk, adminCalls, behind, rewound>>
        /\ cached' \subseteq cached \union {new}
    BY <1>8 DEF FillCache
  <2>2. /\ b \in Account /\ v \in 0..MaxVersion /\ (b \notin rewound => v <= accounts[b].version)
        /\ asked[q].codes \in SUBSET Permission
    BY <1>1, <1>5, <2>1, AskedHasAccount
  <2>3. v = accounts[b].version /\ b \notin behind \union rewound => asked[q].codes = permission_codes(b)
    BY <1>1, <2>1 DEF KnowsCodes
  <2>4. new \in Entry /\ new.account = b /\ new.version = v /\ new.codes = asked[q].codes
    BY <2>2 DEF Entry
  <2> HIDE DEF new, b, v
  <2>5. cached' \subseteq Entry
    BY <1>1, <2>1, <2>4
  <2>6. \A e \in cached' \ cached :
          /\ e.account \notin rewound => e.version <= accounts[e.account].version
          /\ e.version = accounts[e.account].version /\ e.account \notin behind \union rewound
             => e.codes = permission_codes(e.account)
    BY <2>1, <2>2, <2>3, <2>4
  <2> QED BY <1>2, <2>1, <2>5, <2>6, ReadingKeepsInv
<1> QED BY <1>3, <1>4, <1>6, <1>7, <1>8

LEMMA ForgettingKeeps ==
  ASSUME AccessInv, NEW e \in cached, ForgetEntry(e)
  PROVE  AccessInv'
<1>1. /\ cached' \subseteq cached
      /\ UNCHANGED <<accounts, roles, desk, asked, adminCalls, behind, rewound>>
  BY DEF ForgetEntry
<1>2. AccessTypeOK' /\ VersionsArePast'
  BY <1>1 DEF AccessInv, AccessTypeOK, VersionsArePast
<1>3. \A a : permission_codes(a)' = permission_codes(a) /\ active_roles(a)' = active_roles(a)
  BY <1>1 DEF permission_codes, active_roles, CodesOf
<1>4. CachedCodesAreCurrent'
  BY <1>1, <1>3 DEF AccessInv, CachedCodesAreCurrent
<1>5. ASSUME NEW q \in Reader PROVE KnowsRoles(q)' /\ KnowsCodes(q)'
  <2>1. KnowsRoles(q) /\ KnowsCodes(q)
    BY DEF AccessInv
  <2> QED BY <1>1, <1>3, <2>1 DEF KnowsRoles, KnowsCodes
<1> QED BY <1>2, <1>4, <1>5 DEF AccessInv

LEMMA BeginningsKeep ==
  ASSUME AccessInv, NEW d \in Admin
  PROVE  /\ \A r \in Role : BeginSetPermissions(d, r) \/ BeginSetMenus(d, r) \/ BeginUpdateRole(d, r)
                            => AccessInv'
         /\ \A a \in Account : BeginAssignRoles(d, a) \/ BeginUpdateAccount(d, a) => AccessInv'
<1>1. AccessTypeOK
  BY DEF AccessInv
<1>2. \A call \in Calls : Take(d, call) => AccessInv'
  BY TakeKeeps
<1>3. ASSUME NEW r \in Role PROVE /\ Holders(r) \in SUBSET Account
                                  /\ roles[r].codes \in SUBSET Permission
  BY <1>1, RowsHaveTypes DEF Holders
<1>4. ASSUME NEW r \in Role, NEW to \in SUBSET Permission
      PROVE  [call |-> "permissions", role |-> r, from |-> roles[r].codes, to |-> to,
              affected |-> Holders(r)] \in Calls
  BY <1>3 DEF Calls
<1>5. ASSUME NEW r \in Role PROVE [call |-> "menus", role |-> r, affected |-> Holders(r)] \in Calls
  BY <1>3 DEF Calls
<1>6. ASSUME NEW r \in Role, NEW active \in BOOLEAN
      PROVE  [call |-> "role_form", role |-> r, active |-> active] \in Calls
  BY DEF Calls
<1>7. ASSUME NEW a \in Account, NEW to \in SUBSET Role
      PROVE  [call |-> "roles", account |-> a, from |-> accounts[a].roles, to |-> to] \in Calls
  BY <1>1, RowsHaveTypes DEF Calls
<1>8. ASSUME NEW a \in Account PROVE [call |-> "account_form", account |-> a, row |-> accounts[a]] \in Calls
  BY <1>1, RowsHaveTypes DEF Calls
<1>9. ASSUME NEW r \in Role, BeginSetPermissions(d, r) PROVE AccessInv'
  BY <1>2, <1>4, <1>9 DEF BeginSetPermissions
<1>10. ASSUME NEW r \in Role, BeginSetMenus(d, r) PROVE AccessInv'
  BY <1>2, <1>5, <1>10 DEF BeginSetMenus
<1>11. ASSUME NEW r \in Role, BeginUpdateRole(d, r) PROVE AccessInv'
  BY <1>2, <1>6, <1>11 DEF BeginUpdateRole
<1>12. ASSUME NEW a \in Account, BeginAssignRoles(d, a) PROVE AccessInv'
  <2>1. PICK to \in SUBSET {r \in Role : roles[r].active} :
          Take(d, [call |-> "roles", account |-> a, from |-> accounts[a].roles, to |-> to])
    BY <1>12 DEF BeginAssignRoles
  <2>2. to \in SUBSET Role
    OBVIOUS
  <2> QED BY <1>2, <1>7, <2>1, <2>2
<1>13. ASSUME NEW a \in Account, BeginUpdateAccount(d, a) PROVE AccessInv'
  BY <1>2, <1>8, <1>13 DEF BeginUpdateAccount
<1> QED BY <1>9, <1>10, <1>11, <1>12, <1>13

LEMMA AccessStart == AccessInit => AccessInv
<1> SUFFICES ASSUME AccessInit PROVE AccessInv
  OBVIOUS
<1>1. \A q \in Reader : asked[q] = NoRequest /\ asked[q].stage = "none"
  BY DEF AccessInit, NoRequest
<1>2. accounts \in [Account -> AccountRow]
  <2> DEFINE new == {[roles |-> held, version |-> 0, active |-> TRUE] : held \in SUBSET Role}
  <2>1. \A held \in SUBSET Role : [roles |-> held, version |-> 0, active |-> TRUE] \in AccountRow
    BY AccessInputs DEF AccountRow
  <2>2. new \subseteq AccountRow
    BY <2>1, Zenon
  <2>3. accounts \in [Account -> new]
    BY DEF AccessInit
  <2> QED BY <2>2, <2>3
<1>3. roles \in [Role -> RoleRow]
  <2> DEFINE new == {[active |-> TRUE, codes |-> granted] : granted \in SUBSET Permission}
  <2>1. \A granted \in SUBSET Permission : [active |-> TRUE, codes |-> granted] \in RoleRow
    BY DEF RoleRow
  <2>2. new \subseteq RoleRow
    BY <2>1, Zenon
  <2>3. roles \in [Role -> new]
    BY DEF AccessInit
  <2> QED BY <2>2, <2>3
<1>4. asked \in [Reader -> Requests] /\ desk \in [Admin -> Calls]
  BY DEF AccessInit, Requests, Calls
<1>5. AccessTypeOK
  BY <1>2, <1>3, <1>4, AccessInputs DEF AccessInit, AccessTypeOK
<1> QED BY <1>1, <1>5 DEF AccessInit, AccessInv, VersionsArePast, CachedCodesAreCurrent, KnowsRoles, KnowsCodes

LEMMA AccessStep == AccessInv /\ [AccessNext]_accessVars => AccessInv'
<1> SUFFICES ASSUME AccessInv, [AccessNext]_accessVars PROVE AccessInv'
  OBVIOUS
<1>1. ASSUME ReaderNext PROVE AccessInv'
  BY <1>1, ReadersKeep, ForgettingKeeps DEF ReaderNext
<1>2. ASSUME AdminNext PROVE AccessInv'
  <2>1. ASSUME NEW d \in Admin, NEW r \in Role,
               BeginSetPermissions(d, r) \/ BeginSetMenus(d, r) \/ BeginUpdateRole(d, r)
        PROVE  AccessInv'
    BY <2>1, BeginningsKeep
  <2>2. ASSUME NEW d \in Admin, NEW a \in Account, BeginAssignRoles(d, a) \/ BeginUpdateAccount(d, a)
        PROVE  AccessInv'
    BY <2>2, BeginningsKeep
  <2>3. ASSUME NEW d \in Admin, \/ set_role_permissions(d) \/ set_role_menus(d) \/ assign_user_roles(d)
                                \/ update_role(d) \/ update_user(d)
        PROVE  AccessInv'
    BY <2>3, PermissionsKeep, MenusKeep, AssignmentKeeps, RoleFormKeeps, AccountFormKeeps
  <2>4. ASSUME NEW a \in Account, NEW active \in BOOLEAN, set_user_active(a, active)
        PROVE  AccessInv'
    BY <2>4, SwitchKeeps
  <2> QED BY <1>2, <2>1, <2>2, <2>3, <2>4 DEF AdminNext
<1>3. ASSUME UNCHANGED accessVars PROVE AccessInv'
  <2>1. UNCHANGED <<accounts, roles, cached, desk, asked, adminCalls, behind, rewound>>
    BY <1>3 DEF accessVars
  <2>2. AccessTypeOK'
    BY <2>1 DEF AccessInv, AccessTypeOK
  <2>3. AccessTypeOK
    BY DEF AccessInv
  <2>4. \A a \in Account : Accounted(a)
    BY <2>1, <2>3, NothingHappened
  <2> QED BY <2>1, <2>2, <2>4, AdministrationKeepsInv
<1> QED BY <1>1, <1>2, <1>3 DEF AccessNext

\* identity/models.py:191, User.permission_codes: the codes cached under the version an
\* account has are those its active roles grant it, whatever administrators commit
\* between a request's reads of the account, its roles and their codes.
THEOREM CachedCodesStayCurrent == AccessSpec => []CachedCodesAreCurrent
<1>1. AccessInv => CachedCodesAreCurrent
  BY DEF AccessInv
<1> QED BY <1>1, AccessStart, AccessStep, PTL DEF AccessSpec

(***************************************************************************)
(* Pages.                                                                  *)
(***************************************************************************)

\* Loads and writes have all their parts.
IsAnswer(l) ==
  l \in [n : Nat, query : {l.query}, served : BOOLEAN, failed : BOOLEAN, fresh : BOOLEAN,
         rows : {l.rows}]

IsWrite(w) ==
  w = [n |-> w.n, kind |-> w.kind, row |-> w.row, value |-> w.value, stage |-> w.stage]

PagesShaped ==
  /\ begun \in Nat /\ IsAnswer(shown)
  /\ \A l \in loads : IsAnswer(l) /\ ~ l.failed
  /\ \A w \in writes : IsWrite(w)

AWriteIsDone == \E w \in writes : w.stage = "done"

\* What the newest load is told is what was asked for, and what the table says until a
\* write was carried out.
Tells(l) ==
  /\ l.n <= begun
  /\ l.n = begun => l.query = query
  /\ l.n = begun /\ l.fresh /\ ~ l.failed => l.rows = table \/ AWriteIsDone

PagesInv ==
  /\ PagesShaped
  /\ \A l \in loads \union {shown} : Tells(l)
  /\ shown.failed => message \/ loads # {}

LEMMA PagesInitInv == PagesInit => PagesInv
BY DEF PagesInit, PagesInv, PagesShaped, IsAnswer, Tells, NewLoad

\* A load that begins is the newest.
LEMMA LoadKeeps ==
  ASSUME PagesInv, NEW times \in {1, 2}, Load(query', times), UNCHANGED <<table, shown>>,
         \A w \in writes' : IsWrite(w)
  PROVE  PagesInv'
<1>1. begun' = begun + times /\ begun \in Nat /\ message' = FALSE
      /\ loads' = loads \union {NewLoad(begun + i, query') : i \in 1..times}
  BY DEF Load, PagesInv, PagesShaped
<1>2. \A l \in loads' \ loads : \E i \in 1..times : l = NewLoad(begun + i, query')
  BY <1>1
<1>3. \A l \in loads' \ loads :
        /\ IsAnswer(l) /\ ~ l.failed /\ ~ l.fresh /\ l.query = query'
        /\ l.n \in Nat /\ l.n <= begun'
  <2> SUFFICES ASSUME NEW l \in loads' \ loads
               PROVE  /\ IsAnswer(l) /\ ~ l.failed /\ ~ l.fresh /\ l.query = query'
                      /\ l.n \in Nat /\ l.n <= begun'
    OBVIOUS
  <2>1. PICK i \in 1..times : l = NewLoad(begun + i, query')
    BY <1>2
  <2>2. begun + i \in Nat /\ begun + i <= begun'
    BY <1>1
  <2> QED BY <2>1, <2>2 DEF NewLoad, IsAnswer
<1>4. PagesShaped'
  BY <1>1, <1>3 DEF PagesInv, PagesShaped, IsAnswer
<1>5. \A l \in loads \union {shown} : l.n \in Nat /\ l.n < begun'
  BY <1>1 DEF PagesInv, PagesShaped, IsAnswer, Tells
<1>6. \A l \in loads' \union {shown'} : Tells(l)'
  BY <1>1, <1>3, <1>5 DEF Tells
<1>7. NewLoad(begun + 1, query') \in loads'
  BY <1>1
<1> QED BY <1>4, <1>6, <1>7 DEF PagesInv

\* A step that begins no load and writes nothing, or tells.
LEMMA WritesKeep ==
  ASSUME PagesInv, UNCHANGED <<table, query, begun, loads, shown, message>>,
         \A w \in writes' : IsWrite(w), AWriteIsDone => AWriteIsDone'
  PROVE  PagesInv'
BY DEF PagesInv, PagesShaped, Tells

\* What was told before another's change is not fresh any more.
LEMMA OutdatedKeeps ==
  ASSUME PagesInv, Outdated, UNCHANGED <<query, begun, message>>, \A w \in writes' : IsWrite(w)
  PROVE  PagesInv'
<1>1. \A l : IsAnswer(l) =>
        LET o == [l EXCEPT !.fresh = FALSE]
        IN  IsAnswer(o) /\ ~ o.fresh /\ o.n = l.n /\ o.query = l.query /\ o.failed = l.failed
  BY DEF IsAnswer
<1>2. shown' = [shown EXCEPT !.fresh = FALSE] /\ \A l \in loads' : \E o \in loads : l = [o EXCEPT !.fresh = FALSE]
  BY DEF Outdated
<1>3. IsAnswer(shown) /\ \A l \in loads : IsAnswer(l)
  BY DEF PagesInv, PagesShaped
<1>4. /\ IsAnswer(shown') /\ ~ shown'.fresh /\ shown'.n = shown.n
      /\ shown'.query = shown.query /\ shown'.failed = shown.failed
  BY <1>1, <1>2, <1>3
<1>5. \A l \in loads' : IsAnswer(l) /\ ~ l.fresh
        /\ \E o \in loads : l.n = o.n /\ l.query = o.query /\ l.failed = o.failed
  <2> SUFFICES ASSUME NEW l \in loads'
               PROVE  /\ IsAnswer(l) /\ ~ l.fresh
                      /\ \E o \in loads : l.n = o.n /\ l.query = o.query /\ l.failed = o.failed
    OBVIOUS
  <2>1. PICK o \in loads : l = [o EXCEPT !.fresh = FALSE]
    BY <1>2
  <2>2. IsAnswer(o)
    BY <1>3
  <2> QED BY <1>1, <2>1, <2>2
<1>6. PagesShaped'
  BY <1>4, <1>5 DEF PagesInv, PagesShaped, IsAnswer
<1>7. \A l \in loads' \union {shown'} : Tells(l)'
  BY <1>4, <1>5 DEF PagesInv, Tells
<1>8. shown'.failed => message' \/ loads' # {}
  <2>1. loads # {} => loads' # {}
    BY DEF Outdated
  <2> QED BY <1>4, <2>1 DEF PagesInv
<1> QED BY <1>6, <1>7, <1>8 DEF PagesInv

LEMMA ServeKeeps ==
  ASSUME PagesInv, NEW l \in loads, Serve(l) \/ ReceiveRows(l) \/ FailToLoad(l)
  PROVE  PagesInv'
<1>0. IsAnswer(l) /\ ~ l.failed /\ Tells(l)
  BY DEF PagesInv, PagesShaped
<1>1. CASE Serve(l)
  <2> DEFINE new == [l EXCEPT !.served = TRUE, !.fresh = TRUE, !.rows = table]
  <2>1. IsAnswer(new) /\ ~ new.failed /\ new.n = l.n /\ new.query = l.query /\ new.rows = table
    BY <1>0 DEF IsAnswer
  <2>2. loads' = (loads \ {l}) \union {new}
        /\ UNCHANGED <<table, query, begun, shown, message, writes>>
    BY <1>1 DEF Serve
  <2> HIDE DEF new
  <2>3. PagesShaped'
    BY <2>1, <2>2 DEF PagesInv, PagesShaped, IsAnswer
  <2>4. \A k \in loads' \union {shown'} : Tells(k)'
    BY <1>0, <2>1, <2>2 DEF PagesInv, Tells, AWriteIsDone
  <2> QED BY <2>2, <2>3, <2>4 DEF PagesInv
<1>2. CASE ReceiveRows(l)
  <2>1. shown' = l /\ loads' = loads \ {l} /\ UNCHANGED <<table, query, begun, message, writes>>
    BY <1>2 DEF ReceiveRows
  <2>2. PagesShaped'
    BY <1>0, <2>1 DEF PagesInv, PagesShaped, IsAnswer
  <2>3. \A k \in loads' \union {shown'} : Tells(k)'
    BY <1>0, <2>1 DEF PagesInv, Tells, AWriteIsDone
  <2> QED BY <1>0, <2>1, <2>2, <2>3 DEF PagesInv
<1>3. CASE FailToLoad(l)
  <2> DEFINE new == [l EXCEPT !.failed = TRUE, !.rows = <<>>]
  <2>1. IsAnswer(new) /\ new.failed /\ new.n = l.n /\ new.query = l.query
    BY <1>0 DEF IsAnswer
  <2>2. /\ shown' = new /\ loads' = loads \ {l} /\ message' = TRUE
        /\ UNCHANGED <<table, query, begun, writes>>
    BY <1>3 DEF FailToLoad
  <2> HIDE DEF new
  <2>3. PagesShaped'
    BY <2>1, <2>2 DEF PagesInv, PagesShaped, IsAnswer
  <2>4. \A k \in loads' \union {shown'} : Tells(k)'
    BY <1>0, <2>1, <2>2 DEF PagesInv, Tells, AWriteIsDone
  <2> QED BY <2>2, <2>3, <2>4 DEF PagesInv
<1> QED BY <1>1, <1>2, <1>3

LEMMA ListKeeps ==
  ASSUME PagesInv, ListNext
  PROVE  PagesInv'
<1>0. \A w \in writes : IsWrite(w)
  BY DEF PagesInv, PagesShaped
<1>1. CASE Refresh
  BY <1>0, <1>1, LoadKeeps DEF Refresh
<1>2. ASSUME NEW p \in PageNumber, TurnPage(p) PROVE PagesInv'
  BY <1>0, <1>2, LoadKeeps DEF TurnPage
<1>3. ASSUME NEW o \in Order, Sort(o) PROVE PagesInv'
  <2>1. Load(query', IF query.page = 1 THEN 1 ELSE 2) /\ UNCHANGED <<table, shown, writes>>
    BY <1>3 DEF Sort, Load
  <2> QED BY <1>0, <2>1, LoadKeeps
<1> QED BY <1>1, <1>2, <1>3, ServeKeeps DEF ListNext

LEMMA FormKeeps ==
  ASSUME PagesInv, FormNext
  PROVE  PagesInv'
<1>0. \A w \in writes : IsWrite(w)
  BY DEF PagesInv, PagesShaped
<1>1. ASSUME NEW kind, NEW row, NEW value, Send(kind, row, value),
             UNCHANGED <<table, query, begun, loads, shown, message>>
      PROVE  PagesInv'
  <2>1. \A w \in writes' : IsWrite(w)
    BY <1>0, <1>1 DEF Send, IsWrite
  <2>2. AWriteIsDone => AWriteIsDone'
    BY <1>1 DEF Send, AWriteIsDone
  <2> QED BY <1>1, <2>1, <2>2, WritesKeep
<1>2. ASSUME NEW i, toggleActive(i) PROVE PagesInv'
  BY <1>1, <1>2 DEF toggleActive
<1>3. ASSUME NEW v, submit(v) PROVE PagesInv'
  BY <1>1, <1>3 DEF submit
<1>4. ASSUME (\E i \in 0..Len(shown.rows) : OpenForm(i)) \/ CloseForm PROVE PagesInv'
  <2>1. UNCHANGED <<table, query, begun, loads, shown, message, writes>>
    BY <1>4 DEF OpenForm, CloseForm
  <2> QED BY <1>0, <2>1, WritesKeep DEF AWriteIsDone
<1>5. ASSUME NEW w \in writes, NEW next, IsWrite(w)
      PROVE  IsWrite([w EXCEPT !.stage = next]) /\ [w EXCEPT !.stage = next].stage = next
  BY <1>5 DEF IsWrite
<1>6. ASSUME NEW w \in writes, Apply(w) PROVE PagesInv'
  <2>1. CASE w.stage = "lost"
    <3>1. writes' = writes \ {w} /\ Outdated /\ UNCHANGED <<query, begun, message>>
      BY <1>6, <2>1 DEF Apply
    <3> QED BY <1>0, <3>1, OutdatedKeeps
  <2>2. CASE w.stage # "lost"
    <3>1. writes' = (writes \ {w}) \union {[w EXCEPT !.stage = "done"]}
          /\ UNCHANGED <<loads, shown, query, begun, message>>
      BY <1>6, <2>2 DEF Apply
    <3>2. \A x \in writes' : IsWrite(x)
      BY <1>0, <1>5, <3>1
    <3>3. AWriteIsDone'
      BY <1>0, <1>5, <3>1 DEF AWriteIsDone
    <3> QED BY <3>1, <3>2, <3>3 DEF PagesInv, PagesShaped, Tells
  <2> QED BY <2>1, <2>2
<1>7. ASSUME NEW w \in writes, w.stage = "sent", NEW next,
             writes' = (writes \ {w}) \union {[w EXCEPT !.stage = next]},
             UNCHANGED <<table, query, begun, loads, shown, message>>
      PROVE  PagesInv'
  <2>1. \A x \in writes' : IsWrite(x)
    BY <1>0, <1>5, <1>7
  <2>2. AWriteIsDone => AWriteIsDone'
    BY <1>7 DEF AWriteIsDone
  <2> QED BY <1>7, <2>1, <2>2, WritesKeep
<1>8. ASSUME NEW w \in writes, Refuse(w) PROVE PagesInv'
  BY <1>7, <1>8 DEF Refuse
<1>9. ASSUME NEW w \in writes, WriteDone(w) PROVE PagesInv'
  <2>1. writes' = writes \ {w} /\ Load(query', 1) /\ UNCHANGED <<table, shown>>
    BY <1>9 DEF WriteDone, Load
  <2> QED BY <1>0, <2>1, LoadKeeps
<1>10. ASSUME NEW w \in writes, WriteRefused(w) PROVE PagesInv'
  <2>1. w.stage = "refused" /\ writes' = writes \ {w}
        /\ UNCHANGED <<table, query, begun, loads, shown, message>>
    BY <1>10 DEF WriteRefused
  <2>2. AWriteIsDone => AWriteIsDone'
    BY <2>1 DEF AWriteIsDone
  <2> QED BY <1>0, <2>1, <2>2, WritesKeep
<1>11. ASSUME NEW w \in writes, GiveUp(w) PROVE PagesInv'
  <2>1. CASE w.stage = "sent"
    BY <1>7, <1>11, <2>1 DEF GiveUp
  <2>2. CASE w.stage = "done"
    <3>1. writes' = writes \ {w} /\ Outdated /\ UNCHANGED <<query, begun, message>>
      BY <1>11, <2>2 DEF GiveUp
    <3> QED BY <1>0, <3>1, OutdatedKeeps
  <2> QED BY <1>11, <2>1, <2>2 DEF GiveUp
<1> QED BY <1>2, <1>3, <1>4, <1>6, <1>8, <1>9, <1>10, <1>11 DEF FormNext

LEMMA PagesStepInv == PagesInv /\ [PagesNext]_pageVars => PagesInv'
<1> SUFFICES ASSUME PagesInv, [PagesNext]_pageVars PROVE PagesInv'
  OBVIOUS
<1>0. \A w \in writes : IsWrite(w)
  BY DEF PagesInv, PagesShaped
<1>1. ASSUME NEW i, NEW v, ChangeElsewhere(i, v) PROVE PagesInv'
  BY <1>0, <1>1, OutdatedKeeps DEF ChangeElsewhere
<1>2. CASE UNCHANGED pageVars
  BY <1>0, <1>2, WritesKeep DEF pageVars, AWriteIsDone
<1> QED BY <1>1, <1>2, ListKeeps, FormKeeps DEF PagesNext

\* However many loads and writes are on their way, and in whatever order their answers come:
\* a page at rest shows what was asked for, or says that it failed (useCrudList.ts).
THEOREM ListsTellTheTruth == PagesSpec => []ListTellsTheTruth
<1>1. PagesInv => ListTellsTheTruth
  <2> SUFFICES ASSUME PagesInv, AtRest PROVE ListTellsTheTruth
    BY DEF ListTellsTheTruth
  <2>1. ~ AWriteIsDone /\ loads = {}
    BY DEF AtRest, AWriteIsDone
  <2> QED BY <2>1 DEF PagesInv, Tells, ListTellsTheTruth
<1> QED BY <1>1, PagesInitInv, PagesStepInv, PTL DEF PagesSpec

-----------------------------------------------------------------------------
(* Which rows roles show.                                                  *)

\* Departments are followed down as _department_descendants does: level by level,
\* so that more roots find no fewer departments.
LEMMA DescendantsIs ==
  ASSUME NEW roots \in SUBSET Department
  PROVE  \E found \in [0..LEVELS -> SUBSET Department] :
           /\ found[0] = roots
           /\ \A k \in 1..LEVELS :
                found[k] = found[k - 1] \union {d \in Department : Parent[d] \in found[k - 1]}
           /\ WithDescendants(roots) = found[LEVELS]
<1> DEFINE Further(D) == D \union {d \in Department : Parent[d] \in D}
           step == [p \in (SUBSET Department) \X (1..LEVELS) |-> Further(p[1])]
           Solves(s) == s = [n \in 0..LEVELS |-> IF n = 0 THEN roots ELSE Further(s[n - 1])]
<1>0. LEVELS \in Nat
  BY ScopeInputs
<1>1. step \in [(SUBSET Department) \X (1..LEVELS) -> SUBSET Department]
  OBVIOUS
<1> HIDE DEF Further
<1>2. PICK g \in [0..LEVELS -> SUBSET Department] :
        g[0] = roots /\ \A k \in 1..LEVELS : g[k] = step[<<g[k - 1], k>>]
  <2> DEFINE T == SUBSET Department
  <2>1. roots \in T /\ step \in [T \X (1..LEVELS) -> T]
    BY <1>1
  <2> HIDE DEF step, T
  <2>2. \E g : Repeats(g, LEVELS, T, roots, step)
    BY <1>0, <2>1, RecursionUpTo
  <2> QED
    BY <2>2 DEF T, Repeats
<1>3. ASSUME NEW k \in 1..LEVELS PROVE g[k] = Further(g[k - 1])
  <2>1. k - 1 \in 0..LEVELS
    BY <1>0
  <2>2. <<g[k - 1], k>> \in (SUBSET Department) \X (1..LEVELS)
    BY <2>1
  <2> QED
    BY <1>2, <2>2
<1>4. Solves(g)
  <2>1. \A n \in 0..LEVELS : n # 0 => n \in 1..LEVELS
    BY <1>0
  <2> QED
    BY <1>2, <1>3, <2>1
<1>5. \A s : Solves(s) =>
        /\ s[0] = roots /\ \A k \in 1..LEVELS : s[k] = Further(s[k - 1])
        /\ s = [k \in 0..LEVELS |-> s[k]]
  BY <1>0
<1> DEFINE w == CHOOSE s : Solves(s)
<1>6. WithDescendants(roots) = w[LEVELS]
  BY DEF WithDescendants, Further
<1>7. Solves(w)
  <2> HIDE DEF Solves
  <2> QED
    BY <1>4
<1> HIDE DEF w, Solves
<1>8. w[0] = roots /\ (\A k \in 1..LEVELS : w[k] = Further(w[k - 1])) /\ w = [k \in 0..LEVELS |-> w[k]]
  BY <1>5, <1>7
<1>9. \A k \in 0..LEVELS : w[k] \in SUBSET Department
  <2> DEFINE S == {k \in 0..LEVELS : w[k] \in SUBSET Department}
  <2>1. 0 \in S
    BY <1>0, <1>8
  <2>2. ASSUME NEW k \in 0..LEVELS, k < LEVELS, k \in S PROVE k + 1 \in S
    <3>1. k + 1 \in 1..LEVELS /\ k + 1 \in 0..LEVELS /\ (k + 1) - 1 = k
      BY <1>0, <2>2
    <3>2. w[k + 1] = Further(w[k])
      BY <1>8, <3>1
    <3> QED
      BY <2>2, <3>1, <3>2 DEF Further
  <2> HIDE DEF S
  <2>3. \A k \in 0..LEVELS : k \in S
    BY <1>0, <2>1, <2>2, InductionUpTo
  <2> QED
    BY <2>3 DEF S
<1>10. w \in [0..LEVELS -> SUBSET Department]
  BY <1>8, <1>9
<1> QED
  BY <1>6, <1>8, <1>10 DEF Further

LEMMA DescendantsGrow ==
  ASSUME NEW few \in SUBSET Department, NEW many \in SUBSET Department, few \subseteq many
  PROVE  WithDescendants(few) \subseteq WithDescendants(many)
<1>0. LEVELS \in Nat
  BY ScopeInputs
<1>1. PICK f \in [0..LEVELS -> SUBSET Department] :
        /\ f[0] = few
        /\ \A k \in 1..LEVELS : f[k] = f[k - 1] \union {d \in Department : Parent[d] \in f[k - 1]}
        /\ WithDescendants(few) = f[LEVELS]
  BY DescendantsIs
<1>2. PICK g \in [0..LEVELS -> SUBSET Department] :
        /\ g[0] = many
        /\ \A k \in 1..LEVELS : g[k] = g[k - 1] \union {d \in Department : Parent[d] \in g[k - 1]}
        /\ WithDescendants(many) = g[LEVELS]
  BY DescendantsIs
<1> DEFINE S == {k \in 0..LEVELS : f[k] \subseteq g[k]}
<1>3. 0 \in S
  BY <1>0, <1>1, <1>2
<1>4. ASSUME NEW k \in 0..LEVELS, k < LEVELS, k \in S PROVE k + 1 \in S
  <2>1. k + 1 \in 1..LEVELS /\ k + 1 \in 0..LEVELS /\ (k + 1) - 1 = k
    BY <1>0, <1>4
  <2>2. /\ f[k + 1] = f[k] \union {d \in Department : Parent[d] \in f[k]}
        /\ g[k + 1] = g[k] \union {d \in Department : Parent[d] \in g[k]}
    BY <1>1, <1>2, <2>1
  <2> QED
    BY <1>4, <2>1, <2>2
<1> HIDE DEF S
<1>5. LEVELS \in S
  <2>1. \A k \in 0..LEVELS : k \in S
    BY <1>0, <1>3, <1>4, InductionUpTo
  <2> QED
    BY <1>0, <2>1
<1> QED
  BY <1>1, <1>2, <1>5 DEF S

\* Whoever has more roles of the same type was granted no less.
LEMMA GrantsGrow ==
  ASSUME NEW few, NEW many, few.scopes \subseteq many.scopes, few.company = many.company,
         TypeOf(many.scopes) = TypeOf(few.scopes)
  PROVE  /\ Grants(few) \subseteq Grants(many)
         /\ CompaniesOf(few) \subseteq CompaniesOf(many)
         /\ \A dim \in Dimension : GrantedIn(few, dim) \subseteq GrantedIn(many, dim)
<1>1. Grants(few) \subseteq Grants(many)
  BY DEF Grants
<1>2. CompaniesOf(few) \subseteq CompaniesOf(many)
  BY <1>1 DEF CompaniesOf
<1>3. ASSUME NEW dim \in Dimension PROVE GrantedIn(few, dim) \subseteq GrantedIn(many, dim)
  <2> DEFINE a == Grants(few) \intersect OrganisationsOf[dim]
             b == Grants(many) \intersect OrganisationsOf[dim]
  <2>1. a \subseteq b
    BY <1>1
  <2>2. CASE dim = "department"
    <3>1. OrganisationsOf[dim] = Department
      BY <2>2 DEF OrganisationsOf
    <3>2. a \in SUBSET Department /\ b \in SUBSET Department
      BY <3>1
    <3> HIDE DEF a, b
    <3>3. WithDescendants(a) \subseteq WithDescendants(b)
      BY <2>1, <3>2, DescendantsGrow
    <3> QED
      BY <2>2, <3>3 DEF a, b, GrantedIn
  <2>3. CASE dim # "department"
    BY <2>1, <2>3 DEF GrantedIn
  <2> QED
    BY <2>2, <2>3
<1> QED
  BY <1>1, <1>2, <1>3

\* What a further role of the widest type may add and may not take away.
LEMMA ShowsGrow ==
  ASSUME NEW few, NEW many, few.scopes # {}, few.scopes \subseteq many.scopes,
         few.company = many.company, TypeOf(many.scopes) = TypeOf(few.scopes), NEW fields, NEW row,
         Bounded(many, fields) => Bounded(few, fields),
         TypeOf(few.scopes) = "custom" /\ Picking(few, fields) = {} => Picking(many, fields) = {},
         Shows(few, fields, row)
  PROVE  Shows(many, fields, row)
<1> DEFINE type == TypeOf(few.scopes)
<1>1. /\ CompaniesOf(few) \subseteq CompaniesOf(many)
      /\ \A dim \in Dimension : GrantedIn(few, dim) \subseteq GrantedIn(many, dim)
  BY GrantsGrow
<1>2. Bounded(few, fields) <=> Bounded(many, fields)
  BY <1>1 DEF Bounded
<1>3. (Bounded(few, fields) => row.company \in CompaniesOf(few))
        => (Bounded(many, fields) => row.company \in CompaniesOf(many))
  BY <1>1, <1>2
<1>4. Picking(few, fields) \subseteq Picking(many, fields) /\ Picking(few, fields) \subseteq Dimension
  BY <1>1 DEF Picking
<1>5. many.scopes # {} /\ TypeOf(many.scopes) = type
  OBVIOUS
<1>6. CASE type = "all" \/ (type = "self" /\ "owner" \in fields /\ row.owner = Self)
  BY <1>5, <1>6 DEF Shows
<1>7. CASE type = "company"
  <2>1. Bounded(few, fields) /\ (Bounded(few, fields) => row.company \in CompaniesOf(few))
    BY <1>7 DEF Shows, Dimension
  <2> QED
    BY <1>2, <1>3, <1>5, <1>7, <2>1 DEF Shows
<1>8. CASE type \in Dimension \intersect fields
  <2>1. /\ Bounded(few, fields) => row.company \in CompaniesOf(few)
        /\ row[type] \in GrantedIn(few, type)
    BY <1>8 DEF Shows, Dimension
  <2>2. row[type] \in GrantedIn(many, type)
    BY <1>1, <1>8, <2>1
  <2> QED
    BY <1>3, <1>5, <1>8, <2>1, <2>2 DEF Shows
<1>9. CASE type = "custom"
  <2>1. /\ Bounded(few, fields) => row.company \in CompaniesOf(few)
        /\ IF Picking(few, fields) = {} THEN Bounded(few, fields)
           ELSE \E dim \in Picking(few, fields) : row[dim] \in GrantedIn(few, dim)
    BY <1>9 DEF Shows, Dimension
  <2>2. IF Picking(many, fields) = {} THEN Bounded(many, fields)
        ELSE \E dim \in Picking(many, fields) : row[dim] \in GrantedIn(many, dim)
    BY <1>1, <1>2, <1>4, <1>9, <2>1
  <2> QED
    BY <1>3, <1>5, <1>9, <2>1, <2>2 DEF Shows
<1> QED
  BY <1>6, <1>7, <1>8, <1>9 DEF Shows

\* A further role of the type that counts hides nothing that was shown, in any table and
\* for any roles, grants and trees of departments, but in the two cases of Narrows.
THEOREM FurtherRolesHideNothing == ScopesSpec => RolesAddUp
<1>1. ScopesInit => ScopesTypeOK
  BY DEF ScopesInit, ScopesTypeOK
<1>2. ScopesTypeOK /\ [ScopesNext]_staff => ScopesTypeOK'
  BY DEF ScopesTypeOK, ScopesNext, GiveRole, SetScope
<1>3. ScopesTypeOK /\ [ScopesNext]_staff => staff'.company = staff.company
  BY DEF ScopesTypeOK, ScopesNext, GiveRole, SetScope
<1> DEFINE AddUp ==
      \A fields \in Tables :
        /\ staff.scopes # {} /\ staff.scopes \subseteq staff'.scopes
        /\ TypeOf(staff'.scopes) = TypeOf(staff.scopes)
        /\ ~ Narrows(staff', fields)
        => Shown(staff, fields) \subseteq Shown(staff', fields)
<1>4. ScopesTypeOK /\ [ScopesNext]_staff => [AddUp]_staff
  <2> SUFFICES ASSUME ScopesTypeOK, [ScopesNext]_staff, NEW fields \in Tables,
                      staff.scopes # {}, staff.scopes \subseteq staff'.scopes,
                      TypeOf(staff'.scopes) = TypeOf(staff.scopes), ~ Narrows(staff', fields),
                      NEW row \in Shown(staff, fields)
               PROVE  row \in Shown(staff', fields)
    OBVIOUS
  <2>1. staff'.company = staff.company
    BY <1>3
  <2>2. Bounded(staff', fields) => Bounded(staff, fields)
    BY DEF Narrows
  <2>3. TypeOf(staff.scopes) = "custom" /\ Picking(staff, fields) = {}
          => Picking(staff', fields) = {}
    BY DEF Narrows
  <2>4. Shows(staff, fields, row) /\ row \in GivenRows
    BY DEF Shown
  <2>5. Shows(staff', fields, row)
    BY <2>1, <2>2, <2>3, <2>4, ShowsGrow
  <2> QED
    BY <2>4, <2>5 DEF Shown
<1> QED
  BY <1>1, <1>2, <1>4, PTL DEF ScopesSpec, RolesAddUp
=============================================================================
