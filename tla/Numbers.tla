------------------------------- MODULE Numbers -------------------------------
(***************************************************************************)
(* Document numbers (apps/core/services.py, generate_code).  A number is   *)
(* taken inside the transaction that stores the document: until it ends it *)
(* holds the row of the rule, and when it rolls back the number is free.   *)
(* A code is what the pattern shows of the day, with the running number.   *)
(***************************************************************************)
EXTENDS Integers, Sequences, FiniteSets

CONSTANTS
  Caller,     \* the requests
  MaxDay,     \* bound: the last business day
  MaxNumber   \* bound: the largest number taken from a counter

ASSUME NumberInputs == MaxDay \in Nat \ {0} /\ MaxNumber \in Nat

VARIABLES
  rule,          \* the CodeRule row
  counters,      \* the CodeSequence rows: last_value of each period
  day,           \* business_today()
  taken,         \* the number each open request has taken, none is 0
  reconfigured   \* the rule's pattern or period was changed

numberVars == <<rule, counters, day, taken, reconfigured>>

Day == 1..MaxDay

\* Whether the rule starts again with each period, and its pattern shows the period.
Rule == [is_active : BOOLEAN, resets : BOOLEAN, dated : BOOLEAN]
Code == [shown : {0} \union Day, number : 1..MaxNumber]

\* The period of a rule that never resets is ALL, here 0.
PeriodKey == IF rule.resets THEN day ELSE 0

Render(number) == [shown |-> IF rule.dated THEN day ELSE 0, number |-> number]

NumbersTypeOK ==
  /\ rule \in Rule /\ day \in Day /\ reconfigured \in BOOLEAN
  /\ counters \in [{0} \union Day -> 0..MaxNumber]
  /\ taken \in [Caller -> 0..MaxNumber]

NumbersInit ==
  /\ rule \in [is_active : {TRUE}, resets : BOOLEAN, dated : BOOLEAN]
  /\ counters = [p \in {0} \union Day |-> 0]
  /\ day = 1
  /\ taken = [c \in Caller |-> 0]
  /\ reconfigured = FALSE

RuleFree == \A c \in Caller : taken[c] = 0

\* Bug: neither the rule nor its counter is locked.
TakeUnlocked(c) ==
  /\ rule.is_active /\ counters[PeriodKey] < MaxNumber
  /\ taken' = [taken EXCEPT ![c] = counters[PeriodKey] + 1]

\* Locks the rule, then the counter of the period; a rule out of use refuses.
GenerateCode(c) ==
  /\ RuleFree
  /\ rule.is_active /\ counters[PeriodKey] < MaxNumber
  /\ taken' = [taken EXCEPT ![c] = counters[PeriodKey] + 1]

\* The request of c commits and its number, if it took one, counts; the period is that
\* of when it was taken.
KeepNumber(c, key) ==
  /\ counters' = IF taken[c] = 0 THEN counters ELSE [counters EXCEPT ![key] = taken[c]]
  /\ taken' = [taken EXCEPT ![c] = 0]

\* The form and set-active of a rule write its row, which a taken number has locked.
ChangeRule ==
  /\ RuleFree
  /\ rule' \in Rule
  /\ reconfigured' = (reconfigured \/ rule'.resets # rule.resets \/ rule'.dated # rule.dated)
  /\ UNCHANGED <<counters, day, taken>>

NextDay ==
  /\ day < MaxDay
  /\ day' = day + 1
  /\ UNCHANGED <<rule, counters, taken, reconfigured>>
=============================================================================
