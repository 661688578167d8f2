---------------------------- MODULE SupplyProofs ----------------------------
(***************************************************************************)
(* Proofs about Suggestions, Inspections and Production, for any number of *)
(* people at work, of runs, suggestions, inspections, alerts, production   *)
(* orders, materials, steps and reports.                                   *)
(***************************************************************************)
EXTENDS Suggestions, Production, SumLemmas, SequenceTheorems, FiniteSetTheorems, TLAPS

(***************************************************************************)
(* Suggestions.                                                            *)
(***************************************************************************)

\* What a planner's transaction holds is an open suggestion, after the run of which
\* nothing had been completed when the transaction looked.
HoldsOpen(p) ==
  converting[p] # NoConversion =>
    /\ converting[p].suggestion \in 1..Len(suggestions)
    /\ suggestions[converting[p].suggestion].status = "open"
    /\ converting[p].of \in 0..Len(runs)
    /\ \A n \in (suggestions[converting[p].suggestion].run + 1)..converting[p].of :
         runs[n] # "completed"
HeldApart ==
  \A p, q \in Planner :
    converting[p] # NoConversion /\ converting[p].suggestion = converting[q].suggestion => p = q

\* A link is to a suggestion that was converted, the only one to it.
LinkOfConverted(d) ==
  /\ links[d].suggestion \in 1..Len(suggestions)
  /\ suggestions[links[d].suggestion].status = "converted"
  /\ links[d].of \in 0..Len(runs)
LinksApart == \A d, e \in 1..Len(links) : links[d].suggestion = links[e].suggestion => d = e
ConvertedIsLinked ==
  \A s \in 1..Len(suggestions) :
    suggestions[s].status = "converted" => \E d \in 1..Len(links) : links[d].suggestion = s

SuggestionsInv ==
  /\ SuggestionsTypeOK
  /\ \A p \in Planner : HoldsOpen(p)
  /\ HeldApart
  /\ \A d \in 1..Len(links) : LinkOfConverted(d)
  /\ LinksApart /\ ConvertedIsLinked
  /\ MadeFromTheNewestRun

LEMMA SuggestionsInitHolds == ASSUME SuggestionsInit PROVE SuggestionsInv
  BY DEF SuggestionsInit, SuggestionsInv, SuggestionsTypeOK, HoldsOpen, HeldApart, LinkOfConverted,
     LinksApart, ConvertedIsLinked, MadeFromTheNewestRun, Conversion, NoConversion

\* A run appends its suggestions and leaves those before them as they were.
LEMMA RunMrpAppends ==
  ASSUME SuggestionsTypeOK, NEW result \in Results, RunMrp(result)
  PROVE  /\ suggestions' \in Seq(Suggestion)
         /\ Len(suggestions') = Len(suggestions) + Len(result)
         /\ \A s \in 1..Len(suggestions) : suggestions'[s] = suggestions[s]
         /\ \A s \in 1..Len(suggestions') :
              s \notin 1..Len(suggestions) =>
                suggestions'[s].run = Len(runs) + 1 /\ suggestions'[s].status = "open"
         /\ Len(result) \in Nat
<1> DEFINE new == [k \in 1..Len(result) |->
                     [run |-> Len(runs) + 1, type |-> result[k], status |-> "open"]]
<1>1. result \in Seq(Types) /\ Len(result) \in Nat
  BY SuggestionInputs
<1>2. \A k \in 1..Len(result) : result[k] \in Types
  BY <1>1, ElementOfSeq
<1>3. Len(runs) \in Nat
  BY DEF SuggestionsTypeOK
<1>4. \A k \in 1..Len(result) : new[k] \in Suggestion
  BY <1>2, <1>3 DEF Suggestion, Types
<1>5. new \in Seq(Suggestion) /\ Len(new) = Len(result)
  <2>1. new \in [1..Len(result) -> Suggestion]
    BY <1>4
  <2> QED BY <2>1, <1>1
<1>6. suggestions' = suggestions \o new /\ suggestions \in Seq(Suggestion)
  BY DEF RunMrp, SuggestionsTypeOK
<1>7. \A k \in 1..Len(result) : new[k].run = Len(runs) + 1 /\ new[k].status = "open"
  OBVIOUS
<1> HIDE DEF new
<1>8. /\ suggestions \o new \in Seq(Suggestion)
      /\ Len(suggestions \o new) = Len(suggestions) + Len(new)
      /\ \A i \in 1..Len(suggestions) + Len(new) :
           (suggestions \o new)[i] = IF i <= Len(suggestions) THEN suggestions[i]
                                     ELSE new[i - Len(suggestions)]
  BY <1>5, <1>6, ConcatProperties
<1>9. Len(suggestions) \in Nat
  BY <1>6
<1>10. \A s \in 1..Len(suggestions') : s \notin 1..Len(suggestions) =>
         s - Len(suggestions) \in 1..Len(result) /\ suggestions'[s] = new[s - Len(suggestions)]
  BY <1>1, <1>5, <1>6, <1>8, <1>9
<1> QED BY <1>1, <1>5, <1>6, <1>7, <1>8, <1>9, <1>10

\* Setting the status of a suggestion leaves its run and the other suggestions alone.
LEMMA StatusSet ==
  ASSUME suggestions \in Seq(Suggestion), NEW s \in 1..Len(suggestions),
         NEW status \in {"open", "converted", "cancelled"},
         suggestions' = [suggestions EXCEPT ![s].status = status]
  PROVE  /\ suggestions' \in Seq(Suggestion) /\ Len(suggestions') = Len(suggestions)
         /\ \A k \in 1..Len(suggestions) : k # s => suggestions'[k] = suggestions[k]
         /\ suggestions'[s].run = suggestions[s].run /\ suggestions'[s].status = status
<1> DEFINE set == [suggestions[s] EXCEPT !.status = status]
<1>1. suggestions[s] \in Suggestion
  BY ElementOfSeq
<1>2. set \in Suggestion /\ set.run = suggestions[s].run /\ set.status = status
  BY <1>1 DEF Suggestion
<1>3. suggestions' = [suggestions EXCEPT ![s] = set]
  OBVIOUS
<1> HIDE DEF set
<1>4. suggestions' \in Seq(Suggestion) /\ Len(suggestions') = Len(suggestions)
  BY <1>2, <1>3, ExceptSeq
<1>5. \A k \in 1..Len(suggestions) : suggestions'[k] = IF k = s THEN set ELSE suggestions[k]
  BY <1>2, <1>3, ExceptSeq
<1> QED BY <1>2, <1>4, <1>5

\* What holds of every step but those of a conversion: runs and suggestions may be
\* added, a run may cease to count as completed, and no suggestion that is held or
\* was converted is touched.
Grows ==
  /\ Len(runs) <= Len(runs') /\ Len(suggestions) <= Len(suggestions')
  /\ \A r \in 1..Len(runs) : runs'[r] = "completed" => runs[r] = "completed"
  /\ \A s \in 1..Len(suggestions) :
       /\ suggestions'[s].run = suggestions[s].run
       /\ suggestions[s].status = "converted" <=> suggestions'[s].status = "converted"
       /\ ~ SuggestionFree(s) => suggestions'[s] = suggestions[s]
  /\ \A s \in 1..Len(suggestions') :
       s \notin 1..Len(suggestions) => suggestions'[s].status = "open"
  /\ UNCHANGED <<links, converting>>

LEMMA GrowsKeeps ==
  ASSUME SuggestionsInv, SuggestionsTypeOK', Grows
  PROVE  SuggestionsInv'
<1>1. /\ Len(runs) \in Nat /\ Len(suggestions) \in Nat
      /\ Len(runs') \in Nat /\ Len(suggestions') \in Nat
  BY DEF SuggestionsTypeOK, SuggestionsInv
<1>2. \A s \in 1..Len(suggestions) : s \in 1..Len(suggestions') /\ suggestions[s].run \in 1..Len(runs)
  BY <1>1 DEF Grows, SuggestionsTypeOK, SuggestionsInv
<1>r. \A r, L, o, n \in Nat : r \in 1..L /\ o \in 0..L /\ n \in (r + 1)..o => n \in 1..L
  OBVIOUS
<1>n. \A r, L, o : r \in 1..L /\ L \in Nat /\ o \in 0..L => r \in Nat /\ o \in Nat /\ \A n \in (r + 1)..o : n \in Nat
  OBVIOUS
<1>3. ASSUME NEW p \in Planner PROVE HoldsOpen(p)'
  <2> SUFFICES ASSUME converting[p] # NoConversion PROVE HoldsOpen(p)'
    BY DEF Grows, HoldsOpen
  <2> DEFINE s == converting[p].suggestion
             of == converting[p].of
  <2>1. /\ s \in 1..Len(suggestions) /\ suggestions[s].status = "open" /\ of \in 0..Len(runs)
        /\ \A n \in (suggestions[s].run + 1)..of : runs[n] # "completed"
    BY DEF SuggestionsInv, HoldsOpen
  <2>2. ~ SuggestionFree(s)
    BY DEF SuggestionFree
  <2>3. suggestions'[s] = suggestions[s] /\ converting' = converting
    BY <2>1, <2>2 DEF Grows
  <2>4. of \in 0..Len(runs')
    BY <2>1, <1>1 DEF Grows
  <2>5. ASSUME NEW n \in (suggestions[s].run + 1)..of PROVE runs'[n] # "completed"
    <3>1. n \in 1..Len(runs)
      <4>1. PICK r : r = suggestions[s].run /\ r \in 1..Len(runs)
        BY <1>2, <2>1
      <4>2. PICK o : o = of /\ o \in 0..Len(runs)
        BY <2>1
      <4>3. n \in (r + 1)..o
        BY <2>5, <4>1, <4>2
      <4> QED BY <1>1, <1>r, <1>n, <4>1, <4>2, <4>3
    <3> QED BY <3>1, <2>1 DEF Grows
  <2> QED BY <2>1, <2>3, <2>4, <2>5, <1>2 DEF HoldsOpen
<1>4. HeldApart'
  BY DEF SuggestionsInv, HeldApart, Grows
<1>5. ASSUME NEW d \in 1..Len(links')
      PROVE  LinkOfConverted(d)' /\ d \in 1..Len(links) /\ LinkOfConverted(d)
  BY <1>1, <1>2 DEF SuggestionsInv, LinkOfConverted, Grows
<1>6. LinksApart'
  BY DEF SuggestionsInv, LinksApart, Grows
<1>7. ConvertedIsLinked'
  BY DEF SuggestionsInv, ConvertedIsLinked, Grows
<1>8. MadeFromTheNewestRun'
  <2> SUFFICES ASSUME NEW d \in 1..Len(links),
                      NEW n \in (suggestions'[links[d].suggestion].run + 1)..links[d].of
               PROVE  runs'[n] # "completed"
    BY DEF Grows, MadeFromTheNewestRun
  <2>1. d \in 1..Len(links')
    BY DEF Grows
  <2>2. LinkOfConverted(d)
    BY <2>1, <1>5
  <2>3. /\ links[d].suggestion \in 1..Len(suggestions) /\ links[d].of \in 0..Len(runs)
        /\ suggestions'[links[d].suggestion].run = suggestions[links[d].suggestion].run
    BY <2>2 DEF LinkOfConverted, Grows
  <2>4. n \in 1..Len(runs) /\ n \in (suggestions[links[d].suggestion].run + 1)..links[d].of
    <3>1. PICK r : r = suggestions[links[d].suggestion].run /\ r \in 1..Len(runs)
      BY <1>2, <2>3
    <3>2. PICK o : o = links[d].of /\ o \in 0..Len(runs)
      BY <2>3
    <3>3. n \in (r + 1)..o
      BY <2>3, <3>1, <3>2
    <3>4. Len(runs) \in Nat /\ r \in 1..Len(runs) /\ o \in 0..Len(runs)
      BY <1>1, <3>1, <3>2
    <3>5. n \in 1..Len(runs)
      BY <1>r, <1>n, <3>3, <3>4
    <3>6. n \in (suggestions[links[d].suggestion].run + 1)..links[d].of
      BY <3>1, <3>2, <3>3
    <3> QED BY <3>5, <3>6
  <2>5. runs[n] # "completed"
    BY <2>4 DEF SuggestionsInv, MadeFromTheNewestRun
  <2> QED BY <2>4, <2>5 DEF Grows
<1> QED BY <1>3, <1>4, <1>5, <1>6, <1>7, <1>8 DEF SuggestionsInv

\* The steps that are no conversion.
LEMMA SuggestionsGrow ==
  ASSUME SuggestionsInv,
         \/ \E result \in Results : RunMrp(result)
         \/ FailMrp
         \/ \E r \in 1..Len(runs) : ArchiveRun(r)
         \/ \E s \in 1..Len(suggestions) : CancelSuggestion(s)
  PROVE  SuggestionsTypeOK' /\ Grows
<1>1. /\ SuggestionsTypeOK /\ Len(runs) \in Nat /\ Len(suggestions) \in Nat
      /\ runs \in Seq({"completed", "failed", "archived"}) /\ suggestions \in Seq(Suggestion)
  BY DEF SuggestionsInv, SuggestionsTypeOK
<1>2. ASSUME NEW result \in Results, RunMrp(result) PROVE SuggestionsTypeOK' /\ Grows
  <2>1. /\ suggestions' \in Seq(Suggestion)
        /\ Len(suggestions') = Len(suggestions) + Len(result)
        /\ \A s \in 1..Len(suggestions) : suggestions'[s] = suggestions[s]
        /\ \A s \in 1..Len(suggestions') :
             s \notin 1..Len(suggestions) =>
               suggestions'[s].run = Len(runs) + 1 /\ suggestions'[s].status = "open"
        /\ Len(result) \in Nat
    BY <1>1, <1>2, RunMrpAppends
  <2>2. /\ runs' = Append(runs, "completed") /\ UNCHANGED <<links, converting>>
    BY <1>2 DEF RunMrp
  <2>3. /\ runs' \in Seq({"completed", "failed", "archived"}) /\ Len(runs') = Len(runs) + 1
        /\ \A r \in 1..Len(runs) : runs'[r] = runs[r]
    BY <2>2, <1>1
  <2>4. \A s \in 1..Len(suggestions') : suggestions'[s].run \in 1..Len(runs')
    <3>1. \A s \in 1..Len(suggestions) : suggestions[s].run \in 1..Len(runs)
      BY <1>1 DEF SuggestionsTypeOK
    <3> SUFFICES ASSUME NEW s \in 1..Len(suggestions') PROVE suggestions'[s].run \in 1..Len(runs')
      OBVIOUS
    <3>2. CASE s \in 1..Len(suggestions)
      <4>1. suggestions'[s].run \in 1..Len(runs)
        BY <2>1, <3>1, <3>2
      <4> QED BY <1>1, <2>3, <4>1
    <3>3. CASE s \notin 1..Len(suggestions)
      BY <1>1, <2>1, <2>3, <3>3
    <3> QED BY <3>2, <3>3
  <2>5. SuggestionsTypeOK'
    BY <1>1, <2>1, <2>2, <2>3, <2>4 DEF SuggestionsTypeOK
  <2> QED BY <1>1, <2>1, <2>2, <2>3, <2>5 DEF Grows
<1>3. ASSUME FailMrp PROVE SuggestionsTypeOK' /\ Grows
  <2>1. /\ runs' \in Seq({"completed", "failed", "archived"}) /\ Len(runs') = Len(runs) + 1
        /\ \A r \in 1..Len(runs) : runs'[r] = runs[r]
    BY <1>1, <1>3 DEF FailMrp
  <2> QED BY <1>1, <1>3, <2>1 DEF FailMrp, SuggestionsTypeOK, Grows
<1>4. ASSUME NEW r \in 1..Len(runs), ArchiveRun(r) PROVE SuggestionsTypeOK' /\ Grows
  <2>1. /\ runs' \in Seq({"completed", "failed", "archived"}) /\ Len(runs') = Len(runs)
        /\ \A n \in 1..Len(runs) : runs'[n] = IF n = r THEN "archived" ELSE runs[n]
    BY <1>1, <1>4 DEF ArchiveRun
  <2> QED BY <1>1, <1>4, <2>1 DEF ArchiveRun, SuggestionsTypeOK, Grows
<1>5. ASSUME NEW s \in 1..Len(suggestions), CancelSuggestion(s) PROVE SuggestionsTypeOK' /\ Grows
  <2>1. suggestions' = [suggestions EXCEPT ![s].status = "cancelled"]
    BY <1>5 DEF CancelSuggestion
  <2>2. /\ suggestions' \in Seq(Suggestion) /\ Len(suggestions') = Len(suggestions)
        /\ \A k \in 1..Len(suggestions) : k # s => suggestions'[k] = suggestions[k]
        /\ suggestions'[s].run = suggestions[s].run /\ suggestions'[s].status = "cancelled"
    BY <1>1, <2>1, StatusSet
  <2>3. suggestions[s].status = "open" /\ SuggestionFree(s) /\ UNCHANGED <<runs, links, converting>>
    BY <1>5 DEF CancelSuggestion
  <2>4. SuggestionsTypeOK'
    BY <1>1, <2>2, <2>3 DEF SuggestionsTypeOK
  <2> QED BY <1>1, <2>2, <2>3, <2>4 DEF Grows
<1> QED BY <1>2, <1>3, <1>4, <1>5

LEMMA LookAtSuggestionKeeps ==
  ASSUME SuggestionsInv, NEW p \in Planner, NEW s \in 1..Len(suggestions), LookAtSuggestion(p, s)
  PROVE  SuggestionsInv'
<1>1. /\ SuggestionsTypeOK /\ Len(runs) \in Nat /\ Len(suggestions) \in Nat
      /\ UNCHANGED <<runs, suggestions, links>>
  BY DEF SuggestionsInv, SuggestionsTypeOK, LookAtSuggestion
<1>2. /\ converting' \in [Planner -> Conversion]
      /\ \A q \in Planner : converting'[q] = IF q = p THEN [suggestion |-> s, of |-> Len(runs)]
                                             ELSE converting[q]
  BY <1>1 DEF SuggestionsTypeOK, LookAtSuggestion, Conversion
<1>3. /\ \A q \in Planner : converting[q].suggestion # s
      /\ suggestions[s].status = "open"
      /\ \A n \in (suggestions[s].run + 1)..Len(runs) : runs[n] # "completed"
  BY DEF LookAtSuggestion, SuggestionFree, Superseded
<1>4. SuggestionsTypeOK'
  BY <1>1, <1>2 DEF SuggestionsTypeOK
<1>5. ASSUME NEW q \in Planner PROVE HoldsOpen(q)'
  BY <1>1, <1>2, <1>3 DEF HoldsOpen, SuggestionsInv
<1>6. HeldApart'
  BY <1>2, <1>3 DEF HeldApart, SuggestionsInv
<1> QED BY <1>1, <1>4, <1>5, <1>6
      DEF SuggestionsInv, LinkOfConverted, LinksApart, ConvertedIsLinked, MadeFromTheNewestRun

LEMMA RollBackConversionKeeps ==
  ASSUME SuggestionsInv, NEW p \in Planner, RollBackConversion(p)
  PROVE  SuggestionsInv'
<1>1. /\ converting' \in [Planner -> Conversion]
      /\ \A q \in Planner : converting'[q] = IF q = p THEN NoConversion ELSE converting[q]
  BY DEF SuggestionsInv, SuggestionsTypeOK, RollBackConversion, Conversion, NoConversion
<1>2. \A q \in Planner : converting[q] # NoConversion => converting[q].suggestion # 0
  BY DEF SuggestionsInv, HoldsOpen
<1>3. HeldApart'
  <2>1. NoConversion.suggestion = 0
    BY DEF NoConversion
  <2>2. ASSUME NEW q \in Planner, NEW r \in Planner, converting'[q] # NoConversion,
               converting'[q].suggestion = converting'[r].suggestion
        PROVE  q = r
    <3>1. q # p /\ converting'[q] = converting[q] /\ converting[q].suggestion # 0
      BY <1>1, <1>2, <2>2
    <3>2. r # p /\ converting'[r] = converting[r]
      BY <1>1, <2>1, <2>2, <3>1
    <3> QED BY <2>2, <3>1, <3>2 DEF HeldApart, SuggestionsInv
  <2> QED BY <2>2 DEF HeldApart
<1>4. UNCHANGED <<runs, suggestions, links>>
  BY DEF RollBackConversion
<1>5. SuggestionsTypeOK'
  BY <1>1, <1>4 DEF SuggestionsInv, SuggestionsTypeOK
<1>6. ASSUME NEW q \in Planner PROVE HoldsOpen(q)'
  BY <1>1, <1>4 DEF SuggestionsInv, HoldsOpen
<1> QED BY <1>3, <1>4, <1>5, <1>6 DEF SuggestionsInv, LinkOfConverted, LinksApart,
      ConvertedIsLinked, MadeFromTheNewestRun

LEMMA ConvertSuggestionKeeps ==
  ASSUME SuggestionsInv, NEW p \in Planner, ConvertSuggestion(p)
  PROVE  SuggestionsInv'
<1> DEFINE c == converting[p]
           s == c.suggestion
           new == Len(links) + 1
<1>1. /\ Len(runs) \in Nat /\ Len(suggestions) \in Nat /\ Len(links) \in Nat
      /\ suggestions \in Seq(Suggestion) /\ links \in Seq(Conversion)
      /\ converting \in [Planner -> Conversion] /\ c \in Conversion
  BY DEF SuggestionsInv, SuggestionsTypeOK
<1>2. /\ s \in 1..Len(suggestions) /\ suggestions[s].status = "open" /\ c.of \in 0..Len(runs)
      /\ \A n \in (suggestions[s].run + 1)..c.of : runs[n] # "completed"
  BY DEF SuggestionsInv, HoldsOpen, ConvertSuggestion
<1>3. suggestions' = [suggestions EXCEPT ![s].status = "converted"]
  BY DEF ConvertSuggestion
<1>4. /\ suggestions' \in Seq(Suggestion) /\ Len(suggestions') = Len(suggestions)
      /\ \A k \in 1..Len(suggestions) :
           /\ k # s => suggestions'[k] = suggestions[k]
           /\ suggestions'[k].run = suggestions[k].run
      /\ suggestions'[s].status = "converted"
  BY <1>1, <1>2, <1>3, StatusSet
<1>5. /\ links' \in Seq(Conversion) /\ Len(links') = new
      /\ \A d \in 1..Len(links) : links'[d] = links[d]
      /\ links'[new] = c
  BY <1>1 DEF ConvertSuggestion
<1>6. /\ converting' \in [Planner -> Conversion] /\ runs' = runs
      /\ \A q \in Planner : converting'[q] = IF q = p THEN NoConversion ELSE converting[q]
  BY <1>1 DEF ConvertSuggestion, Conversion, NoConversion
<1>7. \A d \in 1..Len(links') : d \in 1..Len(links) \/ d = new
  BY <1>1, <1>5
<1>8. \A d \in 1..Len(links) : LinkOfConverted(d) /\ links[d].suggestion # s
  BY <1>2 DEF SuggestionsInv, LinkOfConverted
<1>9. \A q \in Planner : q # p => converting[q].suggestion # s
  BY DEF SuggestionsInv, HeldApart, ConvertSuggestion
<1> HIDE DEF s, c, new
<1>10. SuggestionsTypeOK'
  BY <1>1, <1>4, <1>5, <1>6 DEF SuggestionsTypeOK, SuggestionsInv
<1>11. ASSUME NEW q \in Planner PROVE HoldsOpen(q)'
  <2>1. CASE q = p
    BY <2>1, <1>6 DEF HoldsOpen
  <2>2. CASE q # p
    BY <2>2, <1>4, <1>6, <1>9 DEF HoldsOpen, SuggestionsInv
  <2> QED BY <2>1, <2>2
<1>12. HeldApart'
  <2>1. NoConversion.suggestion = 0
    BY DEF NoConversion
  <2>2. \A q \in Planner : converting[q] # NoConversion => converting[q].suggestion # 0
    BY DEF SuggestionsInv, HoldsOpen
  <2> QED BY <1>6, <2>1, <2>2 DEF HeldApart, SuggestionsInv
<1>13. ASSUME NEW d \in 1..Len(links') PROVE LinkOfConverted(d)'
  <2>1. CASE d = new
    BY <2>1, <1>2, <1>4, <1>5, <1>6 DEF LinkOfConverted, c, s
  <2>2. CASE d \in 1..Len(links)
    BY <2>2, <1>4, <1>5, <1>6, <1>8 DEF LinkOfConverted
  <2> QED BY <2>1, <2>2, <1>7
<1>14. LinksApart'
  <2> SUFFICES ASSUME NEW d \in 1..Len(links'), NEW e \in 1..Len(links'),
                      links'[d].suggestion = links'[e].suggestion
               PROVE  d = e
    BY DEF LinksApart
  <2>1. links'[new].suggestion = s
    BY <1>5 DEF s
  <2>2. CASE d \in 1..Len(links) /\ e \in 1..Len(links)
    BY <2>2, <1>5 DEF LinksApart, SuggestionsInv
  <2> QED BY <2>1, <2>2, <1>5, <1>7, <1>8
<1>15. ConvertedIsLinked'
  <2> SUFFICES ASSUME NEW k \in 1..Len(suggestions'), suggestions'[k].status = "converted"
               PROVE  \E d \in 1..Len(links') : links'[d].suggestion = k
    BY DEF ConvertedIsLinked
  <2>1. CASE k = s
    <3>1. new \in 1..Len(links') /\ links'[new].suggestion = s
      BY <1>1, <1>5 DEF s, new
    <3> QED BY <2>1, <3>1
  <2>2. CASE k # s
    <3>1. PICK d \in 1..Len(links) : links[d].suggestion = k
      BY <2>2, <1>4 DEF SuggestionsInv, ConvertedIsLinked
    <3>2. d \in 1..Len(links')
      BY <1>1, <1>5 DEF new
    <3> QED BY <3>1, <3>2, <1>5
  <2> QED BY <2>1, <2>2
<1>16. MadeFromTheNewestRun'
  <2> SUFFICES ASSUME NEW d \in 1..Len(links'),
                      NEW n \in (suggestions'[links'[d].suggestion].run + 1)..links'[d].of
               PROVE  runs[n] # "completed"
    BY <1>6 DEF MadeFromTheNewestRun
  <2>1. CASE d = new
    <3>1. links'[d].suggestion = s /\ links'[d].of = c.of /\ suggestions'[s].run = suggestions[s].run
      BY <2>1, <1>2, <1>4, <1>5 DEF s
    <3> QED BY <3>1, <1>2
  <2>2. CASE d \in 1..Len(links)
    <3>1. links'[d] = links[d] /\ links[d].suggestion \in 1..Len(suggestions)
      BY <2>2, <1>5, <1>8 DEF LinkOfConverted
    <3>2. suggestions'[links[d].suggestion].run = suggestions[links[d].suggestion].run
      BY <3>1, <1>4
    <3> QED BY <2>2, <3>1, <3>2 DEF MadeFromTheNewestRun, SuggestionsInv
  <2> QED BY <2>1, <2>2, <1>7
<1> QED BY <1>10, <1>11, <1>12, <1>13, <1>14, <1>15, <1>16 DEF SuggestionsInv

LEMMA SuggestionsNextKeeps ==
  ASSUME SuggestionsInv, [SuggestionsNext]_suggestionVars PROVE SuggestionsInv'
<1>1. ASSUME \/ \E result \in Results : RunMrp(result)
             \/ FailMrp
             \/ \E r \in 1..Len(runs) : ArchiveRun(r)
             \/ \E s \in 1..Len(suggestions) : CancelSuggestion(s)
      PROVE  SuggestionsInv'
  BY <1>1, SuggestionsGrow, GrowsKeeps
<1>2. ASSUME NEW p \in Planner, NEW s \in 1..Len(suggestions), LookAtSuggestion(p, s)
      PROVE  SuggestionsInv'
  BY <1>2, LookAtSuggestionKeeps
<1>3. ASSUME NEW p \in Planner, ConvertSuggestion(p) PROVE SuggestionsInv'
  BY <1>3, ConvertSuggestionKeeps
<1>4. ASSUME NEW p \in Planner, RollBackConversion(p) PROVE SuggestionsInv'
  BY <1>4, RollBackConversionKeeps
<1>5. CASE UNCHANGED suggestionVars
  BY <1>5 DEF suggestionVars, SuggestionsInv, SuggestionsTypeOK, HoldsOpen, HeldApart,
     LinkOfConverted, LinksApart, ConvertedIsLinked, MadeFromTheNewestRun
<1> QED BY <1>1, <1>2, <1>3, <1>4, <1>5 DEF SuggestionsNext

\* The invariant counts the links of a suggestion: one if it was converted, else none.
LEMMA SuggestionsInvGives == ASSUME SuggestionsInv PROVE DocumentsFollowSuggestions
<1> SUFFICES ASSUME NEW s \in 1..Len(suggestions)
             PROVE  Cardinality({d \in 1..Len(links) : links[d].suggestion = s})
                      = IF suggestions[s].status = "converted" THEN 1 ELSE 0
  BY DEF SuggestionsInv, DocumentsFollowSuggestions, OneDocumentPerSuggestion
<1>1. CASE suggestions[s].status = "converted"
  <2>1. PICK d \in 1..Len(links) : links[d].suggestion = s
    BY <1>1 DEF SuggestionsInv, ConvertedIsLinked
  <2>2. {e \in 1..Len(links) : links[e].suggestion = s} = {d}
    BY <2>1 DEF SuggestionsInv, LinksApart
  <2> QED BY <1>1, <2>2, FS_Singleton
<1>2. CASE suggestions[s].status # "converted"
  <2>1. {e \in 1..Len(links) : links[e].suggestion = s} = {}
    BY <1>2 DEF SuggestionsInv, LinkOfConverted
  <2> QED BY <1>2, <2>1, FS_EmptySet
<1> QED BY <1>1, <1>2

\* Whatever planners do at once: no document is made twice from a suggestion, none from
\* one that was cancelled, and each from a run that was the newest when it was looked at.
THEOREM SuggestionsAreFollowed == SuggestionsSpec => []DocumentsFollowSuggestions
<1>1. SuggestionsSpec => []SuggestionsInv
  BY SuggestionsInitHolds, SuggestionsNextKeeps, PTL DEF SuggestionsSpec
<1> QED BY <1>1, SuggestionsInvGives, PTL

(***************************************************************************)
(* Inspections and their alerts.                                           *)
(***************************************************************************)

HasAlert(n) == \E k \in 1..Len(alerts) : alerts[k].inspection = n

CallsPlaced ==
  /\ \A u \in Inspector : inspecting[u].id \in 0..Len(inspections)
  /\ \A u \in Handler : alerting[u].id \in 0..Len(alerts)
  /\ \A k \in 1..Len(alerts) : alerts[k].inspection \in 0..Len(inspections)

\* What a call retrieved is still what the tables say, if no other call overlapped.
ReadsCurrent(u) ==
  inspecting[u].id # 0 /\ inspecting[u].id \notin overlapped =>
    /\ inspecting[u].row = inspections[inspecting[u].id]
    /\ inspecting[u].recorded => Recorded(inspecting[u].id) # {}
CallsApart ==
  \A u, v \in Inspector :
    u # v /\ inspecting[u].id = inspecting[v].id /\ inspecting[u].id # 0
      => inspecting[u].id \in overlapped

\* The judgement of one inspection agrees with its results.
Agrees(n) ==
  LET i == inspections[n] IN
  /\ i.judgement = "pending" <=> i.status \in {"draft", "submitted"}
  /\ i.status # "draft" => Recorded(n) # {}
  /\ i.judgement = "passed" => Failing(n) = {}
  /\ i.judgement = "failed" => Failing(n) # {}

\* Also an inspection that failed when a call retrieved it has an alert: the call may
\* write the judgement back.
Alerted(n) ==
  /\ inspections[n].judgement = "failed" => HasAlert(n)
  /\ \A u \in Inspector :
       inspecting[u].id = n /\ inspecting[u].row.judgement = "failed" => HasAlert(n)

InspectionsInv ==
  /\ InspectionsTyped
  /\ CallsPlaced
  /\ \A u \in Inspector : ReadsCurrent(u)
  /\ CallsApart
  /\ \A n \in 1..Len(inspections) : n \notin overlapped => Agrees(n)
  /\ \A n \in 1..Len(inspections) : n \notin moved => Alerted(n)

LEMMA InspectionsInitHolds == ASSUME InspectionsInit PROVE InspectionsInv
  BY DEF InspectionsInit, InspectionsInv, InspectionsTyped, CallsPlaced, ReadsCurrent, CallsApart,
     NoInspectionCall, NoAlertCall, InspectionCall, AlertCall, Inspection, Alert, NewInspection,
     InspectionStatus, Judgement

LEMMA InspectionsSizes ==
  ASSUME InspectionsInv
  PROVE  /\ Len(inspections) \in Nat /\ Len(alerts) \in Nat /\ Len(results) = Len(inspections)
         /\ inspections \in Seq(Inspection) /\ results \in Seq([Item -> Verdict])
         /\ alerts \in Seq(Alert)
         /\ \A n \in 1..Len(inspections) :
              inspections[n] \in Inspection /\ results[n] \in [Item -> Verdict]
         /\ \A k \in 1..Len(alerts) : alerts[k] \in Alert
         /\ \A u \in Inspector : inspecting[u] \in InspectionCall
         /\ \A u \in Handler : alerting[u] \in AlertCall
<1>1. /\ InspectionsTyped
      /\ inspections \in Seq(Inspection) /\ results \in Seq([Item -> Verdict])
      /\ alerts \in Seq(Alert) /\ Len(results) = Len(inspections)
  BY DEF InspectionsInv, InspectionsTyped
<1>2. \A n \in 1..Len(inspections) : inspections[n] \in Inspection
  BY <1>1, ElementOfSeq
<1>3. \A n \in 1..Len(results) : results[n] \in [Item -> Verdict]
  BY <1>1, ElementOfSeq
<1>4. \A k \in 1..Len(alerts) : alerts[k] \in Alert
  BY <1>1, ElementOfSeq
<1> QED BY <1>1, <1>2, <1>3, <1>4 DEF InspectionsTyped

-----------------------------------------------------------------------------
(* A call on an inspection that ends changes at most the inspection that   *)
(* it retrieved, and raises alerts but removes none.                       *)

OthersUntouched(u) ==
  \A m \in 1..Len(inspections) :
    m # inspecting[u].id => inspections'[m] = inspections[m] /\ results'[m] = results[m]
AlertsGrow ==
  /\ alerts' \in Seq(Alert) /\ Len(alerts) <= Len(alerts')
  /\ \A k \in 1..Len(alerts) : alerts'[k] = alerts[k]
  /\ \A k \in 1..Len(alerts') : alerts'[k].inspection \in 0..Len(inspections)

LEMMA AlertsStay ==
  ASSUME InspectionsInv, AlertsGrow, NEW n, HasAlert(n) PROVE HasAlert(n)'
<1>1. PICK k \in 1..Len(alerts) : alerts[k].inspection = n
  BY DEF HasAlert
<1>2. Len(alerts) \in Nat /\ Len(alerts') \in Nat
  BY InspectionsSizes DEF AlertsGrow
<1>3. k \in 1..Len(alerts') /\ alerts'[k].inspection = n
  BY <1>1, <1>2 DEF AlertsGrow
<1> QED BY <1>3 DEF HasAlert

LEMMA InspectionCallEnds ==
  ASSUME InspectionsInv, NEW u \in Inspector, NEW n, n = inspecting[u].id, n # 0, Answered(u),
         inspections' \in Seq(Inspection), results' \in Seq([Item -> Verdict]),
         Len(inspections') = Len(inspections), Len(results') = Len(results),
         OthersUntouched(u), AlertsGrow, UNCHANGED <<alerting, overlapped, moved>>,
         n \notin overlapped => Agrees(n)',
         n \notin moved /\ inspections'[n].judgement = "failed" => HasAlert(n)'
  PROVE  InspectionsInv'
<1>1. /\ Len(inspections) \in Nat /\ Len(alerts) \in Nat /\ Len(results) = Len(inspections)
      /\ n \in 1..Len(inspections)
      /\ InspectionsTyped
  <2>1. Len(inspections) \in Nat /\ Len(alerts) \in Nat /\ Len(results) = Len(inspections)
    BY InspectionsSizes
  <2>2. InspectionsTyped /\ CallsPlaced
    BY DEF InspectionsInv
  <2>3. n \in 0..Len(inspections)
    BY <2>2 DEF CallsPlaced
  <2> QED BY <2>1, <2>2, <2>3
<1>2. /\ inspecting' \in [Inspector -> InspectionCall]
      /\ \A v \in Inspector : inspecting'[v] = IF v = u THEN NoInspectionCall ELSE inspecting[v]
      /\ NoInspectionCall.id = 0
  <2>1. inspecting \in [Inspector -> InspectionCall]
    BY <1>1 DEF InspectionsTyped
  <2>2. NewInspection \in Inspection
    BY DEF NewInspection, Inspection, InspectionStatus, Judgement
  <2>3. NoInspectionCall \in InspectionCall /\ NoInspectionCall.id = 0
    BY <2>2 DEF NoInspectionCall, InspectionCall
  <2>4. inspecting' = [inspecting EXCEPT ![u] = NoInspectionCall]
    BY DEF Answered
  <2> QED BY <2>1, <2>3, <2>4
<1>3. InspectionsTyped'
  BY <1>1, <1>2 DEF InspectionsTyped, AlertsGrow
<1>4. CallsPlaced'
  <2>1. Len(alerts') \in Nat
    BY DEF AlertsGrow
  <2>2. \A v \in Inspector : inspecting'[v].id \in 0..Len(inspections')
    BY <1>1, <1>2 DEF InspectionsInv, CallsPlaced
  <2>3. \A v \in Handler : alerting'[v].id \in 0..Len(alerts')
    BY <1>1, <2>1 DEF InspectionsInv, CallsPlaced, AlertsGrow
  <2>4. \A k \in 1..Len(alerts') : alerts'[k].inspection \in 0..Len(inspections')
    BY <1>1 DEF AlertsGrow
  <2> QED BY <2>2, <2>3, <2>4 DEF CallsPlaced
<1>5. ASSUME NEW m \in 1..Len(inspections), m # n PROVE Agrees(m)' <=> Agrees(m)
  BY <1>5 DEF OthersUntouched, Agrees, Recorded, Failing
<1>6. ASSUME NEW v \in Inspector PROVE ReadsCurrent(v)'
  <2> SUFFICES ASSUME inspecting'[v].id # 0, inspecting'[v].id \notin overlapped
               PROVE  /\ inspecting'[v].row = inspections'[inspecting'[v].id]
                      /\ inspecting'[v].recorded =>
                           {i \in Item : results'[inspecting'[v].id][i] # "none"} # {}
    BY DEF ReadsCurrent, Recorded
  <2>1. v # u /\ inspecting'[v] = inspecting[v]
    BY <1>2
  <2>2. inspecting[v].id # n /\ inspecting[v].id \in 1..Len(inspections)
    BY <2>1, <1>1 DEF InspectionsInv, CallsApart, CallsPlaced
  <2>3. /\ inspecting[v].row = inspections[inspecting[v].id]
        /\ inspecting[v].recorded => Recorded(inspecting[v].id) # {}
    BY <2>1 DEF InspectionsInv, ReadsCurrent
  <2>4. /\ inspections'[inspecting[v].id] = inspections[inspecting[v].id]
        /\ results'[inspecting[v].id] = results[inspecting[v].id]
    BY <2>2 DEF OthersUntouched
  <2> QED BY <2>1, <2>3, <2>4 DEF Recorded
<1>7. CallsApart'
  BY <1>2 DEF InspectionsInv, CallsApart
<1>8. ASSUME NEW m \in 1..Len(inspections), m \notin overlapped PROVE Agrees(m)'
  BY <1>5, <1>8 DEF InspectionsInv
<1>9. ASSUME NEW m \in 1..Len(inspections), m \notin moved PROVE Alerted(m)'
  <2>1. Alerted(m)
    BY <1>9 DEF InspectionsInv
  <2>2. HasAlert(m) => HasAlert(m)'
    BY AlertsStay
  <2>3. inspections'[m].judgement = "failed" => HasAlert(m)'
    BY <1>9, <2>1, <2>2 DEF Alerted, OthersUntouched
  <2>4. ASSUME NEW v \in Inspector, inspecting'[v].id = m, inspecting'[v].row.judgement = "failed"
        PROVE  HasAlert(m)'
    <3>1. v # u
      BY <1>1, <1>2, <2>4
    <3> QED BY <1>2, <2>1, <2>2, <2>4, <3>1 DEF Alerted
  <2> QED BY <2>3, <2>4 DEF Alerted
<1> QED BY <1>3, <1>4, <1>6, <1>7, <1>8, <1>9 DEF InspectionsInv

-----------------------------------------------------------------------------
\* What a call has retrieved can be saved: the row is one of the table's.
LEMMA CallOfRow ==
  ASSUME InspectionsInv, NEW u \in Inspector, inspecting[u].id # 0
  PROVE  /\ inspecting[u].id \in 1..Len(inspections)
         /\ inspecting[u].row \in Inspection
         /\ inspecting[u].id \notin overlapped =>
              /\ inspecting[u].row = inspections[inspecting[u].id]
              /\ inspecting[u].recorded => Recorded(inspecting[u].id) # {}
              /\ Agrees(inspecting[u].id)
         /\ inspecting[u].id \notin moved => Alerted(inspecting[u].id)
         /\ inspections[inspecting[u].id] \in Inspection
<1>1. inspecting[u].id \in 1..Len(inspections)
  BY InspectionsSizes DEF InspectionsInv, CallsPlaced
<1>2. inspecting[u].row \in Inspection
  BY InspectionsSizes DEF InspectionCall
<1>3. inspecting[u].id \notin overlapped =>
        /\ inspecting[u].row = inspections[inspecting[u].id]
        /\ inspecting[u].recorded => Recorded(inspecting[u].id) # {}
        /\ Agrees(inspecting[u].id)
  BY <1>1 DEF InspectionsInv, ReadsCurrent
<1> QED BY <1>1, <1>2, <1>3, InspectionsSizes DEF InspectionsInv

\* Saving another row for an inspection leaves the others alone.
LEMMA RowSaved ==
  ASSUME InspectionsInv, NEW u \in Inspector, inspecting[u].id # 0, NEW row \in Inspection,
         inspections' = [inspections EXCEPT ![inspecting[u].id] = row], results' = results
  PROVE  /\ inspections' \in Seq(Inspection) /\ Len(inspections') = Len(inspections)
         /\ inspections'[inspecting[u].id] = row
         /\ OthersUntouched(u)
<1>1. inspecting[u].id \in 1..Len(inspections) /\ inspections \in Seq(Inspection)
  BY CallOfRow, InspectionsSizes
<1>2. inspections' \in Seq(Inspection) /\ Len(inspections') = Len(inspections)
  BY <1>1, ExceptSeq
<1>3. \A m \in 1..Len(inspections) :
        inspections'[m] = IF m = inspecting[u].id THEN row ELSE inspections[m]
  BY <1>1, ExceptSeq
<1> QED BY <1>1, <1>2, <1>3 DEF OthersUntouched

LEMMA NoAlertRaised ==
  ASSUME InspectionsInv, alerts' = alerts PROVE AlertsGrow /\ \A n : HasAlert(n)' <=> HasAlert(n)
  BY InspectionsSizes DEF AlertsGrow, HasAlert, InspectionsInv, CallsPlaced

LEMMA LeaveInspectionKeeps ==
  ASSUME InspectionsInv, NEW u \in Inspector, LeaveInspection(u) PROVE InspectionsInv'
<1> SUFFICES ASSUME NEW n, n = inspecting[u].id PROVE InspectionsInv'
  OBVIOUS
<1>1. /\ n # 0 /\ Answered(u) /\ inspections' = inspections
      /\ results' = results /\ alerts' = alerts /\ UNCHANGED <<alerting, overlapped, moved>>
  BY DEF LeaveInspection
<1>2. /\ inspections' \in Seq(Inspection) /\ results' \in Seq([Item -> Verdict])
      /\ Len(inspections') = Len(inspections) /\ Len(results') = Len(results)
      /\ OthersUntouched(u)
  BY <1>1, InspectionsSizes DEF OthersUntouched
<1>3. AlertsGrow /\ (HasAlert(n)' <=> HasAlert(n))
  BY <1>1, NoAlertRaised
<1>4. (n \notin overlapped => Agrees(n)) /\ (n \notin moved => Alerted(n))
  BY <1>1, CallOfRow
<1>5. n \notin overlapped => Agrees(n)'
  BY <1>1, <1>4 DEF Agrees, Recorded, Failing
<1>6. n \notin moved /\ inspections'[n].judgement = "failed" => HasAlert(n)'
  BY <1>1, <1>3, <1>4 DEF Alerted
<1> QED BY <1>1, <1>2, <1>3, <1>5, <1>6, InspectionCallEnds

LEMMA RecordResultsKeeps ==
  ASSUME InspectionsInv, NEW u \in Inspector, RecordResults(u) PROVE InspectionsInv'
<1> SUFFICES ASSUME NEW n, n = inspecting[u].id PROVE InspectionsInv'
  OBVIOUS
<1>1. /\ n # 0 /\ inspecting[u].row.status \in {"draft", "submitted"} /\ Answered(u)
      /\ inspections' = inspections /\ alerts' = alerts /\ UNCHANGED <<alerting, overlapped, moved>>
  BY DEF RecordResults
<1>2. /\ n \in 1..Len(inspections) /\ results \in Seq([Item -> Verdict])
      /\ results[n] \in [Item -> Verdict] /\ Len(results) = Len(inspections)
      /\ inspections \in Seq(Inspection) /\ inspections[n] \in Inspection
  BY <1>1, CallOfRow, InspectionsSizes
<1>3. PICK rows \in UNION {[I -> Value] : I \in (SUBSET Item) \ {{}}} :
        results' = [results EXCEPT ![n] =
          [i \in Item |-> IF i \in DOMAIN rows THEN RowJudgement(i, rows[i]) ELSE @[i]]]
  BY DEF RecordResults
<1> DEFINE before == results[n]
           after == [i \in Item |-> IF i \in DOMAIN rows THEN RowJudgement(i, rows[i]) ELSE before[i]]
<1>4. results' = [results EXCEPT ![n] = after]
  BY <1>3
<1>5. after \in [Item -> Verdict] /\ {i \in Item : after[i] # "none"} # {}
  <2>1. PICK I \in (SUBSET Item) \ {{}} : rows \in [I -> Value]
    OBVIOUS
  <2>2. \A i, v : RowJudgement(i, v) \in {"qualified", "unqualified"}
    BY DEF RowJudgement
  <2>3. DOMAIN rows = I /\ I \subseteq Item
    BY <2>1
  <2>4. PICK i \in I : TRUE
    BY <2>1
  <2>5. after \in [Item -> Verdict]
    BY <1>2, <2>2 DEF Verdict
  <2>6. i \in Item /\ after[i] \in {"qualified", "unqualified"}
    BY <2>2, <2>3, <2>4
  <2> QED BY <2>5, <2>6
<1> HIDE DEF after
<1>6. results' \in Seq([Item -> Verdict]) /\ Len(results') = Len(results)
  BY <1>2, <1>4, <1>5, ExceptSeq
<1>7. \A m \in 1..Len(results) : results'[m] = IF m = n THEN after ELSE results[m]
  BY <1>2, <1>4, <1>5, ExceptSeq
<1>8. OthersUntouched(u)
  BY <1>1, <1>2, <1>7 DEF OthersUntouched
<1>9. AlertsGrow /\ (HasAlert(n)' <=> HasAlert(n))
  BY <1>1, NoAlertRaised
<1>10. n \notin overlapped => Agrees(n)'
  <2> SUFFICES ASSUME n \notin overlapped PROVE Agrees(n)'
    OBVIOUS
  <2>1. inspecting[u].row = inspections[n] /\ Agrees(n)
    BY <1>1, CallOfRow
  <2>2. inspections[n].judgement = "pending"
    BY <1>1, <2>1 DEF Agrees
  <2>3. Recorded(n)' # {}
    BY <1>2, <1>5, <1>7 DEF Recorded
  <2> QED BY <1>1, <2>1, <2>2, <2>3 DEF Agrees
<1>11. n \notin moved /\ inspections'[n].judgement = "failed" => HasAlert(n)'
  BY <1>1, <1>9, CallOfRow DEF Alerted
<1> QED BY <1>1, <1>2, <1>6, <1>8, <1>9, <1>10, <1>11, InspectionCallEnds

\* The calls that save a row and raise no alert.
LEMMA SavingKeeps ==
  ASSUME InspectionsInv, NEW u \in Inspector, NEW n, n = inspecting[u].id, n # 0, Answered(u),
         NEW row \in Inspection, inspections' = [inspections EXCEPT ![n] = row],
         UNCHANGED <<results, alerts, alerting, overlapped, moved>>,
         n \notin overlapped => Agrees(n)',
         row.judgement \in {inspecting[u].row.judgement, inspections[n].judgement}
  PROVE  InspectionsInv'
<1>1. /\ inspections' \in Seq(Inspection) /\ Len(inspections') = Len(inspections)
      /\ inspections'[n] = row /\ OthersUntouched(u)
  BY RowSaved
<1>2. alerts' = alerts
  OBVIOUS
<1>3. AlertsGrow /\ (HasAlert(n)' <=> HasAlert(n))
  BY <1>2, NoAlertRaised
<1>4. n \notin moved => Alerted(n)
  BY CallOfRow
<1>5. n \notin moved /\ inspections'[n].judgement = "failed" => HasAlert(n)'
  BY <1>1, <1>3, <1>4 DEF Alerted
<1>6. results' \in Seq([Item -> Verdict]) /\ Len(results') = Len(results)
  BY InspectionsSizes
<1> QED BY <1>1, <1>3, <1>5, <1>6, InspectionCallEnds

LEMMA SubmitInspectionKeeps ==
  ASSUME InspectionsInv, NEW u \in Inspector, SubmitInspection(u) PROVE InspectionsInv'
<1> SUFFICES ASSUME NEW n, n = inspecting[u].id PROVE InspectionsInv'
  OBVIOUS
<1> DEFINE row == [inspections[n] EXCEPT !.status = "submitted"]
<1>1. /\ n # 0 /\ inspecting[u].row.status = "draft" /\ inspecting[u].recorded /\ Answered(u)
      /\ inspections' = [inspections EXCEPT ![n] = row]
      /\ UNCHANGED <<results, alerts, alerting, overlapped, moved>>
  BY DEF SubmitInspection
<1>2. n \in 1..Len(inspections) /\ inspections[n] \in Inspection
  BY <1>1, CallOfRow
<1>3. row \in Inspection /\ row.judgement = inspections[n].judgement /\ row.status = "submitted"
  BY <1>2 DEF Inspection, InspectionStatus
<1> HIDE DEF row
<1>4. inspections'[n] = row
  BY <1>1, <1>3, RowSaved
<1>5. n \notin overlapped => Agrees(n)'
  <2> SUFFICES ASSUME n \notin overlapped PROVE Agrees(n)'
    OBVIOUS
  <2>1. inspecting[u].row = inspections[n] /\ Recorded(n) # {} /\ Agrees(n)
    BY <1>1, CallOfRow
  <2>2. Recorded(n)' = Recorded(n) /\ Failing(n)' = Failing(n)
    BY <1>1 DEF Recorded, Failing
  <2> QED BY <1>1, <1>3, <1>4, <2>1, <2>2 DEF Agrees
<1> QED BY <1>1, <1>3, <1>5, SavingKeeps

LEMMA CloseInspectionKeeps ==
  ASSUME InspectionsInv, NEW u \in Inspector, CloseInspection(u) PROVE InspectionsInv'
<1> SUFFICES ASSUME NEW n, n = inspecting[u].id PROVE InspectionsInv'
  OBVIOUS
<1> DEFINE row == [inspections[n] EXCEPT !.status = "closed"]
<1>1. /\ n # 0 /\ inspecting[u].row.status = "judged" /\ Answered(u)
      /\ inspections' = [inspections EXCEPT ![n] = row]
      /\ UNCHANGED <<results, alerts, alerting, overlapped, moved>>
  BY DEF CloseInspection
<1>2. n \in 1..Len(inspections) /\ inspections[n] \in Inspection
  BY <1>1, CallOfRow
<1>3. row \in Inspection /\ row.judgement = inspections[n].judgement /\ row.status = "closed"
  BY <1>2 DEF Inspection, InspectionStatus
<1> HIDE DEF row
<1>4. inspections'[n] = row
  BY <1>1, <1>3, RowSaved
<1>5. n \notin overlapped => Agrees(n)'
  <2> SUFFICES ASSUME n \notin overlapped PROVE Agrees(n)'
    OBVIOUS
  <2>1. inspecting[u].row = inspections[n] /\ Agrees(n)
    BY <1>1, CallOfRow
  <2>2. Recorded(n)' = Recorded(n) /\ Failing(n)' = Failing(n)
    BY <1>1 DEF Recorded, Failing
  <2> QED BY <1>1, <1>3, <1>4, <2>1, <2>2 DEF Agrees
<1> QED BY <1>1, <1>3, <1>5, SavingKeeps

LEMMA PatchInspectionKeeps ==
  ASSUME InspectionsInv, NEW u \in Inspector, PatchInspection(u) PROVE InspectionsInv'
<1> SUFFICES ASSUME NEW n, n = inspecting[u].id PROVE InspectionsInv'
  OBVIOUS
<1> DEFINE row == inspecting[u].row
<1>1. /\ n # 0 /\ Answered(u) /\ inspections' = [inspections EXCEPT ![n] = row]
      /\ UNCHANGED <<results, alerts, alerting, overlapped, moved>>
  BY DEF PatchInspection
<1>2. row \in Inspection
  BY <1>1, CallOfRow
<1>3. inspections'[n] = row
  BY <1>1, <1>2, RowSaved
<1>4. n \notin overlapped => Agrees(n)'
  <2> SUFFICES ASSUME n \notin overlapped PROVE Agrees(n)'
    OBVIOUS
  <2>1. inspecting[u].row = inspections[n] /\ Agrees(n)
    BY <1>1, CallOfRow
  <2>2. Recorded(n)' = Recorded(n) /\ Failing(n)' = Failing(n)
    BY <1>1 DEF Recorded, Failing
  <2> QED BY <1>3, <2>1, <2>2 DEF Agrees
<1> QED BY <1>1, <1>2, <1>4, SavingKeeps

LEMMA EnsureAlertRaises ==
  ASSUME InspectionsInv, NEW n \in 1..Len(inspections), EnsureAlert(n)
  PROVE  AlertsGrow /\ HasAlert(n)'
<1>1. CASE HasAlert(n)
  <2>1. alerts' = alerts
    BY <1>1 DEF EnsureAlert, HasAlert
  <2> QED BY <1>1, <2>1, NoAlertRaised
<1>2. CASE ~ HasAlert(n)
  <2> DEFINE new == [inspection |-> n, status |-> "open"]
  <2>1. alerts' = Append(alerts, new)
    BY <1>2 DEF EnsureAlert, HasAlert
  <2>2. /\ Len(inspections) \in Nat /\ Len(alerts) \in Nat /\ alerts \in Seq(Alert)
        /\ new \in Alert /\ new.inspection = n
    BY InspectionsSizes DEF Alert
  <2> HIDE DEF new
  <2>3. /\ alerts' \in Seq(Alert) /\ Len(alerts') = Len(alerts) + 1
        /\ \A k \in 1..Len(alerts) : alerts'[k] = alerts[k]
        /\ alerts'[Len(alerts) + 1] = new
    BY <2>1, <2>2
  <2>4. \A k \in 1..Len(alerts') : alerts'[k].inspection \in 0..Len(inspections)
    BY <2>2, <2>3 DEF InspectionsInv, CallsPlaced
  <2>5. Len(alerts) + 1 \in 1..Len(alerts')
    BY <2>2, <2>3
  <2> QED BY <2>2, <2>3, <2>4, <2>5 DEF AlertsGrow, HasAlert
<1> QED BY <1>1, <1>2

LEMMA JudgeInspectionKeeps ==
  ASSUME InspectionsInv, NEW u \in Inspector, JudgeInspection(u) PROVE InspectionsInv'
<1> SUFFICES ASSUME NEW n, n = inspecting[u].id PROVE InspectionsInv'
  OBVIOUS
<1>1. /\ n # 0 /\ inspecting[u].row.status = "submitted" /\ Recorded(n) # {} /\ Answered(u)
      /\ UNCHANGED <<results, alerting, overlapped, moved>>
  BY DEF JudgeInspection
<1>2. PICK judgement \in JudgementsAllowed(n) :
        /\ inspections' = [inspections EXCEPT ![n] = [status |-> "judged", judgement |-> judgement]]
        /\ IF judgement = "failed" THEN EnsureAlert(n) ELSE UNCHANGED alerts
  BY DEF JudgeInspection
<1> DEFINE row == [status |-> "judged", judgement |-> judgement]
<1>3. /\ row \in Inspection /\ row.judgement = judgement /\ row.status = "judged"
      /\ judgement # "pending"
      /\ judgement = "passed" => Failing(n) = {}
      /\ judgement = "failed" => Failing(n) # {}
  BY DEF JudgementsAllowed, Inspection, InspectionStatus, Judgement
<1>4. inspections' = [inspections EXCEPT ![n] = row]
  BY <1>2
<1> HIDE DEF row
<1>5. /\ inspections' \in Seq(Inspection) /\ Len(inspections') = Len(inspections)
      /\ inspections'[n] = row /\ OthersUntouched(u)
  BY <1>1, <1>3, <1>4, RowSaved
<1>6. AlertsGrow /\ (judgement = "failed" => HasAlert(n)')
  <2>1. CASE judgement = "failed"
    <3>1. n \in 1..Len(inspections) /\ EnsureAlert(n)
      BY <1>1, <1>2, <2>1, CallOfRow
    <3> QED BY <3>1, EnsureAlertRaises
  <2>2. CASE judgement # "failed"
    BY <1>2, <2>2, NoAlertRaised
  <2> QED BY <2>1, <2>2
<1>7. n \notin overlapped => Agrees(n)'
  <2>1. Recorded(n)' = Recorded(n) /\ Failing(n)' = Failing(n)
    BY <1>1 DEF Recorded, Failing
  <2> QED BY <1>1, <1>3, <1>5, <2>1 DEF Agrees
<1>8. n \notin moved /\ inspections'[n].judgement = "failed" => HasAlert(n)'
  BY <1>3, <1>5, <1>6
<1>9. results' \in Seq([Item -> Verdict]) /\ Len(results') = Len(results)
  BY <1>1, InspectionsSizes
<1> QED BY <1>1, <1>5, <1>6, <1>7, <1>8, <1>9, InspectionCallEnds

LEMMA RetrieveInspectionKeeps ==
  ASSUME InspectionsInv, NEW u \in Inspector, NEW n \in 1..Len(inspections),
         RetrieveInspection(u, n)
  PROVE  InspectionsInv'
<1> DEFINE call == [id |-> n, row |-> inspections[n], recorded |-> Recorded(n) # {}]
<1>1. /\ InspectionsTyped /\ Len(inspections) \in Nat /\ inspections[n] \in Inspection
      /\ UNCHANGED <<inspections, results, alerts, alerting, moved>>
      /\ inspecting[u].id = 0
      /\ inspecting' = [inspecting EXCEPT ![u] = call]
  BY InspectionsSizes DEF InspectionsInv, RetrieveInspection
<1>2. /\ call \in InspectionCall /\ call.id = n /\ call.row = inspections[n]
      /\ call.recorded => Recorded(n) # {}
  <2>1. CASE Recorded(n) # {}
    <3>1. call = [id |-> n, row |-> inspections[n], recorded |-> TRUE]
      BY <2>1, Zenon
    <3> HIDE DEF call
    <3> QED BY <1>1, <2>1, <3>1 DEF InspectionCall
  <2>2. CASE Recorded(n) = {}
    <3>1. call = [id |-> n, row |-> inspections[n], recorded |-> FALSE]
      BY <2>2, Zenon
    <3> HIDE DEF call
    <3> QED BY <1>1, <2>2, <3>1 DEF InspectionCall
  <2> QED BY <2>1, <2>2
<1> HIDE DEF call
<1>3. /\ inspecting' \in [Inspector -> InspectionCall]
      /\ \A v \in Inspector : inspecting'[v] = IF v = u THEN call ELSE inspecting[v]
  BY <1>1, <1>2 DEF InspectionsTyped
<1>4. /\ overlapped \subseteq overlapped' /\ overlapped' \subseteq overlapped \union {n}
      /\ n \in 1..Len(inspections)
      /\ \A v \in Inspector \ {u} : inspecting[v].id = n => n \in overlapped'
  BY DEF RetrieveInspection
<1>5. InspectionsTyped'
  BY <1>1, <1>3, <1>4 DEF InspectionsTyped
<1>6. CallsPlaced'
  BY <1>1, <1>2, <1>3 DEF CallsPlaced, InspectionsInv
<1>7. ASSUME NEW v \in Inspector PROVE ReadsCurrent(v)'
  <2>1. CASE v = u
    BY <1>1, <1>2, <1>3, <2>1 DEF ReadsCurrent, Recorded
  <2>2. CASE v # u
    BY <1>1, <1>3, <1>4, <2>2 DEF ReadsCurrent, Recorded, InspectionsInv
  <2> QED BY <2>1, <2>2
<1>8. CallsApart'
  BY <1>2, <1>3, <1>4 DEF CallsApart, InspectionsInv
<1>9. ASSUME NEW m \in 1..Len(inspections') PROVE m \notin overlapped' => Agrees(m)'
  BY <1>1, <1>4 DEF InspectionsInv, Agrees, Recorded, Failing
<1>10. ASSUME NEW m \in 1..Len(inspections'), m \notin moved' PROVE Alerted(m)'
  <2>1. Alerted(m) /\ (HasAlert(m)' <=> HasAlert(m))
    BY <1>1, <1>10 DEF InspectionsInv, HasAlert
  <2> QED BY <1>1, <1>2, <1>3, <2>1 DEF Alerted
<1> QED BY <1>5, <1>6, <1>7, <1>8, <1>9, <1>10 DEF InspectionsInv

LEMMA CreateInspectionKeeps ==
  ASSUME InspectionsInv, CreateInspection PROVE InspectionsInv'
<1> DEFINE n == Len(inspections) + 1
<1>1. /\ Len(inspections) \in Nat /\ inspections \in Seq(Inspection)
      /\ results \in Seq([Item -> Verdict]) /\ Len(results) = Len(inspections) /\ InspectionsTyped
  BY InspectionsSizes DEF InspectionsInv
<1>2. NewInspection \in Inspection /\ NoResults \in [Item -> Verdict]
  BY DEF NewInspection, NoResults, Inspection, InspectionStatus, Judgement, Verdict
<1>3. /\ inspections' = Append(inspections, NewInspection) /\ results' = Append(results, NoResults)
      /\ UNCHANGED <<alerts, inspecting, alerting, overlapped, moved>>
  BY DEF CreateInspection, AddInspection
<1>4. /\ inspections' \in Seq(Inspection) /\ Len(inspections') = n
      /\ \A m \in 1..Len(inspections) : inspections'[m] = inspections[m]
      /\ inspections'[n] = NewInspection
  BY <1>1, <1>2, <1>3
<1>5. /\ results' \in Seq([Item -> Verdict]) /\ Len(results') = n
      /\ \A m \in 1..Len(inspections) : results'[m] = results[m]
      /\ results'[n] = NoResults
  BY <1>1, <1>2, <1>3
<1>6. \A m \in 1..Len(inspections') : m \in 1..Len(inspections) \/ m = n
  BY <1>1, <1>4
<1>7. InspectionsTyped'
  BY <1>1, <1>3, <1>4, <1>5 DEF InspectionsTyped
<1>8. CallsPlaced'
  BY <1>1, <1>3, <1>4 DEF CallsPlaced, InspectionsInv
<1>9. ASSUME NEW v \in Inspector PROVE ReadsCurrent(v)'
  <2>1. inspecting[v].id \in 0..Len(inspections)
    BY DEF InspectionsInv, CallsPlaced
  <2> QED BY <2>1, <1>1, <1>3, <1>4, <1>5 DEF ReadsCurrent, Recorded, InspectionsInv
<1>10. CallsApart'
  BY <1>3 DEF CallsApart, InspectionsInv
<1>11. ASSUME NEW m \in 1..Len(inspections') PROVE m \notin overlapped' => Agrees(m)'
  <2>1. CASE m = n
    BY <1>4, <2>1 DEF Agrees, NewInspection
  <2>2. CASE m \in 1..Len(inspections)
    <3>1. m \notin overlapped => Agrees(m)
      BY <2>2 DEF InspectionsInv
    <3>2. inspections'[m] = inspections[m] /\ results'[m] = results[m] /\ overlapped' = overlapped
      BY <1>3, <1>4, <1>5, <2>2
    <3> QED BY <3>1, <3>2 DEF Agrees, Recorded, Failing
  <2> QED BY <2>1, <2>2, <1>6
<1>12. ASSUME NEW m \in 1..Len(inspections'), m \notin moved' PROVE Alerted(m)'
  <2>1. HasAlert(m)' <=> HasAlert(m)
    BY <1>3 DEF HasAlert
  <2>2. CASE m = n
    <3>1. \A u \in Inspector : inspecting'[u].id # n
      BY <1>1, <1>3 DEF InspectionsInv, CallsPlaced
    <3> QED BY <1>4, <2>2, <3>1 DEF Alerted, NewInspection
  <2>3. CASE m \in 1..Len(inspections)
    <3>1. Alerted(m)
      BY <1>3, <1>12, <2>3 DEF InspectionsInv
    <3> QED BY <1>3, <1>4, <2>1, <2>3, <3>1 DEF Alerted
  <2> QED BY <2>2, <2>3, <1>6
<1> QED BY <1>7, <1>8, <1>9, <1>10, <1>11, <1>12 DEF InspectionsInv

-----------------------------------------------------------------------------
(* Calls on alerts leave the inspections and the calls on them alone.      *)

LEMMA AlertStepKeeps ==
  ASSUME InspectionsInv, UNCHANGED <<inspections, results, inspecting, overlapped>>,
         alerts' \in Seq(Alert), Len(alerts) <= Len(alerts'),
         alerting' \in [Handler -> AlertCall],
         \A u \in Handler : alerting'[u].id \in 0..Len(alerts),
         \A k \in 1..Len(alerts') : alerts'[k].inspection \in 0..Len(inspections),
         moved \subseteq moved', moved' \subseteq 1..Len(inspections),
         \A n \in 1..Len(inspections) : n \notin moved' /\ HasAlert(n) => HasAlert(n)'
  PROVE  InspectionsInv'
<1>1. InspectionsTyped /\ Len(alerts) \in Nat /\ Len(alerts') \in Nat
  BY InspectionsSizes DEF InspectionsInv
<1>2. InspectionsTyped'
  BY <1>1 DEF InspectionsTyped
<1>3. CallsPlaced'
  BY <1>1 DEF CallsPlaced, InspectionsInv
<1>4. ASSUME NEW n \in 1..Len(inspections'), n \notin moved' PROVE Alerted(n)'
  <2>1. Alerted(n)
    BY <1>4 DEF InspectionsInv
  <2>2. HasAlert(n) => HasAlert(n)'
    BY <1>4
  <2> QED BY <2>1, <2>2 DEF Alerted
<1> QED BY <1>2, <1>3, <1>4
      DEF InspectionsInv, ReadsCurrent, CallsApart, Agrees, Recorded, Failing

LEMMA CreateAlertKeeps ==
  ASSUME InspectionsInv, CreateAlert PROVE InspectionsInv'
<1>1. PICK n \in 0..Len(inspections) : alerts' = Append(alerts, [inspection |-> n, status |-> "open"])
  BY DEF CreateAlert
<1>2. UNCHANGED <<inspections, results, inspecting, alerting, overlapped, moved>>
  BY DEF CreateAlert
<1> DEFINE new == [inspection |-> n, status |-> "open"]
<1>3. /\ Len(inspections) \in Nat /\ Len(alerts) \in Nat /\ alerts \in Seq(Alert)
      /\ new \in Alert /\ new.inspection = n /\ InspectionsTyped
      /\ alerts' = Append(alerts, new)
  BY <1>1, InspectionsSizes DEF Alert, InspectionsInv
<1> HIDE DEF new
<1>4. /\ alerts' \in Seq(Alert) /\ Len(alerts') = Len(alerts) + 1
      /\ \A k \in 1..Len(alerts) : alerts'[k] = alerts[k] /\ k \in 1..Len(alerts')
      /\ alerts'[Len(alerts) + 1] = new
  BY <1>3
<1>5. \A k \in 1..Len(alerts') : alerts'[k].inspection \in 0..Len(inspections)
  BY <1>3, <1>4 DEF InspectionsInv, CallsPlaced
<1>6. \A m \in 1..Len(inspections) : HasAlert(m) => HasAlert(m)'
  BY <1>4 DEF HasAlert
<1>7. /\ alerting' \in [Handler -> AlertCall]
      /\ \A u \in Handler : alerting'[u].id \in 0..Len(alerts)
      /\ moved \subseteq moved' /\ moved' \subseteq 1..Len(inspections)
      /\ Len(alerts) <= Len(alerts')
  BY <1>2, <1>3, <1>4 DEF InspectionsTyped, InspectionsInv, CallsPlaced
<1> QED BY <1>2, <1>4, <1>5, <1>6, <1>7, AlertStepKeeps

LEMMA AlertAnsweredTyped ==
  ASSUME InspectionsInv, NEW u \in Handler, AlertAnswered(u)
  PROVE  /\ alerting' \in [Handler -> AlertCall]
         /\ \A v \in Handler : alerting'[v].id \in 0..Len(alerts)
<1>1. alerting \in [Handler -> AlertCall] /\ NoAlertCall \in AlertCall /\ NoAlertCall.id = 0
  BY DEF InspectionsInv, InspectionsTyped, NoAlertCall, AlertCall, Alert
<1>2. Len(alerts) \in Nat
  BY InspectionsSizes
<1> QED BY <1>1, <1>2 DEF AlertAnswered, InspectionsInv, CallsPlaced

\* Saving another row for an alert, which may point to another inspection.
LEMMA AlertSaved ==
  ASSUME InspectionsInv, NEW u \in Handler, alerting[u].id # 0, AlertAnswered(u), NEW row \in Alert,
         alerts' = [alerts EXCEPT ![alerting[u].id] = row],
         UNCHANGED <<inspections, results, inspecting, overlapped>>,
         row.inspection \in 0..Len(inspections),
         moved \subseteq moved', moved' \subseteq 1..Len(inspections),
         alerts[alerting[u].id].inspection \in {0, row.inspection} \union moved'
  PROVE  InspectionsInv'
<1> DEFINE k == alerting[u].id
<1>1. /\ Len(alerts) \in Nat /\ alerts \in Seq(Alert) /\ k \in 1..Len(alerts)
  BY InspectionsSizes DEF InspectionsInv, CallsPlaced
<1>2. alerts' \in Seq(Alert) /\ Len(alerts') = Len(alerts)
  BY <1>1, ExceptSeq
<1>3. \A j \in 1..Len(alerts) : alerts'[j] = IF j = k THEN row ELSE alerts[j]
  BY <1>1, ExceptSeq
<1>4. ASSUME NEW n \in 1..Len(inspections), n \notin moved', HasAlert(n) PROVE HasAlert(n)'
  <2>1. PICK j \in 1..Len(alerts) : alerts[j].inspection = n
    BY <1>4 DEF HasAlert
  <2>2. alerts'[j].inspection = n
    BY <1>3, <1>4, <2>1
  <2> QED BY <1>2, <2>1, <2>2 DEF HasAlert
<1>5. \A j \in 1..Len(alerts') : alerts'[j].inspection \in 0..Len(inspections)
  BY <1>2, <1>3 DEF InspectionsInv, CallsPlaced
<1>6. /\ alerting' \in [Handler -> AlertCall]
      /\ \A v \in Handler : alerting'[v].id \in 0..Len(alerts)
  BY AlertAnsweredTyped
<1>7. Len(alerts) <= Len(alerts')
  BY <1>1, <1>2
<1> QED BY <1>2, <1>4, <1>5, <1>6, <1>7, AlertStepKeeps

LEMMA AlertsUntouched ==
  ASSUME InspectionsInv, UNCHANGED <<alerts, moved>>
  PROVE  /\ alerts' \in Seq(Alert) /\ Len(alerts) <= Len(alerts')
         /\ \A j \in 1..Len(alerts') : alerts'[j].inspection \in 0..Len(inspections)
         /\ moved \subseteq moved' /\ moved' \subseteq 1..Len(inspections)
<1>1. alerts' = alerts /\ moved' = moved /\ Len(alerts) \in Nat /\ alerts \in Seq(Alert)
  BY InspectionsSizes
<1>2. \A j \in 1..Len(alerts) : alerts[j].inspection \in 0..Len(inspections)
  BY DEF InspectionsInv, CallsPlaced
<1>3. moved \subseteq 1..Len(inspections)
  BY DEF InspectionsInv, InspectionsTyped
<1> QED BY <1>1, <1>2, <1>3

LEMMA RetrieveAlertKeeps ==
  ASSUME InspectionsInv, NEW u \in Handler, NEW k \in 1..Len(alerts), RetrieveAlert(u, k)
  PROVE  InspectionsInv'
<1>1. /\ Len(alerts) \in Nat /\ alerts \in Seq(Alert) /\ alerts[k] \in Alert /\ InspectionsTyped
      /\ UNCHANGED <<inspections, results, alerts, inspecting, overlapped, moved>>
  BY InspectionsSizes DEF InspectionsInv, RetrieveAlert
<1>2. [id |-> k, row |-> alerts[k]] \in AlertCall
  BY <1>1 DEF AlertCall
<1>3. /\ alerting' \in [Handler -> AlertCall]
      /\ \A v \in Handler : alerting'[v].id \in 0..Len(alerts)
  BY <1>1, <1>2 DEF RetrieveAlert, InspectionsTyped, InspectionsInv, CallsPlaced
<1>4. \A n \in 1..Len(inspections) : HasAlert(n) => HasAlert(n)'
  BY <1>1 DEF HasAlert
<1>5. /\ alerts' \in Seq(Alert) /\ Len(alerts) <= Len(alerts')
      /\ \A j \in 1..Len(alerts') : alerts'[j].inspection \in 0..Len(inspections)
      /\ moved \subseteq moved' /\ moved' \subseteq 1..Len(inspections)
  BY <1>1, AlertsUntouched
<1> QED BY <1>1, <1>3, <1>4, <1>5, AlertStepKeeps

LEMMA LeaveAlertKeeps ==
  ASSUME InspectionsInv, NEW u \in Handler, LeaveAlert(u) PROVE InspectionsInv'
<1>1. /\ AlertAnswered(u) /\ InspectionsTyped /\ Len(alerts) \in Nat /\ alerts \in Seq(Alert)
      /\ UNCHANGED <<inspections, results, alerts, inspecting, overlapped, moved>>
  BY InspectionsSizes DEF InspectionsInv, LeaveAlert
<1>2. /\ alerting' \in [Handler -> AlertCall]
      /\ \A v \in Handler : alerting'[v].id \in 0..Len(alerts)
  BY <1>1, AlertAnsweredTyped
<1>3. \A n \in 1..Len(inspections) : HasAlert(n) => HasAlert(n)'
  BY <1>1 DEF HasAlert
<1>4. /\ alerts' \in Seq(Alert) /\ Len(alerts) <= Len(alerts')
      /\ \A j \in 1..Len(alerts') : alerts'[j].inspection \in 0..Len(inspections)
      /\ moved \subseteq moved' /\ moved' \subseteq 1..Len(inspections)
  BY <1>1, AlertsUntouched
<1> QED BY <1>1, <1>2, <1>3, <1>4, AlertStepKeeps

LEMMA AlertMarkedKeeps ==
  ASSUME InspectionsInv, NEW u \in Handler, alerting[u].id # 0, AlertAnswered(u),
         NEW status \in {"open", "handling", "closed"},
         alerts' = [alerts EXCEPT ![alerting[u].id].status = status],
         UNCHANGED <<inspections, results, inspecting, overlapped, moved>>
  PROVE  InspectionsInv'
<1> DEFINE k == alerting[u].id
           row == [alerts[k] EXCEPT !.status = status]
<1>1. k \in 1..Len(alerts) /\ alerts[k] \in Alert
  BY InspectionsSizes DEF InspectionsInv, CallsPlaced
<1>2. row \in Alert /\ row.inspection = alerts[k].inspection
  BY <1>1 DEF Alert
<1>3. alerts' = [alerts EXCEPT ![k] = row]
  OBVIOUS
<1>4. row.inspection \in 0..Len(inspections)
  BY <1>1, <1>2 DEF InspectionsInv, CallsPlaced
<1> HIDE DEF row
<1>5. moved \subseteq moved' /\ moved' \subseteq 1..Len(inspections)
  BY DEF InspectionsInv, InspectionsTyped
<1> QED BY <1>2, <1>3, <1>4, <1>5, AlertSaved

LEMMA PatchAlertKeeps ==
  ASSUME InspectionsInv, NEW u \in Handler, PatchAlert(u) PROVE InspectionsInv'
<1> DEFINE k == alerting[u].id
<1>1. PICK n \in 0..Len(inspections) :
        /\ alerts' = [alerts EXCEPT ![k] = [inspection |-> n, status |-> alerting[u].row.status]]
        /\ moved' = IF alerts[k].inspection \notin {0, n}
                    THEN moved \union {alerts[k].inspection} ELSE moved
  BY DEF PatchAlert
<1>2. k # 0 /\ AlertAnswered(u) /\ UNCHANGED <<inspections, results, inspecting, overlapped>>
  BY DEF PatchAlert
<1> DEFINE row == [inspection |-> n, status |-> alerting[u].row.status]
<1>3. /\ k \in 1..Len(alerts) /\ alerts[k] \in Alert /\ Len(inspections) \in Nat
      /\ alerting[u] \in AlertCall
  BY <1>2, InspectionsSizes DEF InspectionsInv, CallsPlaced
<1>4. row \in Alert /\ row.inspection = n /\ alerts' = [alerts EXCEPT ![k] = row]
  BY <1>1, <1>3 DEF Alert, AlertCall
<1> HIDE DEF row
<1>5. alerts[k].inspection \in 0..Len(inspections)
  BY <1>3 DEF InspectionsInv, CallsPlaced
<1>6. /\ moved \subseteq moved' /\ moved' \subseteq 1..Len(inspections)
      /\ alerts[k].inspection \in {0, n} \union moved'
  <2>1. moved \subseteq 1..Len(inspections)
    BY DEF InspectionsInv, InspectionsTyped
  <2>2. CASE alerts[k].inspection \in {0, n}
    <3>1. moved' = moved
      BY <1>1, <2>2
    <3> QED BY <2>1, <2>2, <3>1
  <2>3. CASE alerts[k].inspection \notin {0, n}
    <3>1. moved' = moved \union {alerts[k].inspection} /\ alerts[k].inspection \in 1..Len(inspections)
      BY <1>1, <1>3, <1>5, <2>3
    <3> QED BY <2>1, <3>1
  <2> QED BY <2>2, <2>3
<1> QED BY <1>1, <1>2, <1>4, <1>6, AlertSaved

-----------------------------------------------------------------------------
LEMMA InspectionsNextKeeps ==
  ASSUME InspectionsInv, [InspectionsNext]_qualityVars PROVE InspectionsInv'
<1>1. ASSUME NEW u \in Inspector, InspectionCalls(u) PROVE InspectionsInv'
  <2>1. ASSUME NEW n \in 1..Len(inspections), RetrieveInspection(u, n) PROVE InspectionsInv'
    BY <2>1, RetrieveInspectionKeeps
  <2> QED BY <1>1, <2>1, LeaveInspectionKeeps, RecordResultsKeeps, SubmitInspectionKeeps,
             JudgeInspectionKeeps, CloseInspectionKeeps, PatchInspectionKeeps DEF InspectionCalls
<1>2. ASSUME NEW u \in Handler, AlertCalls(u) PROVE InspectionsInv'
  <2>1. ASSUME NEW k \in 1..Len(alerts), RetrieveAlert(u, k) PROVE InspectionsInv'
    BY <2>1, RetrieveAlertKeeps
  <2>2. ASSUME HandleAlert(u) PROVE InspectionsInv'
    BY <2>2, AlertMarkedKeeps DEF HandleAlert
  <2>3. ASSUME CloseAlert(u) PROVE InspectionsInv'
    BY <2>3, AlertMarkedKeeps DEF CloseAlert
  <2> QED BY <1>2, <2>1, <2>2, <2>3, LeaveAlertKeeps, PatchAlertKeeps DEF AlertCalls
<1>3. CASE UNCHANGED qualityVars
  <2>1. UNCHANGED <<inspections, results, alerts, inspecting, alerting, overlapped, moved>>
    BY <1>3 DEF qualityVars
  <2>2. InspectionsTyped' /\ CallsPlaced' /\ CallsApart'
    BY <2>1 DEF InspectionsInv, InspectionsTyped, CallsPlaced, CallsApart
  <2>3. ASSUME NEW u \in Inspector PROVE ReadsCurrent(u)'
    BY <2>1 DEF InspectionsInv, ReadsCurrent, Recorded
  <2>4. ASSUME NEW n \in 1..Len(inspections), n \notin overlapped PROVE Agrees(n)'
    BY <2>1, <2>4 DEF InspectionsInv, Agrees, Recorded, Failing
  <2>5. ASSUME NEW n \in 1..Len(inspections), n \notin moved PROVE Alerted(n)'
    BY <2>1, <2>5 DEF InspectionsInv, Alerted, HasAlert
  <2> QED BY <2>1, <2>2, <2>3, <2>4, <2>5 DEF InspectionsInv
<1> QED BY <1>1, <1>2, <1>3, CreateInspectionKeeps, CreateAlertKeeps DEF InspectionsNext

\* However many inspections and alerts are open and whoever writes them: the inductive
\* invariant of the inspection orders holds throughout (qms/services.py).
THEOREM InspectionsKept == InspectionsSpec => []InspectionsInv
  BY InspectionsInitHolds, InspectionsNextKeeps, PTL DEF InspectionsSpec

\* However calls on other inspections and on alerts go on: an inspection no two calls of
\* which overlapped is judged by the results it has.
THEOREM JudgementsAgree == InspectionsSpec => []JudgedByItsResults
<1>1. InspectionsInv => JudgedByItsResults
  BY DEF InspectionsInv, JudgedByItsResults, Agrees
<1> QED BY <1>1, InspectionsKept, PTL

\* However calls overlap: a failed inspection has an alert, unless one was pointed elsewhere.
THEOREM FailuresHaveAlerts == InspectionsSpec => []FailuresAreAlerted
<1>1. InspectionsInv => FailuresAreAlerted
  BY DEF InspectionsInv, FailuresAreAlerted, Alerted, HasAlert
<1> QED BY <1>1, InspectionsKept, PTL

(***************************************************************************)
(* Production.                                                             *)
(***************************************************************************)

-----------------------------------------------------------------------------
(* Types.                                                                  *)

ProductionTyped == TypeOK /\ InspectionsInv

LEMMA ProductionTypes ==
  ASSUME TypeOK
  PROVE  /\ orders \in [Order -> OrderRow] /\ steps \in [Order -> Seq(Step)]
         /\ required \in [Order -> List] /\ issued \in [Order -> List]
         /\ reports \in Seq(Report) /\ documents \in Seq(Document)
         /\ onHand \in List /\ patching \in [Order -> HeaderCall]
         /\ Len(reports) \in Nat /\ Len(documents) \in Nat
         /\ \A k \in 1..Len(reports) : reports[k] \in Report
         /\ \A k \in 1..Len(documents) : documents[k] \in Document
         /\ \A o \in Order : /\ Len(steps[o]) \in Nat
                             /\ \A s \in 1..Len(steps[o]) : steps[o][s] \in Step
<1>1. /\ orders \in [Order -> OrderRow] /\ steps \in [Order -> Seq(Step)]
      /\ required \in [Order -> List] /\ issued \in [Order -> List]
      /\ reports \in Seq(Report) /\ documents \in Seq(Document)
      /\ onHand \in List /\ patching \in [Order -> HeaderCall]
  BY DEF TypeOK
<1>2. ASSUME NEW S, NEW q \in Seq(S) PROVE Len(q) \in Nat /\ \A k \in 1..Len(q) : q[k] \in S
  BY ElementOfSeq
<1> QED BY <1>1, <1>2

LEMMA EmptyListTyped == EmptyList \in List
BY DEF EmptyList, List

LEMMA OutcomeType ==
  ASSUME NEW r \in Outcome
  PROVE  /\ r.quantity \in Nat /\ r.quantity # 0 /\ r.qualified \in Nat /\ r.scrap \in Nat
         /\ r.qualified <= r.quantity
<1>1. /\ r.quantity \in Nat \ {0} /\ r.qualified \in Nat /\ r.rework \in Nat /\ r.scrap \in Nat
      /\ r.qualified + r.rework + r.scrap = r.quantity
  BY ProductionInputs
<1> QED BY <1>1

\* A call on an order's header and materials.
HeaderCalls(o) ==
  \/ CreateOrder(o) \/ UpdateOrder(o) \/ RetrieveHeader(o) \/ PatchHeader(o) \/ LeaveHeader(o)
  \/ CancelOrder(o) \/ CompleteOrder(o) \/ CloseOrder(o)

LEMMA HeaderCallsTyped ==
  ASSUME TypeOK, NEW o \in Order, HeaderCalls(o)
  PROVE  /\ TypeOK' /\ UNCHANGED <<qualityVars, steps, reports, documents, onHand>>
         /\ \A p \in Order \ {o} :
              /\ orders'[p] = orders[p] /\ required'[p] = required[p]
              /\ issued'[p] = issued[p] /\ patching'[p] = patching[p]
<1> USE ProductionTypes, EmptyListTyped
<1>0. Quantity \subseteq Nat /\ Materials \subseteq List
  BY ProductionInputs
<1>1. orders[o] \in OrderRow /\ patching[o] \in HeaderCall /\ Absent \in OrderRow
  BY DEF Absent, OrderRow, OrderStatus
<1>2. \A q \in Nat, status \in OrderStatus, row \in OrderRow :
        /\ [row EXCEPT !.quantity = q] \in OrderRow /\ [row EXCEPT !.status = status] \in OrderRow
  BY DEF OrderRow
<1>3. ASSUME NEW row \in OrderRow, orders' = [orders EXCEPT ![o] = row]
      PROVE  orders' \in [Order -> OrderRow] /\ \A p \in Order \ {o} : orders'[p] = orders[p]
  BY <1>3
<1>4. UNCHANGED <<qualityVars, steps, reports, documents, onHand>>
  BY DEF HeaderCalls, CreateOrder, UpdateOrder, RetrieveHeader, PatchHeader, LeaveHeader, CancelOrder,
     CompleteOrder, CloseOrder
<1>5. /\ orders' \in [Order -> OrderRow] /\ required' \in [Order -> List]
      /\ issued' \in [Order -> List] /\ patching' \in [Order -> HeaderCall]
      /\ \A p \in Order \ {o} :
              /\ orders'[p] = orders[p] /\ required'[p] = required[p]
              /\ issued'[p] = issued[p] /\ patching'[p] = patching[p]
  <2>1. CASE CreateOrder(o)
    <3>1. PICK q \in Quantity, list \in Materials \union {EmptyList} :
            /\ orders' = [orders EXCEPT ![o] = [Absent EXCEPT !.status = "draft", !.quantity = q]]
            /\ required' = [required EXCEPT ![o] = list]
      BY <2>1 DEF CreateOrder
    <3>2. [Absent EXCEPT !.status = "draft", !.quantity = q] \in OrderRow
      BY <1>0 DEF Absent, OrderRow, OrderStatus
    <3>3. UNCHANGED <<issued, patching>>
      BY <2>1 DEF CreateOrder
    <3> QED BY <1>0, <1>3, <3>1, <3>2, <3>3
  <2>2. CASE UpdateOrder(o)
    <3>1. CASE \E q \in Quantity : /\ orders' = [orders EXCEPT ![o].quantity = q]
                                   /\ UNCHANGED <<required, issued, patching>>
      <4>1. PICK q \in Quantity : orders' = [orders EXCEPT ![o] = [orders[o] EXCEPT !.quantity = q]]
        BY <3>1
      <4>2. [orders[o] EXCEPT !.quantity = q] \in OrderRow
        BY <1>0, <1>1 DEF OrderRow
      <4> QED BY <1>3, <3>1, <4>1, <4>2
    <3>2. CASE \E list \in Materials : /\ required' = [required EXCEPT ![o] = list]
                                       /\ issued' = [issued EXCEPT ![o] = EmptyList]
                                       /\ UNCHANGED <<orders, patching>>
      BY <1>0, <3>2
    <3> QED BY <2>2, <3>1, <3>2 DEF UpdateOrder
  <2>3. CASE RetrieveHeader(o)
    <3>1. [open |-> TRUE, row |-> orders[o]] \in HeaderCall
      BY <1>1 DEF HeaderCall
    <3> QED BY <2>3, <3>1 DEF RetrieveHeader
  <2>4. CASE PatchHeader(o)
    <3>1. PICK q \in Quantity : orders' = [orders EXCEPT ![o] = [patching[o].row EXCEPT !.quantity = q]]
      BY <2>4 DEF PatchHeader
    <3>2. patching[o].row \in OrderRow
      BY <1>1 DEF HeaderCall
    <3>3. [open |-> FALSE, row |-> Absent] \in HeaderCall
      BY <1>1 DEF HeaderCall
    <3>4. patching' = [patching EXCEPT ![o] = [open |-> FALSE, row |-> Absent]]
          /\ UNCHANGED <<required, issued>>
      BY <2>4 DEF PatchHeader
    <3>5. [patching[o].row EXCEPT !.quantity = q] \in OrderRow
      BY <1>0, <3>2 DEF OrderRow
    <3> QED BY <1>3, <3>1, <3>3, <3>4, <3>5
  <2>5. CASE LeaveHeader(o)
    <3>1. [open |-> FALSE, row |-> Absent] \in HeaderCall
      BY <1>1 DEF HeaderCall
    <3> QED BY <2>5, <3>1 DEF LeaveHeader
  <2>6. CASE CancelOrder(o) \/ CompleteOrder(o) \/ CloseOrder(o)
    <3>1. PICK status \in OrderStatus : orders' = [orders EXCEPT ![o] = [orders[o] EXCEPT !.status = status]]
      BY <2>6 DEF CancelOrder, CompleteOrder, CloseOrder, OrderStatus
    <3>2. UNCHANGED <<required, issued, patching>>
      BY <2>6 DEF CancelOrder, CompleteOrder, CloseOrder
    <3> QED BY <1>1, <1>2, <1>3, <3>1, <3>2
  <2> QED BY <2>1, <2>2, <2>3, <2>4, <2>5, <2>6 DEF HeaderCalls
<1> QED BY <1>4, <1>5 DEF TypeOK, InspectionsTyped, qualityVars

-----------------------------------------------------------------------------
(* What the database knows of an order.                                    *)

Unreleased == {"absent", "draft"}

\* What the header form retrieved is a draft without documents, and so is what it saves.
HeaderIsDraft(o) ==
  /\ orders[o].status \in Unreleased => orders[o].issue = 0 /\ orders[o].receipt = 0
  /\ orders[o].status # "absent" => orders[o].quantity # 0
  /\ patching[o].open =>
       /\ orders[o].status # "absent"
       /\ patching[o].row.status = "draft"
       /\ patching[o].row.issue = 0 /\ patching[o].row.receipt = 0

\* An order without steps was never released, so it has no documents and no reports.
NothingBeforeRelease(o) ==
  steps[o] = <<>> =>
    /\ orders[o].status \notin Started \union Finished
    /\ \A k \in 1..Len(documents) : documents[k].order # o
    /\ \A k \in 1..Len(reports) : reports[k].order # o

\* The header form can make an order forget its documents, but then it is a draft, and
\* is never released again.
KnowsDocuments(o) ==
  /\ orders[o].status \in Started \union Finished =>
       /\ \A k \in DocumentsOf(o, "issue") : k = orders[o].issue
       /\ \A k \in DocumentsOf(o, "receipt") : k = orders[o].receipt
  /\ orders[o].issue # 0 => orders[o].issue \in DocumentsOf(o, "issue")
  /\ orders[o].receipt # 0 => orders[o].receipt \in DocumentsOf(o, "receipt")
  /\ DocumentsOf(o, "issue") = {} => issued[o] = EmptyList
  /\ DocumentsOf(o, "receipt") # {} => orders[o].status \notin Started

OneDocument(o) ==
  /\ \A type \in {"issue", "receipt"} : \A j, k \in DocumentsOf(o, type) : j = k
  /\ orders[o].issue # 0 =>
       \A m \in Material : required[o][m] > 0 => issued[o][m] = documents[orders[o].issue].list[m]

DocumentsInv ==
  /\ ProductionTyped
  /\ \A o \in Order : HeaderIsDraft(o) /\ NothingBeforeRelease(o) /\ KnowsDocuments(o) /\ OneDocument(o)

\* What a call on the header does to its order.
LEMMA HeaderCallsDraft ==
  ASSUME TypeOK, NEW o \in Order, HeaderIsDraft(o), HeaderCalls(o)
  PROVE  /\ HeaderIsDraft(o)'
         /\ orders'[o].status \in Started \union Finished =>
              /\ orders[o].status \in Started \union Finished
              /\ orders'[o].issue = orders[o].issue /\ orders'[o].receipt = orders[o].receipt
              /\ orders'[o].quantity = orders[o].quantity
              /\ orders'[o].status \in Started => orders[o].status \in Started
              /\ orders'[o].status \in Finished /\ orders[o].status \notin Finished => CompleteOrder(o)
         /\ orders'[o].issue # 0 =>
              /\ orders'[o].issue = orders[o].issue
              /\ required'[o] = required[o] /\ issued'[o] = issued[o]
         /\ orders'[o].receipt # 0 =>
              orders'[o].receipt = orders[o].receipt /\ orders'[o].quantity = orders[o].quantity
         /\ issued'[o] \in {issued[o], EmptyList}
<1> USE ProductionTypes DEF HeaderIsDraft, Unreleased, Started, Finished
<1>0. Quantity \subseteq Nat \ {0}
  BY ProductionInputs
<1>1. orders[o] \in OrderRow /\ patching[o] \in HeaderCall /\ patching[o].row \in OrderRow
  BY DEF HeaderCall
<1>2. \A q, status : \A row \in OrderRow :
        LET a == [row EXCEPT !.quantity = q]
            b == [row EXCEPT !.status = status]
        IN  /\ a.status = row.status /\ a.issue = row.issue /\ a.receipt = row.receipt /\ a.quantity = q
            /\ b.status = status /\ b.issue = row.issue /\ b.receipt = row.receipt
            /\ b.quantity = row.quantity
  BY DEF OrderRow
<1>3. CASE CreateOrder(o)
  <2>1. PICK q \in Quantity, list \in Materials \union {EmptyList} :
          orders' = [orders EXCEPT ![o] = [Absent EXCEPT !.status = "draft", !.quantity = q]]
    BY <1>3 DEF CreateOrder
  <2>2. orders'[o].status = "draft" /\ orders'[o].quantity = q
        /\ orders'[o].issue = 0 /\ orders'[o].receipt = 0
    BY <2>1 DEF Absent
  <2>3. UNCHANGED <<patching, issued>>
    BY <1>3 DEF CreateOrder
  <2> QED BY <1>0, <2>2, <2>3
<1>4. CASE UpdateOrder(o)
  <2>0. orders[o].status = "draft" /\ UNCHANGED patching
    BY <1>4 DEF UpdateOrder
  <2>1. CASE \E q \in Quantity : /\ orders' = [orders EXCEPT ![o].quantity = q]
                                 /\ UNCHANGED <<required, issued>>
    <3>1. PICK q \in Quantity : orders' = [orders EXCEPT ![o] = [orders[o] EXCEPT !.quantity = q]]
      BY <2>1
    <3>2. /\ orders'[o].status = "draft" /\ orders'[o].quantity = q
          /\ orders'[o].issue = orders[o].issue /\ orders'[o].receipt = orders[o].receipt
      BY <1>1, <1>2, <2>0, <3>1
    <3> QED BY <1>0, <2>0, <2>1, <3>2
  <2>2. CASE UNCHANGED orders /\ \E list \in Materials : issued' = [issued EXCEPT ![o] = EmptyList]
    BY <2>0, <2>2
  <2> QED BY <1>4, <2>1, <2>2 DEF UpdateOrder
<1>5. CASE RetrieveHeader(o)
  <2>1. /\ orders[o].status = "draft" /\ patching'[o].row = orders[o]
        /\ UNCHANGED <<orders, required, issued>>
    BY <1>5 DEF RetrieveHeader
  <2> QED BY <2>1
<1>6. CASE PatchHeader(o)
  <2>1. PICK q \in Quantity : orders' = [orders EXCEPT ![o] = [patching[o].row EXCEPT !.quantity = q]]
    BY <1>6 DEF PatchHeader
  <2>2. patching[o].open /\ ~ patching'[o].open /\ UNCHANGED <<required, issued>>
    BY <1>6 DEF PatchHeader
  <2>3. /\ orders'[o].status = "draft" /\ orders'[o].quantity = q
        /\ orders'[o].issue = 0 /\ orders'[o].receipt = 0
    BY <1>1, <1>2, <2>1, <2>2
  <2> QED BY <1>0, <2>2, <2>3
<1>7. CASE LeaveHeader(o)
  <2>1. ~ patching'[o].open /\ UNCHANGED <<orders, required, issued>>
    BY <1>7 DEF LeaveHeader
  <2> QED BY <2>1
<1>8. CASE CancelOrder(o) \/ CompleteOrder(o) \/ CloseOrder(o)
  <2>1. PICK status \in {"cancelled", "completed", "closed"} :
          /\ orders' = [orders EXCEPT ![o] = [orders[o] EXCEPT !.status = status]]
          /\ status = "completed" => CompleteOrder(o) /\ orders[o].status = "in_progress"
          /\ status = "closed" => orders[o].status = "completed"
          /\ status = "cancelled" => orders[o].status # "absent"
    BY <1>8 DEF CancelOrder, CompleteOrder, CloseOrder
  <2>2. UNCHANGED <<required, issued, patching>>
    BY <1>8 DEF CancelOrder, CompleteOrder, CloseOrder
  <2>3. /\ orders'[o].status = status /\ orders'[o].quantity = orders[o].quantity
        /\ orders'[o].issue = orders[o].issue /\ orders'[o].receipt = orders[o].receipt
    BY <1>1, <1>2, <2>1
  <2> QED BY <2>1, <2>2, <2>3
<1> QED BY <1>3, <1>4, <1>5, <1>6, <1>7, <1>8 DEF HeaderCalls

LEMMA HeaderCallsKeepDocuments ==
  ASSUME DocumentsInv, NEW o \in Order, HeaderCalls(o)
  PROVE  DocumentsInv'
<1>0. TypeOK /\ InspectionsInv /\ HeaderIsDraft(o)
  BY DEF DocumentsInv, ProductionTyped
<1>1. /\ TypeOK' /\ UNCHANGED <<qualityVars, steps, reports, documents, onHand>>
      /\ \A p \in Order \ {o} :
           /\ orders'[p] = orders[p] /\ required'[p] = required[p]
           /\ issued'[p] = issued[p] /\ patching'[p] = patching[p]
  BY <1>0, HeaderCallsTyped
<1>2. InspectionsInv'
  BY <1>0, <1>1, InspectionsNextKeeps
<1>3. ASSUME NEW p \in Order \ {o}
      PROVE  (HeaderIsDraft(p) /\ NothingBeforeRelease(p) /\ KnowsDocuments(p) /\ OneDocument(p))'
  <2>1. HeaderIsDraft(p) /\ NothingBeforeRelease(p) /\ KnowsDocuments(p) /\ OneDocument(p)
    BY DEF DocumentsInv
  <2> QED BY <1>1, <2>1 DEF HeaderIsDraft, NothingBeforeRelease, KnowsDocuments, OneDocument, DocumentsOf
<1>4. (HeaderIsDraft(o) /\ NothingBeforeRelease(o) /\ KnowsDocuments(o) /\ OneDocument(o))'
  <2>1. NothingBeforeRelease(o) /\ KnowsDocuments(o) /\ OneDocument(o)
    BY DEF DocumentsInv
  <2>2. HeaderIsDraft(o)'
    BY <1>0, HeaderCallsDraft
  <2>3. NothingBeforeRelease(o)'
    BY <1>0, <1>1, <2>1, HeaderCallsDraft DEF NothingBeforeRelease
  <2>4. \A type : DocumentsOf(o, type)' = DocumentsOf(o, type)
    BY <1>1 DEF DocumentsOf
  <2>5. KnowsDocuments(o)'
    BY <1>0, <1>1, <2>1, <2>4, HeaderCallsDraft DEF KnowsDocuments, Started, Finished
  <2>6. OneDocument(o)'
    BY <1>0, <1>1, <2>1, <2>4, HeaderCallsDraft DEF OneDocument
  <2> QED BY <2>2, <2>3, <2>5, <2>6
<1> QED BY <1>1, <1>2, <1>3, <1>4 DEF DocumentsInv, ProductionTyped

-----------------------------------------------------------------------------
(* Release.                                                                *)

LEMMA NewStepTyped ==
  ASSUME NEW gate \in BOOLEAN
  PROVE  /\ NewStep(gate) \in Step
         /\ NewStep(gate).gate = gate /\ NewStep(gate).status = "pending" /\ NewStep(gate).reported = 0
         /\ NewStep(gate).qualified = 0 /\ NewStep(gate).scrap = 0 /\ NewStep(gate).inspection = 0
BY DEF NewStep, Step

LEMMA ReleaseTyped ==
  ASSUME TypeOK, NEW o \in Order, ReleaseOrder(o)
  PROVE  /\ TypeOK' /\ UNCHANGED <<qualityVars, issued, reports, documents, onHand, patching>>
         /\ \A p \in Order \ {o} :
              /\ orders'[p] = orders[p] /\ required'[p] = required[p] /\ steps'[p] = steps[p]
         /\ orders[o].status = "draft" /\ steps[o] = <<>>
         /\ orders'[o].status = "released" /\ orders'[o].quantity = orders[o].quantity
         /\ orders'[o].issue = orders[o].issue /\ orders'[o].receipt = orders[o].receipt
         /\ steps'[o] # <<>>
         /\ \A s \in 1..Len(steps'[o]) :
              /\ steps'[o][s].status = "pending" /\ steps'[o][s].reported = 0
              /\ steps'[o][s].qualified = 0 /\ steps'[o][s].scrap = 0 /\ steps'[o][s].inspection = 0
<1> USE ProductionTypes
<1>0. orders[o].status = "draft" /\ steps[o] = <<>>
      /\ UNCHANGED <<qualityVars, issued, reports, documents, onHand, patching>>
  BY DEF ReleaseOrder
<1>1. PICK routing \in Routing, bom \in Bom :
        /\ required' = [required EXCEPT ![o] = ListToRelease(o, bom)]
        /\ steps' = [steps EXCEPT ![o] = [s \in 1..Len(routing) |-> NewStep(routing[s])]]
  BY DEF ReleaseOrder
<1>2. orders' = [orders EXCEPT ![o] = [orders[o] EXCEPT !.status = "released"]] /\ orders[o] \in OrderRow
  BY DEF ReleaseOrder
<1>3. /\ orders' \in [Order -> OrderRow]
      /\ orders'[o].status = "released" /\ orders'[o].quantity = orders[o].quantity
      /\ orders'[o].issue = orders[o].issue /\ orders'[o].receipt = orders[o].receipt
      /\ \A p \in Order \ {o} : orders'[p] = orders[p]
  <2>1. [orders[o] EXCEPT !.status = "released"] \in OrderRow
    BY <1>2 DEF OrderRow, OrderStatus
  <2> QED BY <1>2, <2>1 DEF OrderRow
<1>4. ListToRelease(o, bom) \in List
  <2>1. bom \in List /\ orders[o].quantity \in Nat /\ required[o] \in List
    BY <1>2, ProductionInputs DEF OrderRow
  <2>2. \A m \in Material : bom[m] * orders[o].quantity \in Nat
    BY <2>1 DEF List
  <2> QED BY <2>1, <2>2 DEF ListToRelease, List
<1>5. required' \in [Order -> List] /\ \A p \in Order \ {o} : required'[p] = required[p]
  BY <1>1, <1>4
<1> DEFINE new == [s \in 1..Len(routing) |-> NewStep(routing[s])]
<1>6. routing \in Seq(BOOLEAN) /\ routing # <<>>
  BY ProductionInputs
<1>7. Len(routing) \in Nat /\ Len(routing) # 0 /\ \A s \in 1..Len(routing) : routing[s] \in BOOLEAN
  BY <1>6, ElementOfSeq, EmptySeq
<1>8. new \in [1..Len(routing) -> Step]
  BY <1>7, NewStepTyped
<1>9. \A s \in 1..Len(routing) :
              /\ new[s].status = "pending" /\ new[s].reported = 0
              /\ new[s].qualified = 0 /\ new[s].scrap = 0 /\ new[s].inspection = 0
  BY <1>7, NewStepTyped
<1> HIDE DEF new
<1>10. new \in Seq(Step) /\ Len(new) = Len(routing)
  BY ONLY <1>7, <1>8, SeqDef, LenProperties
<1>11. new # <<>>
  BY <1>7, <1>10
<1>12. steps' \in [Order -> Seq(Step)] /\ steps'[o] = new /\ \A p \in Order \ {o} : steps'[p] = steps[p]
  BY <1>1, <1>10 DEF new
<1>13. TypeOK'
  BY <1>0, <1>3, <1>5, <1>12 DEF TypeOK, InspectionsTyped, qualityVars
<1> QED BY <1>0, <1>3, <1>5, <1>9, <1>10, <1>11, <1>12, <1>13

LEMMA ReleaseKeepsDocuments ==
  ASSUME DocumentsInv, NEW o \in Order, ReleaseOrder(o)
  PROVE  DocumentsInv'
<1>0. TypeOK /\ InspectionsInv
  BY DEF DocumentsInv, ProductionTyped
<1> USE <1>0, ReleaseTyped
<1>2. InspectionsInv'
  BY InspectionsNextKeeps
<1>3. ASSUME NEW p \in Order
      PROVE  (HeaderIsDraft(p) /\ NothingBeforeRelease(p) /\ KnowsDocuments(p) /\ OneDocument(p))'
  <2>1. HeaderIsDraft(p) /\ NothingBeforeRelease(p) /\ KnowsDocuments(p) /\ OneDocument(p)
    BY DEF DocumentsInv
  <2>2. CASE p # o
    <3>1. UNCHANGED <<issued, reports, documents, patching>> /\ orders'[p] = orders[p]
          /\ required'[p] = required[p] /\ steps'[p] = steps[p]
      BY <2>2
    <3> QED BY ONLY <2>1, <3>1 DEF HeaderIsDraft, NothingBeforeRelease, KnowsDocuments, OneDocument, DocumentsOf
  <2>3. CASE p = o
    <3>1. /\ orders[o].issue = 0 /\ orders[o].receipt = 0 /\ orders[o].quantity # 0
          /\ \A k \in 1..Len(documents) : documents[k].order # o
      BY <2>1, <2>3 DEF HeaderIsDraft, NothingBeforeRelease, Unreleased
    <3>2. \A type : DocumentsOf(o, type)' = {} /\ DocumentsOf(o, type) = {}
      BY <3>1 DEF DocumentsOf
    <3>3. HeaderIsDraft(o)' /\ NothingBeforeRelease(o)'
      BY <2>1, <2>3, <3>1 DEF HeaderIsDraft, NothingBeforeRelease, Unreleased
    <3>4. KnowsDocuments(o)'
      BY <2>1, <2>3, <3>1, <3>2 DEF KnowsDocuments
    <3>5. OneDocument(o)'
      BY <3>1, <3>2 DEF OneDocument
    <3> QED BY <2>3, <3>3, <3>4, <3>5
  <2> QED BY <2>2, <2>3
<1> QED BY <1>2, <1>3 DEF DocumentsInv, ProductionTyped

-----------------------------------------------------------------------------
(* Documents.                                                              *)

\* A document of order o is posted, and the order notes its number.
Posts(o, type, list) ==
  /\ documents' = Append(documents, [order |-> o, type |-> type, list |-> list])
  /\ orders' = [orders EXCEPT ![o] = IF type = "issue" THEN [@ EXCEPT !.issue = Len(documents')]
                                     ELSE [@ EXCEPT !.receipt = Len(documents')]]

LEMMA PostsTyped ==
  ASSUME TypeOK, NEW o \in Order, NEW type \in {"issue", "receipt"}, NEW list \in List,
         Posts(o, type, list)
  PROVE  LET n == Len(documents) + 1 IN
         /\ documents' \in Seq(Document) /\ orders' \in [Order -> OrderRow]
         /\ Len(documents) \in Nat /\ Len(documents') = n
         /\ documents'[n].order = o /\ documents'[n].type = type /\ documents'[n].list = list
         /\ \A k \in 1..Len(documents) : documents'[k] = documents[k]
         /\ \A p \in Order \ {o} : orders'[p] = orders[p]
         /\ orders'[o].status = orders[o].status /\ orders'[o].quantity = orders[o].quantity
         /\ orders'[o].issue = IF type = "issue" THEN n ELSE orders[o].issue
         /\ orders'[o].receipt = IF type = "receipt" THEN n ELSE orders[o].receipt
<1> DEFINE new == [order |-> o, type |-> type, list |-> list]
<1>1. new \in Document
  BY DEF Document
<1>2. documents' = Append(documents, new)
  BY DEF Posts
<1>3. new.order = o /\ new.type = type /\ new.list = list
  OBVIOUS
<1> HIDE DEF new
<1>4. /\ Len(documents) \in Nat /\ Len(documents') = Len(documents) + 1
      /\ documents' \in Seq(Document) /\ documents'[Len(documents) + 1] = new
      /\ \A k \in 1..Len(documents) : documents'[k] = documents[k]
  BY <1>1, <1>2, ProductionTypes, AppendProperties
<1>5. orders[o] \in OrderRow /\ orders \in [Order -> OrderRow]
  BY ProductionTypes
<1>6. CASE type = "issue"
  <2> DEFINE row == [orders[o] EXCEPT !.issue = Len(documents')]
  <2>1. orders' = [orders EXCEPT ![o] = row]
    BY <1>5, <1>6 DEF Posts
  <2>2. /\ row \in OrderRow /\ row.status = orders[o].status /\ row.quantity = orders[o].quantity
        /\ row.issue = Len(documents) + 1 /\ row.receipt = orders[o].receipt
    BY <1>4, <1>5 DEF OrderRow
  <2> HIDE DEF row
  <2> QED BY <1>3, <1>4, <1>5, <1>6, <2>1, <2>2
<1>7. CASE type = "receipt"
  <2> DEFINE row == [orders[o] EXCEPT !.receipt = Len(documents')]
  <2>1. orders' = [orders EXCEPT ![o] = row]
    BY <1>5, <1>7 DEF Posts
  <2>2. /\ row \in OrderRow /\ row.status = orders[o].status /\ row.quantity = orders[o].quantity
        /\ row.receipt = Len(documents) + 1 /\ row.issue = orders[o].issue
    BY <1>4, <1>5 DEF OrderRow
  <2> HIDE DEF row
  <2> QED BY <1>3, <1>4, <1>5, <1>7, <2>1, <2>2
<1> QED BY <1>6, <1>7

LEMMA IssueTyped ==
  ASSUME TypeOK, NEW o \in Order, IssueMaterials(o)
  PROVE  /\ TypeOK' /\ UNCHANGED <<qualityVars, steps, required, reports, patching>>
         /\ orders[o].status \in Started /\ orders[o].issue = 0
         /\ \A p \in Order \ {o} : issued'[p] = issued[p]
         /\ \E list \in List :
              /\ Posts(o, "issue", list)
              /\ \A m \in Material : onHand'[m] = onHand[m] - list[m]
              /\ \A m \in Material :
                   issued'[o][m] = IF required[o][m] > 0 THEN issued[o][m] + list[m] ELSE issued[o][m]
<1> USE ProductionTypes
<1>0. orders[o].status \in Started /\ orders[o].issue = 0
      /\ UNCHANGED <<qualityVars, steps, required, reports, patching>>
  BY DEF IssueMaterials
<1>1. Materials \subseteq List /\ required[o] \in List /\ issued[o] \in List
  BY ProductionInputs
<1>2. Outstanding(o) \in List
  <2>1. \A m \in Material : required[o][m] \in Nat /\ issued[o][m] \in Nat
    BY <1>1 DEF List
  <2> QED BY <2>1 DEF Outstanding, AtLeastZero, List
<1>3. PICK list \in Materials \union {Outstanding(o)} :
       /\ \A m \in Material : list[m] <= onHand[m]
       /\ onHand' = [m \in Material |-> onHand[m] - list[m]]
       /\ documents' = Append(documents, [order |-> o, type |-> "issue", list |-> list])
       /\ issued' = [issued EXCEPT ![o] =
            [m \in Material |-> IF required[o][m] > 0 THEN issued[o][m] + list[m] ELSE issued[o][m]]]
  BY DEF IssueMaterials
<1>4. list \in List
  BY <1>1, <1>2
<1>5. Posts(o, "issue", list)
  BY <1>3 DEF IssueMaterials, Posts
<1>6. onHand' \in List
  <2>1. \A m \in Material : onHand[m] \in Nat /\ list[m] \in Nat /\ list[m] <= onHand[m]
    BY <1>3, <1>4 DEF List
  <2>2. \A m \in Material : onHand[m] - list[m] \in Nat
    BY <2>1
  <2> QED BY <1>3, <2>2 DEF List
<1> DEFINE now == [m \in Material |-> IF required[o][m] > 0 THEN issued[o][m] + list[m] ELSE issued[o][m]]
<1>7. now \in List
  <2>1. \A m \in Material : issued[o][m] \in Nat /\ list[m] \in Nat
    BY <1>1, <1>4 DEF List
  <2> QED BY <2>1 DEF List
<1>8. issued' \in [Order -> List] /\ issued'[o] = now /\ \A p \in Order \ {o} : issued'[p] = issued[p]
  <2> HIDE DEF now
  <2>1. issued' = [issued EXCEPT ![o] = now]
    BY <1>3 DEF now
  <2> QED BY <1>7, <2>1
<1>9. TypeOK'
  BY <1>0, <1>4, <1>5, <1>6, <1>8, PostsTyped DEF TypeOK, InspectionsTyped, qualityVars
<1> QED BY <1>0, <1>3, <1>4, <1>5, <1>8, <1>9

LEMMA ReceiptTyped ==
  ASSUME TypeOK, NEW o \in Order, steps[o] # <<>>, ReceiptFinishedGoods(o)
  PROVE  /\ TypeOK' /\ UNCHANGED <<qualityVars, steps, required, issued, reports, patching>>
         /\ orders[o].status = "completed" /\ orders[o].receipt = 0
         /\ Output(o) \in Nat
         /\ \E list \in List :
              /\ Posts(o, "receipt", list)
              /\ list[Product] = Output(o) /\ \A m \in Material \ {Product} : list[m] = 0
              /\ \A m \in Material : onHand'[m] = onHand[m] + list[m]
<1> USE ProductionTypes
<1>0. orders[o].status = "completed" /\ orders[o].receipt = 0
      /\ UNCHANGED <<qualityVars, steps, required, issued, reports, patching>>
  BY DEF ReceiptFinishedGoods
<1>1. Output(o) \in Nat
  <2>1. Len(steps[o]) \in 1..Len(steps[o])
    BY EmptySeq
  <2>2. steps[o][Len(steps[o])] \in Step
    BY <2>1
  <2> QED BY <2>2 DEF Output, Step
<1> DEFINE list == [EmptyList EXCEPT ![Product] = Output(o)]
<1>2. Product \in Material
  BY ProductionInputs
<1>3. list \in List /\ list[Product] = Output(o) /\ \A m \in Material \ {Product} : list[m] = 0
  BY <1>1, <1>2 DEF EmptyList, List
<1>4. Posts(o, "receipt", list)
  BY DEF ReceiptFinishedGoods, Posts
<1>5. onHand' = [onHand EXCEPT ![Product] = onHand[Product] + Output(o)]
  BY DEF ReceiptFinishedGoods
<1> HIDE DEF list
<1>6. \A m \in Material : onHand[m] \in Nat /\ list[m] \in Nat
  BY <1>3 DEF List
<1>7. onHand' \in List /\ \A m \in Material : onHand'[m] = onHand[m] + list[m]
  BY <1>1, <1>2, <1>3, <1>5, <1>6 DEF List
<1>8. TypeOK'
  BY <1>0, <1>3, <1>4, <1>7, PostsTyped DEF TypeOK, InspectionsTyped, qualityVars
<1> QED BY <1>0, <1>1, <1>3, <1>4, <1>7, <1>8

LEMMA IssueKeepsDocuments ==
  ASSUME DocumentsInv, NEW o \in Order, IssueMaterials(o)
  PROVE  DocumentsInv'
<1>0. TypeOK /\ InspectionsInv
  BY DEF DocumentsInv, ProductionTyped
<1>1. /\ TypeOK' /\ UNCHANGED <<qualityVars, steps, required, reports, patching>>
      /\ orders[o].status \in Started /\ orders[o].issue = 0
      /\ \A p \in Order \ {o} : issued'[p] = issued[p]
  BY <1>0, IssueTyped
<1>2. PICK list \in List :
              /\ Posts(o, "issue", list)
              /\ \A m \in Material :
                   issued'[o][m] = IF required[o][m] > 0 THEN issued[o][m] + list[m] ELSE issued[o][m]
  BY <1>0, IssueTyped
<1> DEFINE n == Len(documents) + 1
<1>3. /\ Len(documents) \in Nat /\ Len(documents') = n
      /\ documents'[n].order = o /\ documents'[n].type = "issue" /\ documents'[n].list = list
      /\ \A k \in 1..Len(documents) : documents'[k] = documents[k]
      /\ \A p \in Order \ {o} : orders'[p] = orders[p]
      /\ orders'[o].status = orders[o].status /\ orders'[o].quantity = orders[o].quantity
      /\ orders'[o].issue = n /\ orders'[o].receipt = orders[o].receipt
  BY <1>0, <1>2, PostsTyped
<1>4. /\ DocumentsOf(o, "issue")' = DocumentsOf(o, "issue") \union {n}
      /\ DocumentsOf(o, "receipt")' = DocumentsOf(o, "receipt")
      /\ \A p \in Order \ {o} : \A type : DocumentsOf(p, type)' = DocumentsOf(p, type)
  BY <1>3 DEF DocumentsOf
<1>5. InspectionsInv'
  BY <1>0, <1>1, InspectionsNextKeeps
<1>6. ASSUME NEW p \in Order
      PROVE  (HeaderIsDraft(p) /\ NothingBeforeRelease(p) /\ KnowsDocuments(p) /\ OneDocument(p))'
  <2>1. HeaderIsDraft(p) /\ NothingBeforeRelease(p) /\ KnowsDocuments(p) /\ OneDocument(p)
    BY DEF DocumentsInv
  <2>2. CASE p # o
    <3>1. orders'[p] = orders[p] /\ issued'[p] = issued[p]
      BY <1>1, <1>3, <2>2
    <3>2. HeaderIsDraft(p)' /\ NothingBeforeRelease(p)'
      BY <1>1, <1>3, <2>1, <2>2, <3>1 DEF HeaderIsDraft, NothingBeforeRelease
    <3>3. KnowsDocuments(p)'
      BY <1>4, <2>1, <2>2, <3>1 DEF KnowsDocuments
    <3>4. orders[p].issue # 0 => documents'[orders[p].issue] = documents[orders[p].issue]
      BY <1>3, <2>1 DEF KnowsDocuments, DocumentsOf
    <3>5. OneDocument(p)'
      BY <1>1, <1>4, <2>1, <2>2, <3>1, <3>4 DEF OneDocument
    <3> QED BY <3>2, <3>3, <3>5
  <2>3. CASE p = o
    <3>0. HeaderIsDraft(o) /\ NothingBeforeRelease(o) /\ KnowsDocuments(o) /\ OneDocument(o)
      BY <2>1, <2>3
    <3>1. DocumentsOf(o, "issue") = {} /\ DocumentsOf(o, "receipt") = {}
      <4>1. \A k \in DocumentsOf(o, "issue") : k = 0
        BY <1>1, <3>0 DEF KnowsDocuments
      <4>2. 0 \notin DocumentsOf(o, "issue")
        BY DEF DocumentsOf
      <4> QED BY <1>1, <3>0, <4>1, <4>2 DEF KnowsDocuments
    <3>2. DocumentsOf(o, "issue")' = {n} /\ DocumentsOf(o, "receipt")' = {}
      BY <1>4, <3>1
    <3>3. issued[o] = EmptyList
      BY <3>0, <3>1 DEF KnowsDocuments
    <3>4. \A m \in Material : required[o][m] > 0 => issued'[o][m] = list[m]
      BY <1>2, <3>3 DEF EmptyList, List
    <3>5. HeaderIsDraft(o)'
      BY <1>1, <1>3, <3>0 DEF HeaderIsDraft, Started, Unreleased
    <3>6. NothingBeforeRelease(o)'
      BY <1>1, <3>0 DEF NothingBeforeRelease
    <3>7. KnowsDocuments(o)'
      BY <1>1, <1>3, <3>0, <3>1, <3>2 DEF KnowsDocuments
    <3>8. OneDocument(o)'
      BY <1>1, <1>3, <3>2, <3>4 DEF OneDocument
    <3> QED BY <2>3, <3>5, <3>6, <3>7, <3>8
  <2> QED BY <2>2, <2>3
<1> QED BY <1>1, <1>5, <1>6 DEF DocumentsInv, ProductionTyped

LEMMA ReceiptKeepsDocuments ==
  ASSUME DocumentsInv, NEW o \in Order, ReceiptFinishedGoods(o)
  PROVE  DocumentsInv' /\ steps[o] # <<>> /\ DocumentsOf(o, "receipt") = {}
<1>0. TypeOK /\ InspectionsInv
  BY DEF DocumentsInv, ProductionTyped
<1>s. steps[o] # <<>>
  BY DEF DocumentsInv, NothingBeforeRelease, ReceiptFinishedGoods, Finished
<1>1. /\ TypeOK' /\ UNCHANGED <<qualityVars, steps, required, issued, reports, patching>>
      /\ orders[o].status = "completed" /\ orders[o].receipt = 0
  BY <1>0, <1>s, ReceiptTyped
<1>2. PICK list \in List : Posts(o, "receipt", list)
  BY <1>0, <1>s, ReceiptTyped
<1> DEFINE n == Len(documents) + 1
<1>3. /\ Len(documents) \in Nat /\ Len(documents') = n
      /\ documents'[n].order = o /\ documents'[n].type = "receipt" /\ documents'[n].list = list
      /\ \A k \in 1..Len(documents) : documents'[k] = documents[k]
      /\ \A p \in Order \ {o} : orders'[p] = orders[p]
      /\ orders'[o].status = orders[o].status /\ orders'[o].quantity = orders[o].quantity
      /\ orders'[o].receipt = n /\ orders'[o].issue = orders[o].issue
  BY <1>0, <1>2, PostsTyped
<1>4. /\ DocumentsOf(o, "receipt")' = DocumentsOf(o, "receipt") \union {n}
      /\ DocumentsOf(o, "issue")' = DocumentsOf(o, "issue")
      /\ \A p \in Order \ {o} : \A type : DocumentsOf(p, type)' = DocumentsOf(p, type)
  BY <1>3 DEF DocumentsOf
<1>5. InspectionsInv'
  BY <1>0, <1>1, InspectionsNextKeeps
<1>7. DocumentsOf(o, "receipt") = {}
  <2>1. \A k \in DocumentsOf(o, "receipt") : k = 0
    BY <1>1 DEF KnowsDocuments, DocumentsInv, Finished
  <2>2. 0 \notin DocumentsOf(o, "receipt")
    BY DEF DocumentsOf
  <2> QED BY <2>1, <2>2
<1>6. ASSUME NEW p \in Order
      PROVE  (HeaderIsDraft(p) /\ NothingBeforeRelease(p) /\ KnowsDocuments(p) /\ OneDocument(p))'
  <2>1. HeaderIsDraft(p) /\ NothingBeforeRelease(p) /\ KnowsDocuments(p) /\ OneDocument(p)
    BY DEF DocumentsInv
  <2>4. orders[p].issue # 0 => documents'[orders[p].issue] = documents[orders[p].issue]
    BY <1>3, <2>1 DEF KnowsDocuments, DocumentsOf
  <2>2. CASE p # o
    <3>1. orders'[p] = orders[p] /\ issued'[p] = issued[p]
      BY <1>1, <1>3, <2>2
    <3>2. HeaderIsDraft(p)' /\ NothingBeforeRelease(p)'
      BY <1>1, <1>3, <2>1, <2>2, <3>1 DEF HeaderIsDraft, NothingBeforeRelease
    <3>3. KnowsDocuments(p)'
      BY <1>4, <2>1, <2>2, <3>1 DEF KnowsDocuments
    <3>5. OneDocument(p)'
      BY <1>1, <1>4, <2>1, <2>2, <2>4, <3>1 DEF OneDocument
    <3> QED BY <3>2, <3>3, <3>5
  <2>3. CASE p = o
    <3>0. HeaderIsDraft(o) /\ NothingBeforeRelease(o) /\ KnowsDocuments(o) /\ OneDocument(o)
      BY <2>1, <2>3
    <3>2. DocumentsOf(o, "receipt")' = {n}
      BY <1>4, <1>7
    <3>5. HeaderIsDraft(o)'
      BY <1>1, <1>3, <3>0 DEF HeaderIsDraft, Unreleased
    <3>6. NothingBeforeRelease(o)'
      BY <1>1, <1>s DEF NothingBeforeRelease
    <3>7. KnowsDocuments(o)'
      BY <1>1, <1>3, <1>4, <3>0, <3>2 DEF KnowsDocuments, Started, Finished
    <3>8. OneDocument(o)'
      BY <1>1, <1>3, <1>4, <2>3, <2>4, <3>0, <3>2 DEF OneDocument
    <3> QED BY <2>3, <3>5, <3>6, <3>7, <3>8
  <2> QED BY <2>2, <2>3
<1> QED BY <1>1, <1>5, <1>6, <1>7, <1>s DEF DocumentsInv, ProductionTyped

-----------------------------------------------------------------------------
(* Reports.                                                                *)

LEMMA ReportedTyped ==
  ASSUME NEW step \in Step, NEW planned \in Nat, NEW r \in Outcome, GateInspection(step) \in Nat
  PROVE  LET now == Reported(step, planned, r) IN
         /\ now \in Step
         /\ now.gate = step.gate
         /\ now.reported = step.reported + r.quantity
         /\ now.qualified = step.qualified + r.qualified
         /\ now.scrap = step.scrap + r.scrap
         /\ now.status = IF step.reported + r.quantity >= planned THEN "completed" ELSE "in_progress"
         /\ now.inspection = GateInspection(step)
<1>1. r.quantity \in Nat /\ r.qualified \in Nat /\ r.scrap \in Nat
  BY OutcomeType
<1> DEFINE status == IF step.reported + r.quantity >= planned THEN "completed" ELSE "in_progress"
           row == [gate |-> step.gate, status |-> status, reported |-> step.reported + r.quantity,
                   qualified |-> step.qualified + r.qualified, scrap |-> step.scrap + r.scrap,
                   inspection |-> GateInspection(step)]
<1>0. /\ step = [gate |-> step.gate, status |-> step.status, reported |-> step.reported,
                 qualified |-> step.qualified, scrap |-> step.scrap, inspection |-> step.inspection]
      /\ DOMAIN step = {"gate", "status", "reported", "qualified", "scrap", "inspection"}
  BY DEF Step
<1>2. Reported(step, planned, r) = row
  <2>1. DOMAIN Reported(step, planned, r) = DOMAIN row
    BY <1>0, Zenon DEF Reported
  <2> DEFINE n == Reported(step, planned, r)
  <2>2. /\ n.gate = row.gate /\ n.status = row.status /\ n.reported = row.reported
        /\ n.qualified = row.qualified /\ n.scrap = row.scrap /\ n.inspection = row.inspection
    BY <1>0 DEF Reported
  <2> QED BY <1>0, <2>1, <2>2 DEF Reported
<1>3. row \in Step
  BY <1>1 DEF Step
<1> QED BY <1>2, <1>3

LEMMA ReportTyped ==
  ASSUME ProductionTyped, NEW o \in Order, NEW s \in 1..Len(steps[o]), ReportProduction(o, s)
  PROVE  LET n == Len(reports) + 1
             step == steps[o][s]
             now == steps'[o][s]
         IN
         /\ TypeOK' /\ InspectionsInv'
         /\ UNCHANGED <<overlapped, required, issued, documents, onHand, patching>>
         /\ Len(inspections) \in Nat /\ Len(inspections') >= Len(inspections)
         /\ \A k \in 1..Len(inspections) :
              inspections'[k] = inspections[k] /\ results'[k] = results[k]
         /\ orders[o].status \in Started /\ step.status # "completed"
         /\ \A p \in Order \ {o} : orders'[p] = orders[p] /\ steps'[p] = steps[p]
         /\ orders'[o].status = "in_progress" /\ orders'[o].quantity = orders[o].quantity
         /\ orders'[o].issue = orders[o].issue /\ orders'[o].receipt = orders[o].receipt
         /\ Len(steps'[o]) = Len(steps[o]) /\ steps'[o] # <<>>
         /\ \A t \in 1..Len(steps[o]) \ {s} : steps'[o][t] = steps[o][t]
         /\ \E r \in Outcome :
              /\ step.reported + r.quantity <= orders[o].quantity
              /\ reports' = Append(reports, [order |-> o, step |-> s, outcome |-> r])
              /\ Len(reports) \in Nat /\ Len(reports') = n
              /\ \A k \in 1..Len(reports) : reports'[k] = reports[k]
              /\ reports'[n].order = o /\ reports'[n].step = s /\ reports'[n].outcome = r
              /\ now.gate = step.gate
              /\ now.reported = step.reported + r.quantity
              /\ now.qualified = step.qualified + r.qualified
              /\ now.scrap = step.scrap + r.scrap
              /\ now.status = IF step.reported + r.quantity >= orders[o].quantity
                              THEN "completed" ELSE "in_progress"
              /\ now.inspection = GateInspection(step)
              /\ now.inspection \in Nat
              /\ now.inspection # step.inspection => now.inspection \in 1..Len(inspections')
<1> DEFINE step == steps[o][s]
<1>0. TypeOK /\ InspectionsInv
  BY DEF ProductionTyped
<1> USE <1>0, ProductionTypes
<1>1. step \in Step /\ orders[o] \in OrderRow /\ s \in Nat \ {0} /\ s \in DOMAIN steps[o]
  <2>1. steps[o] \in Seq(Step) /\ Len(steps[o]) \in Nat
    OBVIOUS
  <2> QED BY <2>1
<1>2. PICK r \in Outcome :
        /\ step.reported + r.quantity <= orders[o].quantity
        /\ reports' = Append(reports, [order |-> o, step |-> s, outcome |-> r])
        /\ steps' = [steps EXCEPT ![o][s] = Reported(step, orders[o].quantity, r)]
  BY DEF ReportProduction
<1>3. /\ orders[o].status \in Started /\ step.status # "completed" /\ EnsureGateInspection(step)
      /\ orders' = [orders EXCEPT ![o] = [orders[o] EXCEPT !.status = "in_progress"]]
      /\ UNCHANGED <<alerts, inspecting, alerting, overlapped, moved,
                     required, issued, documents, onHand, patching>>
  BY DEF ReportProduction
<1>4. Len(inspections) \in Nat /\ inspections \in Seq(Inspection)
      /\ results \in Seq([Item -> Verdict]) /\ Len(results) = Len(inspections)
  BY InspectionsSizes
<1>5. /\ InspectionsInv' /\ Len(inspections') >= Len(inspections)
      /\ \A k \in 1..Len(inspections) : inspections'[k] = inspections[k] /\ results'[k] = results[k]
      /\ GateInspection(step) \in Nat
      /\ GateInspection(step) # step.inspection => GateInspection(step) \in 1..Len(inspections')
  <2>1. CASE step.gate /\ step.inspection = 0
    <3>1. CreateInspection
      BY <1>3, <2>1 DEF CreateInspection, EnsureGateInspection
    <3>2. NewInspection \in Inspection /\ NoResults \in [Item -> Verdict]
      BY DEF NewInspection, NoResults, Inspection, InspectionStatus, Judgement, Verdict
    <3>3. inspections' = Append(inspections, NewInspection) /\ results' = Append(results, NoResults)
      BY <3>1 DEF CreateInspection, AddInspection
    <3>4. /\ Len(inspections') = Len(inspections) + 1
          /\ \A k \in 1..Len(inspections) : inspections'[k] = inspections[k] /\ results'[k] = results[k]
      BY <1>4, <3>2, <3>3
    <3> QED BY <1>4, <2>1, <3>1, <3>4, CreateInspectionKeeps DEF GateInspection
  <2>2. CASE ~ (step.gate /\ step.inspection = 0)
    <3>1. UNCHANGED qualityVars
      BY <1>3, <2>2 DEF EnsureGateInspection, qualityVars
    <3>2. InspectionsInv'
      BY <3>1, InspectionsNextKeeps
    <3>3. GateInspection(step) = step.inspection /\ step.inspection \in Nat
      BY <1>1, <2>2 DEF GateInspection, Step
    <3> QED BY <1>4, <3>1, <3>2, <3>3 DEF qualityVars
  <2> QED BY <2>1, <2>2
<1> DEFINE now == Reported(step, orders[o].quantity, r)
<1>6. /\ now \in Step
      /\ now.gate = step.gate
      /\ now.reported = step.reported + r.quantity
      /\ now.qualified = step.qualified + r.qualified
      /\ now.scrap = step.scrap + r.scrap
      /\ now.status = IF step.reported + r.quantity >= orders[o].quantity
                      THEN "completed" ELSE "in_progress"
      /\ now.inspection = GateInspection(step)
  <2>1. GateInspection(step) \in Nat /\ orders[o].quantity \in Nat
    BY <1>1, <1>5 DEF OrderRow
  <2> HIDE DEF step
  <2> QED BY <1>1, <2>1, ReportedTyped
<1> DEFINE new == [order |-> o, step |-> s, outcome |-> r]
<1>7. /\ new \in Report /\ new.order = o /\ new.step = s /\ new.outcome = r
  BY <1>1 DEF Report
<1>8. /\ Len(reports') = Len(reports) + 1 /\ reports' \in Seq(Report)
      /\ reports'[Len(reports) + 1] = new
      /\ \A k \in 1..Len(reports) : reports'[k] = reports[k]
  <2> HIDE DEF new
  <2>1. reports' = Append(reports, new)
    BY <1>2 DEF new
  <2> QED BY <1>7, <2>1, AppendProperties
<1>9. /\ steps' \in [Order -> Seq(Step)] /\ Len(steps'[o]) = Len(steps[o])
      /\ \A p \in Order \ {o} : steps'[p] = steps[p]
      /\ \A t \in 1..Len(steps[o]) \ {s} : steps'[o][t] = steps[o][t]
      /\ steps'[o][s] = now
  <2> HIDE DEF now
  <2>1. steps' = [steps EXCEPT ![o] = [steps[o] EXCEPT ![s] = now]]
    BY <1>2 DEF now
  <2>2. [steps[o] EXCEPT ![s] = now] \in Seq(Step) /\ Len([steps[o] EXCEPT ![s] = now]) = Len(steps[o])
    BY <1>1, <1>6, ExceptSeq
  <2> QED BY <1>1, <2>1, <2>2
<1>10. steps'[o] # <<>>
  BY <1>9, EmptySeq
<1>11. /\ orders' \in [Order -> OrderRow]
       /\ orders'[o].status = "in_progress" /\ orders'[o].quantity = orders[o].quantity
       /\ orders'[o].issue = orders[o].issue /\ orders'[o].receipt = orders[o].receipt
       /\ \A p \in Order \ {o} : orders'[p] = orders[p]
  BY <1>1, <1>3 DEF OrderRow, OrderStatus
<1>12. TypeOK'
  BY <1>3, <1>5, <1>8, <1>9, <1>11 DEF TypeOK, InspectionsInv
<1> HIDE DEF now, new
<1>13. \E p \in Outcome :
         /\ step.reported + p.quantity <= orders[o].quantity
         /\ reports' = Append(reports, [order |-> o, step |-> s, outcome |-> p])
         /\ reports'[Len(reports) + 1].order = o /\ reports'[Len(reports) + 1].step = s
         /\ reports'[Len(reports) + 1].outcome = p
         /\ now.reported = step.reported + p.quantity
         /\ now.qualified = step.qualified + p.qualified
         /\ now.scrap = step.scrap + p.scrap
         /\ now.status = IF step.reported + p.quantity >= orders[o].quantity
                         THEN "completed" ELSE "in_progress"
  <2> HIDE DEF step
  <2> QED BY <1>2, <1>6, <1>7, <1>8
<1>14. /\ now.gate = step.gate /\ now.inspection = GateInspection(step) /\ now.inspection \in Nat
       /\ now.inspection # step.inspection => now.inspection \in 1..Len(inspections')
       /\ Len(reports') = Len(reports) + 1 /\ \A k \in 1..Len(reports) : reports'[k] = reports[k]
  <2> HIDE DEF step
  <2> QED BY <1>5, <1>6, <1>8
<1> QED BY <1>2, <1>3, <1>4, <1>5, <1>9, <1>10, <1>11, <1>12, <1>13, <1>14

LEMMA ReportKeepsDocuments ==
  ASSUME DocumentsInv, NEW o \in Order, NEW s \in 1..Len(steps[o]), ReportProduction(o, s)
  PROVE  DocumentsInv'
<1>1. ProductionTyped
  BY DEF DocumentsInv
<1>2. /\ TypeOK' /\ InspectionsInv'
      /\ UNCHANGED <<required, issued, documents, patching>>
      /\ orders[o].status \in Started
      /\ \A p \in Order \ {o} : orders'[p] = orders[p] /\ steps'[p] = steps[p]
      /\ orders'[o].status = "in_progress" /\ orders'[o].quantity = orders[o].quantity
      /\ orders'[o].issue = orders[o].issue /\ orders'[o].receipt = orders[o].receipt
      /\ steps'[o] # <<>>
  BY <1>1, ReportTyped
<1>3. /\ Len(reports) \in Nat /\ Len(reports') = Len(reports) + 1
      /\ \A k \in 1..Len(reports) : reports'[k] = reports[k]
      /\ reports'[Len(reports) + 1].order = o
  BY <1>1, ReportTyped
<1>4. ASSUME NEW p \in Order
      PROVE  (HeaderIsDraft(p) /\ NothingBeforeRelease(p) /\ KnowsDocuments(p) /\ OneDocument(p))'
  <2>1. HeaderIsDraft(p) /\ NothingBeforeRelease(p) /\ KnowsDocuments(p) /\ OneDocument(p)
    BY DEF DocumentsInv
  <2>2. \A type : DocumentsOf(p, type)' = DocumentsOf(p, type)
    BY <1>2 DEF DocumentsOf
  <2>3. NothingBeforeRelease(p)'
    <3>1. CASE p = o
      BY <1>2, <3>1 DEF NothingBeforeRelease
    <3>2. CASE p # o
      <4>1. orders'[p] = orders[p] /\ steps'[p] = steps[p]
        BY <1>2, <3>2
      <4>2. \A k \in 1..Len(reports') : reports'[k].order = p => k \in 1..Len(reports)
        BY <1>3, <3>2
      <4> QED BY <1>2, <1>3, <2>1, <4>1, <4>2 DEF NothingBeforeRelease
    <3> QED BY <3>1, <3>2
  <2>4. CASE p = o
    <3>1. HeaderIsDraft(o)'
      BY <1>2, <2>1, <2>4 DEF HeaderIsDraft, Unreleased, Started
    <3>2. KnowsDocuments(o)'
      BY <1>2, <2>1, <2>2, <2>4 DEF KnowsDocuments, Started, Finished
    <3>3. OneDocument(o)'
      BY <1>2, <2>1, <2>2, <2>4 DEF OneDocument
    <3> QED BY <2>3, <2>4, <3>1, <3>2, <3>3
  <2>5. CASE p # o
    <3>1. orders'[p] = orders[p] /\ UNCHANGED <<required, issued, documents, patching>>
      BY <1>2, <2>5
    <3> QED BY <2>1, <2>2, <2>3, <3>1 DEF HeaderIsDraft, KnowsDocuments, OneDocument
  <2> QED BY <2>4, <2>5
<1> QED BY <1>2, <1>4 DEF DocumentsInv, ProductionTyped

-----------------------------------------------------------------------------
(* All steps.                                                              *)

LEMMA QualityKeepsDocuments ==
  ASSUME DocumentsInv, [InspectionsNext]_qualityVars, UNCHANGED ordersVars
  PROVE  DocumentsInv'
<1>1. InspectionsInv'
  BY InspectionsNextKeeps DEF DocumentsInv, ProductionTyped
<1>2. UNCHANGED <<orders, steps, required, issued, reports, documents, onHand, patching>>
  BY DEF ordersVars
<1>3. TypeOK'
  BY <1>1, <1>2 DEF DocumentsInv, ProductionTyped, TypeOK, InspectionsInv
<1>4. ASSUME NEW p \in Order
      PROVE  (HeaderIsDraft(p) /\ NothingBeforeRelease(p) /\ KnowsDocuments(p) /\ OneDocument(p))'
  BY <1>2 DEF DocumentsInv, HeaderIsDraft, NothingBeforeRelease, KnowsDocuments, OneDocument, DocumentsOf
<1> QED BY <1>1, <1>3, <1>4 DEF DocumentsInv, ProductionTyped

LEMMA DocumentsInitHolds == ASSUME Init PROVE DocumentsInv
<1>1. InspectionsInv
  BY InspectionsInitHolds DEF Init
<1>2. Absent \in OrderRow /\ [open |-> FALSE, row |-> Absent] \in HeaderCall
  BY DEF Absent, OrderRow, OrderStatus, HeaderCall
<1>3. TypeOK
  BY <1>1, <1>2, EmptyListTyped, ProductionInputs DEF Init, TypeOK, InspectionsInv
<1>4. ASSUME NEW o \in Order
      PROVE  HeaderIsDraft(o) /\ NothingBeforeRelease(o) /\ KnowsDocuments(o) /\ OneDocument(o)
  BY DEF Init, Absent, HeaderIsDraft, NothingBeforeRelease, KnowsDocuments, OneDocument, DocumentsOf,
     Started, Finished, Unreleased
<1> QED BY <1>1, <1>3, <1>4 DEF DocumentsInv, ProductionTyped

LEMMA NextKeepsDocuments == ASSUME DocumentsInv, [Next]_vars PROVE DocumentsInv'
<1>1. ASSUME NEW o \in Order, OrderCalls(o) PROVE DocumentsInv'
  <2>1. ASSUME NEW s \in 1..Len(steps[o]), ReportProduction(o, s) PROVE DocumentsInv'
    BY <2>1, ReportKeepsDocuments
  <2> QED BY <1>1, <2>1, HeaderCallsKeepDocuments, ReleaseKeepsDocuments, IssueKeepsDocuments,
             ReceiptKeepsDocuments DEF OrderCalls, HeaderCalls
<1>2. CASE InspectionsNext /\ UNCHANGED ordersVars
  BY <1>2, QualityKeepsDocuments
<1>3. CASE UNCHANGED vars
  <2>1. UNCHANGED qualityVars /\ UNCHANGED ordersVars
    BY <1>3 DEF vars, qualityVars, ordersVars
  <2> QED BY <2>1, QualityKeepsDocuments
<1> QED BY <1>1, <1>2, <1>3 DEF Next

\* However calls on orders, their header forms and the inspections of their gates interleave
\* (mes/services.py): an order posts at most one issue and one receipt document, and shows
\* what its issue document took.
THEOREM OrdersPostOnce == Spec => []OneDocumentEach
<1>1. DocumentsInv => OneDocumentEach
  BY DEF DocumentsInv, OneDocumentEach, OneDocument
<1> QED BY <1>1, DocumentsInitHolds, NextKeepsDocuments, PTL DEF Spec

-----------------------------------------------------------------------------
(* Steps, gates and stock.                                                 *)

\* What the reports on a step say in one column.
ColumnOf(o, s, f) ==
  Sum([k \in 1..Len(reports) |-> IF reports[k].order = o /\ reports[k].step = s THEN f[k] ELSE 0],
      Len(reports))
Quantities == [k \in 1..Len(reports) |-> reports[k].outcome.quantity]
Qualified == [k \in 1..Len(reports) |-> reports[k].outcome.qualified]
Scrapped == [k \in 1..Len(reports) |-> reports[k].outcome.scrap]

CountsReports(o) ==
  \A s \in 1..Len(steps[o]) :
    /\ steps[o][s].reported = ColumnOf(o, s, Quantities)
    /\ steps[o][s].qualified = ColumnOf(o, s, Qualified)
    /\ steps[o][s].scrap = ColumnOf(o, s, Scrapped)

StepInPlan(o, s) ==
  /\ steps[o][s].qualified <= steps[o][s].reported
  /\ steps[o][s].inspection \in 0..Len(inspections)
  /\ orders[o].status \in Started \union Finished =>
       /\ steps[o][s].reported <= orders[o].quantity
       /\ steps[o][s].status = "completed" <=> steps[o][s].reported = orders[o].quantity

GoodJudgement == {"passed", "concession"}

StepIsDone(o, s) ==
  orders[o].status \in Finished =>
    /\ steps[o][s].reported = orders[o].quantity
    /\ steps[o][s].gate =>
         /\ steps[o][s].inspection # 0
         /\ steps[o][s].inspection \notin overlapped =>
              inspections[steps[o][s].inspection].judgement \in GoodJudgement

Delivered(o) ==
  /\ \A k \in DocumentsOf(o, "receipt") :
       documents[k].list[Product] = steps[o][Len(steps[o])].qualified
  /\ orders[o].receipt # 0 => documents[orders[o].receipt].list[Product] <= orders[o].quantity

StepsInv(o) ==
  /\ CountsReports(o)
  /\ \A s \in 1..Len(steps[o]) : StepInPlan(o, s) /\ StepIsDone(o, s)
  /\ Delivered(o)

StockColumn(m) ==
  [k \in 1..Len(documents) |-> IF documents[k].type = "issue" THEN documents[k].list[m]
                               ELSE - documents[k].list[m]]
StockAddsUp == \A m \in Material : onHand[m] + Sum(StockColumn(m), Len(documents)) = Supply[m]

ProductionInv ==
  /\ DocumentsInv
  /\ \A o \in Order : StepsInv(o)
  /\ StockAddsUp

-----------------------------------------------------------------------------
(* A judgement that lets an order through stays, unless calls overlapped.  *)

LEMMA JudgementStays ==
  ASSUME InspectionsInv, [InspectionsNext]_qualityVars
  PROVE  /\ Len(inspections) \in Nat /\ Len(inspections') >= Len(inspections)
         /\ overlapped \subseteq overlapped'
         /\ \A n \in 1..Len(inspections) :
              n \notin overlapped /\ inspections[n].judgement \in GoodJudgement
                => inspections'[n].judgement \in GoodJudgement
<1> DEFINE Stays == \A n \in 1..Len(inspections) :
                      n \notin overlapped /\ inspections[n].judgement \in GoodJudgement
                        => inspections'[n].judgement \in GoodJudgement
<1>0. Len(inspections) \in Nat
  BY InspectionsSizes
<1>1. CASE inspections' = inspections /\ overlapped \subseteq overlapped'
  BY <1>0, <1>1
<1>2. CASE CreateInspection
  <2>1. NewInspection \in Inspection
    BY DEF NewInspection, Inspection, InspectionStatus, Judgement
  <2>2. /\ inspections' = Append(inspections, NewInspection) /\ overlapped' = overlapped
        /\ inspections \in Seq(Inspection)
    BY <1>2, InspectionsSizes DEF CreateInspection, AddInspection
  <2>3. /\ Len(inspections') = Len(inspections) + 1
        /\ \A n \in 1..Len(inspections) : inspections'[n] = inspections[n]
    BY <2>1, <2>2, AppendProperties
  <2> QED BY <1>0, <2>2, <2>3
<1>3. ASSUME NEW u \in Inspector,
             SubmitInspection(u) \/ JudgeInspection(u) \/ CloseInspection(u) \/ PatchInspection(u)
      PROVE  overlapped' = overlapped /\ Len(inspections') = Len(inspections) /\ Stays
  <2> DEFINE n == inspecting[u].id
  <2>1. n # 0 /\ overlapped' = overlapped
    BY <1>3 DEF SubmitInspection, JudgeInspection, CloseInspection, PatchInspection
  <2>2. /\ n \in 1..Len(inspections) /\ inspecting[u].row \in Inspection
        /\ inspections[n] \in Inspection /\ inspections \in Seq(Inspection)
        /\ n \notin overlapped => inspecting[u].row = inspections[n] /\ Agrees(n)
    BY <2>1, CallOfRow, InspectionsSizes
  <2>3. \E row \in Inspection :
          /\ inspections' = [inspections EXCEPT ![n] = row]
          /\ n \notin overlapped /\ inspections[n].judgement \in GoodJudgement
               => row.judgement \in GoodJudgement
    <3>1. CASE SubmitInspection(u) \/ CloseInspection(u)
      <4>1. PICK status \in {"submitted", "closed"} :
              inspections' = [inspections EXCEPT ![n] = [inspections[n] EXCEPT !.status = status]]
        BY <3>1 DEF SubmitInspection, CloseInspection
      <4>2. [inspections[n] EXCEPT !.status = status] \in Inspection
        BY <2>2 DEF Inspection, InspectionStatus
      <4>3. [inspections[n] EXCEPT !.status = status].judgement = inspections[n].judgement
        BY <2>2 DEF Inspection
      <4> QED BY <4>1, <4>2, <4>3
    <3>2. CASE PatchInspection(u)
      <4>1. inspections' = [inspections EXCEPT ![n] = inspecting[u].row]
        BY <3>2 DEF PatchInspection
      <4> QED BY <2>2, <4>1
    <3>3. CASE JudgeInspection(u)
      <4>1. PICK judgement \in JudgementsAllowed(n) :
              inspections' = [inspections EXCEPT ![n] = [status |-> "judged", judgement |-> judgement]]
        BY <3>3 DEF JudgeInspection
      <4>2. [status |-> "judged", judgement |-> judgement] \in Inspection
        BY DEF JudgementsAllowed, Inspection, InspectionStatus, Judgement
      <4>3. n \notin overlapped => inspections[n].judgement \notin GoodJudgement
        BY <2>2, <3>3 DEF JudgeInspection, Agrees, GoodJudgement
      <4> QED BY <4>1, <4>2, <4>3
    <3> QED BY <1>3, <3>1, <3>2, <3>3
  <2>4. PICK row \in Inspection :
          /\ inspections' = [inspections EXCEPT ![n] = row]
          /\ n \notin overlapped /\ inspections[n].judgement \in GoodJudgement
               => row.judgement \in GoodJudgement
    BY <2>3
  <2>5. /\ Len(inspections') = Len(inspections)
        /\ \A k \in 1..Len(inspections) : inspections'[k] = IF k = n THEN row ELSE inspections[k]
    BY <2>2, <2>4, ExceptSeq
  <2> QED BY <2>1, <2>2, <2>4, <2>5
<1>4. ASSUME NEW u \in Inspector,
             LeaveInspection(u) \/ RecordResults(u)
               \/ \E n \in 1..Len(inspections) : RetrieveInspection(u, n)
      PROVE  inspections' = inspections /\ overlapped \subseteq overlapped'
  <2>1. CASE \E n \in 1..Len(inspections) : RetrieveInspection(u, n)
    BY <2>1 DEF RetrieveInspection
  <2>2. CASE LeaveInspection(u) \/ RecordResults(u)
    BY <2>2 DEF LeaveInspection, RecordResults
  <2> QED BY <1>4, <2>1, <2>2
<1>5. ASSUME CreateAlert \/ \E u \in Handler : AlertCalls(u)
      PROVE  inspections' = inspections /\ overlapped' = overlapped
  <2>1. CASE CreateAlert
    BY <2>1 DEF CreateAlert
  <2>2. ASSUME NEW u \in Handler, AlertCalls(u)
        PROVE  inspections' = inspections /\ overlapped' = overlapped
    BY <2>2 DEF AlertCalls, RetrieveAlert, LeaveAlert, HandleAlert, CloseAlert, PatchAlert
  <2> QED BY <1>5, <2>1, <2>2
<1>6. CASE UNCHANGED qualityVars
  BY <1>1, <1>6 DEF qualityVars
<1>7. ASSUME NEW u \in Inspector, InspectionCalls(u)
      PROVE  Len(inspections') >= Len(inspections) /\ overlapped \subseteq overlapped' /\ Stays
  <2>1. CASE LeaveInspection(u) \/ RecordResults(u)
               \/ \E n \in 1..Len(inspections) : RetrieveInspection(u, n)
    BY <1>0, <1>4, <2>1
  <2>2. CASE SubmitInspection(u) \/ JudgeInspection(u) \/ CloseInspection(u) \/ PatchInspection(u)
    BY <1>0, <1>3, <2>2
  <2> QED BY <1>7, <2>1, <2>2 DEF InspectionCalls
<1>8. CASE CreateAlert \/ \E u \in Handler : AlertCalls(u)
  BY <1>0, <1>5, <1>8
<1> QED BY <1>0, <1>2, <1>6, <1>7, <1>8 DEF InspectionsNext

-----------------------------------------------------------------------------
(* What a step of one order, or of its inspections, leaves of an order.    *)

LEMMA SameReports ==
  ASSUME reports' = reports, NEW p, NEW t
  PROVE  /\ ColumnOf(p, t, Quantities)' = ColumnOf(p, t, Quantities)
         /\ ColumnOf(p, t, Qualified)' = ColumnOf(p, t, Qualified)
         /\ ColumnOf(p, t, Scrapped)' = ColumnOf(p, t, Scrapped)
BY DEF ColumnOf, Quantities, Qualified, Scrapped

LEMMA ReportCounted ==
  ASSUME TypeOK, TypeOK', NEW r \in Outcome, NEW o, NEW s,
         Len(reports') = Len(reports) + 1,
         \A k \in 1..Len(reports) : reports'[k] = reports[k],
         reports'[Len(reports) + 1].order = o, reports'[Len(reports) + 1].step = s,
         reports'[Len(reports) + 1].outcome = r,
         NEW p, NEW t
  PROVE  LET here == p = o /\ t = s IN
         /\ ColumnOf(p, t, Quantities)' = ColumnOf(p, t, Quantities) + IF here THEN r.quantity ELSE 0
         /\ ColumnOf(p, t, Qualified)' = ColumnOf(p, t, Qualified) + IF here THEN r.qualified ELSE 0
         /\ ColumnOf(p, t, Scrapped)' = ColumnOf(p, t, Scrapped) + IF here THEN r.scrap ELSE 0
<1> DEFINE n == Len(reports)
           of(k) == reports[k].order = p /\ reports[k].step = t
<1>1. n \in Nat /\ r.quantity \in Nat /\ r.qualified \in Nat /\ r.scrap \in Nat
  BY ProductionTypes, OutcomeType
<1>2. /\ \A k \in 1..n : reports[k].outcome \in Outcome
      /\ \A k \in 1..n : /\ reports[k].outcome.quantity \in Nat
                         /\ reports[k].outcome.qualified \in Nat
                         /\ reports[k].outcome.scrap \in Nat
  <2>1. \A k \in 1..n : reports[k].outcome \in Outcome
    BY ProductionTypes DEF Report
  <2> QED BY <2>1, OutcomeType
<1>3. \A k \in 1..n : reports'[k] = reports[k]
  OBVIOUS
<1>4. \A k \in 1..(n + 1) : k \in 1..n \/ k = n + 1
  BY <1>1
<1> DEFINE f1 == [k \in 1..n |-> IF of(k) THEN Quantities[k] ELSE 0]
           f2 == [k \in 1..n |-> IF of(k) THEN Qualified[k] ELSE 0]
           f3 == [k \in 1..n |-> IF of(k) THEN Scrapped[k] ELSE 0]
           h1 == [k \in 1..(n + 1) |-> IF of(k)' THEN Quantities'[k] ELSE 0]
           h2 == [k \in 1..(n + 1) |-> IF of(k)' THEN Qualified'[k] ELSE 0]
           h3 == [k \in 1..(n + 1) |-> IF of(k)' THEN Scrapped'[k] ELSE 0]
<1>5. /\ \A k \in 1..n : /\ Quantities[k] = reports[k].outcome.quantity
                         /\ Qualified[k] = reports[k].outcome.qualified
                         /\ Scrapped[k] = reports[k].outcome.scrap
      /\ \A k \in 1..(n + 1) : /\ Quantities'[k] = reports'[k].outcome.quantity
                               /\ Qualified'[k] = reports'[k].outcome.qualified
                               /\ Scrapped'[k] = reports'[k].outcome.scrap
  BY DEF Quantities, Qualified, Scrapped
<1>6. /\ f1 \in [1..n -> Int] /\ f2 \in [1..n -> Int] /\ f3 \in [1..n -> Int]
      /\ h1 \in [1..(n + 1) -> Int] /\ h2 \in [1..(n + 1) -> Int] /\ h3 \in [1..(n + 1) -> Int]
  <2>1. \A k \in 1..n : Quantities[k] \in Int /\ Qualified[k] \in Int /\ Scrapped[k] \in Int
    BY <1>2, <1>5
  <2>2. \A k \in 1..(n + 1) : Quantities'[k] \in Int /\ Qualified'[k] \in Int /\ Scrapped'[k] \in Int
    <3> SUFFICES ASSUME NEW k \in 1..(n + 1)
                 PROVE  Quantities'[k] \in Int /\ Qualified'[k] \in Int /\ Scrapped'[k] \in Int
      OBVIOUS
    <3>0. /\ Quantities'[k] = reports'[k].outcome.quantity
          /\ Qualified'[k] = reports'[k].outcome.qualified
          /\ Scrapped'[k] = reports'[k].outcome.scrap
      BY <1>5
    <3>1. CASE k \in 1..n
      <4>1. reports'[k] = reports[k]
        BY <1>3, <3>1
      <4>2. /\ reports[k].outcome.quantity \in Nat /\ reports[k].outcome.qualified \in Nat
            /\ reports[k].outcome.scrap \in Nat
        BY <1>2, <3>1
      <4> QED BY <3>0, <4>1, <4>2
    <3>2. CASE k = n + 1
      <4>1. reports'[k].outcome = r
        BY <3>2
      <4> QED BY <1>1, <3>0, <4>1
    <3> QED BY <1>4, <3>1, <3>2
  <2> QED BY <2>1, <2>2
<1>7. \A k \in 1..n : h1[k] = f1[k] /\ h2[k] = f2[k] /\ h3[k] = f3[k]
  BY <1>1, <1>3, <1>5
<1>8. LET here == p = o /\ t = s IN
      /\ h1[n + 1] = IF here THEN r.quantity ELSE 0
      /\ h2[n + 1] = IF here THEN r.qualified ELSE 0
      /\ h3[n + 1] = IF here THEN r.scrap ELSE 0
  BY <1>1, <1>5
<1>9. /\ ColumnOf(p, t, Quantities) = Sum(f1, n) /\ ColumnOf(p, t, Quantities)' = Sum(h1, n + 1)
      /\ ColumnOf(p, t, Qualified) = Sum(f2, n) /\ ColumnOf(p, t, Qualified)' = Sum(h2, n + 1)
      /\ ColumnOf(p, t, Scrapped) = Sum(f3, n) /\ ColumnOf(p, t, Scrapped)' = Sum(h3, n + 1)
  BY DEF ColumnOf
<1> HIDE DEF f1, f2, f3, h1, h2, h3
<1>10. /\ Sum(h1, n + 1) = Sum(f1, n) + h1[n + 1]
       /\ Sum(h2, n + 1) = Sum(f2, n) + h2[n + 1]
       /\ Sum(h3, n + 1) = Sum(f3, n) + h3[n + 1]
  BY <1>1, <1>6, <1>7, SumAppend
<1>11. /\ ColumnOf(p, t, Quantities)' = ColumnOf(p, t, Quantities) + h1[n + 1]
       /\ ColumnOf(p, t, Qualified)' = ColumnOf(p, t, Qualified) + h2[n + 1]
       /\ ColumnOf(p, t, Scrapped)' = ColumnOf(p, t, Scrapped) + h3[n + 1]
  BY <1>9, <1>10
<1>12. CASE p = o /\ t = s
  BY <1>8, <1>11, <1>12
<1>13. CASE ~ (p = o /\ t = s)
  BY <1>8, <1>11, <1>13
<1> QED BY <1>12, <1>13

\* The order, its steps and its receipts are as they were, or it was cancelled, closed or
\* made a draft; inspections may have gone on.
LEMMA StepsStay ==
  ASSUME DocumentsInv, DocumentsInv', NEW p \in Order, StepsInv(p), steps'[p] = steps[p],
         orders'[p].status \in Started \union Finished =>
           /\ orders[p].status \in Started \union Finished
           /\ orders'[p].quantity = orders[p].quantity
           /\ orders'[p].status \in Finished /\ orders[p].status \notin Finished => CompleteOrder(p),
         orders'[p].receipt # 0 =>
           orders'[p].receipt = orders[p].receipt /\ orders'[p].quantity = orders[p].quantity,
         \A k \in 1..Len(documents) : documents'[k] = documents[k],
         DocumentsOf(p, "receipt")' = DocumentsOf(p, "receipt"),
         \A t : /\ ColumnOf(p, t, Quantities)' = ColumnOf(p, t, Quantities)
                /\ ColumnOf(p, t, Qualified)' = ColumnOf(p, t, Qualified)
                /\ ColumnOf(p, t, Scrapped)' = ColumnOf(p, t, Scrapped),
         Len(inspections') >= Len(inspections), overlapped \subseteq overlapped',
         \A n \in 1..Len(inspections) :
           n \notin overlapped /\ inspections[n].judgement \in GoodJudgement
             => inspections'[n].judgement \in GoodJudgement
  PROVE  StepsInv(p)'
<1>1. /\ CountsReports(p) /\ Delivered(p)
      /\ \A s \in 1..Len(steps[p]) : StepInPlan(p, s) /\ StepIsDone(p, s)
  BY DEF StepsInv
<1>2. CountsReports(p)'
  BY <1>1 DEF CountsReports
<1>3. TypeOK /\ InspectionsInv /\ TypeOK' /\ InspectionsInv'
  BY DEF DocumentsInv, ProductionTyped
<1>4. Len(inspections) \in Nat /\ Len(inspections') \in Nat
  <2>1. inspections \in Seq(Inspection) /\ inspections' \in Seq(Inspection)
    BY <1>3 DEF TypeOK, InspectionsTyped
  <2> QED BY <2>1
<1>5. ASSUME NEW s \in 1..Len(steps[p]) PROVE StepInPlan(p, s)' /\ StepIsDone(p, s)'
  <2>1. StepInPlan(p, s) /\ StepIsDone(p, s)
    BY <1>1
  <2>2. StepInPlan(p, s)'
    BY <1>4, <2>1 DEF StepInPlan
  <2>3. ASSUME orders'[p].status \in Finished
        PROVE  /\ steps[p][s].reported = orders[p].quantity
               /\ steps[p][s].gate =>
                    /\ steps[p][s].inspection # 0
                    /\ steps[p][s].inspection \notin overlapped =>
                         inspections[steps[p][s].inspection].judgement \in GoodJudgement
    <3>1. CASE orders[p].status \in Finished
      BY <2>1, <3>1 DEF StepIsDone
    <3>2. CASE CompleteOrder(p)
      <4>1. /\ orders[p].status = "in_progress" /\ steps[p][s].status = "completed"
            /\ steps[p][s].gate => GatePassed(steps[p][s])
        BY <3>2 DEF CompleteOrder
      <4> QED BY <2>1, <4>1 DEF StepInPlan, GatePassed, GoodJudgement, Started
    <3> QED BY <2>3, <3>1, <3>2
  <2>4. StepIsDone(p, s)'
    <3> SUFFICES ASSUME orders'[p].status \in Finished
                 PROVE  /\ steps'[p][s].reported = orders'[p].quantity
                        /\ steps'[p][s].gate =>
                             /\ steps'[p][s].inspection # 0
                             /\ steps'[p][s].inspection \notin overlapped' =>
                                  inspections'[steps'[p][s].inspection].judgement \in GoodJudgement
      BY DEF StepIsDone
    <3>1. steps[p][s].inspection \in 0..Len(inspections)
      BY <2>1 DEF StepInPlan
    <3> QED BY <1>4, <2>3, <3>1
  <2> QED BY <2>2, <2>4
<1>6. Delivered(p)'
  <2>1. \A k \in DocumentsOf(p, "receipt") : documents'[k] = documents[k]
    BY DEF DocumentsOf
  <2>2. orders[p].receipt # 0 => orders[p].receipt \in DocumentsOf(p, "receipt")
    BY DEF DocumentsInv, KnowsDocuments
  <2> QED BY <1>1, <2>1, <2>2 DEF Delivered
<1> QED BY <1>2, <1>5, <1>6 DEF StepsInv

LEMMA QualityAtRest ==
  ASSUME InspectionsInv, UNCHANGED qualityVars
  PROVE  /\ Len(inspections') >= Len(inspections) /\ overlapped \subseteq overlapped'
         /\ \A n \in 1..Len(inspections) :
              n \notin overlapped /\ inspections[n].judgement \in GoodJudgement
                => inspections'[n].judgement \in GoodJudgement
BY JudgementStays

LEMMA HeaderCallsKeepSteps ==
  ASSUME ProductionInv, NEW o \in Order, HeaderCalls(o)
  PROVE  ProductionInv'
<1>0. DocumentsInv /\ TypeOK /\ InspectionsInv /\ HeaderIsDraft(o) /\ StockAddsUp
  BY DEF ProductionInv, DocumentsInv, ProductionTyped
<1>1. DocumentsInv'
  BY <1>0, HeaderCallsKeepDocuments
<1>2. /\ UNCHANGED <<qualityVars, steps, reports, documents, onHand>>
      /\ \A p \in Order \ {o} : orders'[p] = orders[p]
  BY <1>0, HeaderCallsTyped
<1>3. \A p : DocumentsOf(p, "receipt")' = DocumentsOf(p, "receipt")
  BY <1>2 DEF DocumentsOf
<1>4. ASSUME NEW p \in Order PROVE StepsInv(p)'
  <2>1. StepsInv(p)
    BY DEF ProductionInv
  <2>2. /\ orders'[p].status \in Started \union Finished =>
             /\ orders[p].status \in Started \union Finished
             /\ orders'[p].quantity = orders[p].quantity
             /\ orders'[p].status \in Finished /\ orders[p].status \notin Finished => CompleteOrder(p)
        /\ orders'[p].receipt # 0 =>
             orders'[p].receipt = orders[p].receipt /\ orders'[p].quantity = orders[p].quantity
    <3>1. CASE p = o
      BY <1>0, <3>1, HeaderCallsDraft
    <3>2. CASE p # o
      BY <1>2, <3>2
    <3> QED BY <3>1, <3>2
  <2>3. steps'[p] = steps[p] /\ (\A k \in 1..Len(documents) : documents'[k] = documents[k])
    BY <1>2
  <2> QED BY <1>0, <1>1, <1>2, <1>3, <2>1, <2>2, <2>3, SameReports, QualityAtRest, StepsStay
<1>5. StockAddsUp'
  BY <1>0, <1>2 DEF StockAddsUp, StockColumn
<1> QED BY <1>1, <1>4, <1>5 DEF ProductionInv

LEMMA ReleaseKeepsSteps ==
  ASSUME ProductionInv, NEW o \in Order, ReleaseOrder(o)
  PROVE  ProductionInv'
<1>0. DocumentsInv /\ TypeOK /\ InspectionsInv /\ StockAddsUp
  BY DEF ProductionInv, DocumentsInv, ProductionTyped
<1>1. DocumentsInv'
  BY <1>0, ReleaseKeepsDocuments
<1>2. /\ UNCHANGED <<qualityVars, reports, documents, onHand>>
      /\ \A p \in Order \ {o} : orders'[p] = orders[p] /\ steps'[p] = steps[p]
      /\ orders[o].status = "draft" /\ steps[o] = <<>>
      /\ orders'[o].status = "released" /\ orders'[o].quantity = orders[o].quantity
      /\ orders'[o].receipt = orders[o].receipt
      /\ \A s \in 1..Len(steps'[o]) :
           /\ steps'[o][s].status = "pending" /\ steps'[o][s].reported = 0
           /\ steps'[o][s].qualified = 0 /\ steps'[o][s].scrap = 0 /\ steps'[o][s].inspection = 0
  BY <1>0, ReleaseTyped
<1>3. \A p : DocumentsOf(p, "receipt")' = DocumentsOf(p, "receipt")
  BY <1>2 DEF DocumentsOf
<1>4. ASSUME NEW p \in Order, p # o PROVE StepsInv(p)'
  <2>1. StepsInv(p)
    BY DEF ProductionInv
  <2>2. /\ orders'[p] = orders[p] /\ steps'[p] = steps[p]
        /\ \A k \in 1..Len(documents) : documents'[k] = documents[k]
    BY <1>2, <1>4
  <2> QED BY <1>0, <1>1, <1>2, <1>3, <2>1, <2>2, SameReports, QualityAtRest, StepsStay
<1>5. StepsInv(o)'
  <2>1. /\ HeaderIsDraft(o) /\ NothingBeforeRelease(o) /\ orders[o].quantity \in Nat
        /\ Len(reports) \in Nat /\ Len(inspections') \in Nat
    BY <1>0, <1>1, ProductionTypes, InspectionsSizes DEF DocumentsInv, ProductionTyped, OrderRow
  <2>2. /\ orders[o].quantity # 0 /\ orders[o].receipt = 0
        /\ \A k \in 1..Len(documents) : documents[k].order # o
        /\ \A k \in 1..Len(reports) : reports[k].order # o
    BY <1>2, <2>1 DEF HeaderIsDraft, NothingBeforeRelease, Unreleased
  <2>3. \A t, f : ColumnOf(o, t, f) = 0
    <3> SUFFICES ASSUME NEW t, NEW f PROVE ColumnOf(o, t, f) = 0
      OBVIOUS
    <3> DEFINE g == [k \in 1..Len(reports) |-> IF reports[k].order = o /\ reports[k].step = t
                                              THEN f[k] ELSE 0]
    <3>1. g \in [1..Len(reports) -> Int] /\ \A k \in 1..Len(reports) : g[k] = 0
      BY <2>2
    <3>2. ColumnOf(o, t, f) = Sum(g, Len(reports))
      BY DEF ColumnOf
    <3> HIDE DEF g
    <3> QED BY <2>1, <3>1, <3>2, SumZero
  <2>4. CountsReports(o)'
    <3>1. \A t : /\ ColumnOf(o, t, Quantities)' = 0 /\ ColumnOf(o, t, Qualified)' = 0
                 /\ ColumnOf(o, t, Scrapped)' = 0
      BY <1>2, <2>3, SameReports
    <3> QED BY <1>2, <3>1 DEF CountsReports
  <2>5. ASSUME NEW s \in 1..Len(steps'[o]) PROVE StepInPlan(o, s)' /\ StepIsDone(o, s)'
    <3>1. StepInPlan(o, s)'
      BY <1>2, <2>1, <2>2 DEF StepInPlan
    <3>2. StepIsDone(o, s)'
      BY <1>2 DEF StepIsDone, Finished
    <3> QED BY <3>1, <3>2
  <2>6. Delivered(o)'
    BY <1>2, <1>3, <2>2 DEF Delivered, DocumentsOf
  <2> QED BY <2>4, <2>5, <2>6 DEF StepsInv
<1>6. StockAddsUp'
  BY <1>0, <1>2 DEF StockAddsUp, StockColumn
<1> QED BY <1>1, <1>4, <1>5, <1>6 DEF ProductionInv

\* A document moves what it lists.
LEMMA DocumentMovesStock ==
  ASSUME TypeOK, StockAddsUp, NEW o \in Order, NEW type \in {"issue", "receipt"}, NEW list \in List,
         Posts(o, type, list), onHand' \in List,
         \A m \in Material :
           onHand'[m] = IF type = "issue" THEN onHand[m] - list[m] ELSE onHand[m] + list[m]
  PROVE  StockAddsUp'
<1> SUFFICES ASSUME NEW m \in Material
             PROVE  onHand'[m] + Sum(StockColumn(m)', Len(documents')) = Supply[m]
  BY DEF StockAddsUp
<1> DEFINE n == Len(documents)
           f == StockColumn(m)
           h == StockColumn(m)'
<1>1. /\ n \in Nat /\ Len(documents') = n + 1
      /\ documents'[n + 1].type = type /\ documents'[n + 1].list = list
      /\ \A k \in 1..n : documents'[k] = documents[k]
  BY PostsTyped
<1>2. /\ \A k \in 1..n : documents[k].list[m] \in Nat
      /\ list[m] \in Nat /\ onHand[m] \in Nat /\ onHand'[m] \in Nat
  BY ProductionTypes DEF Document, List
<1>3. f \in [1..n -> Int]
  BY <1>2 DEF StockColumn
<1>4. h \in [1..(n + 1) -> Int] /\ (\A k \in 1..n : h[k] = f[k])
      /\ h[n + 1] = IF type = "issue" THEN list[m] ELSE - list[m]
  <2>1. h = [k \in 1..(n + 1) |-> IF documents'[k].type = "issue" THEN documents'[k].list[m]
                                 ELSE - documents'[k].list[m]]
    BY <1>1 DEF StockColumn
  <2>2. \A k \in 1..(n + 1) : documents'[k].list[m] \in Nat
    <3>1. \A k \in 1..(n + 1) : k \in 1..n \/ k = n + 1
      BY <1>1
    <3> QED BY <1>1, <1>2, <3>1
  <2>3. \A k \in 1..n : f[k] = IF documents[k].type = "issue" THEN documents[k].list[m]
                               ELSE - documents[k].list[m]
    BY DEF StockColumn
  <2> HIDE DEF f, h
  <2>4. h \in [1..(n + 1) -> Int]
    BY <2>1, <2>2
  <2>5. \A k \in 1..n : h[k] = f[k]
    BY <1>1, <2>1, <2>3
  <2>6. n + 1 \in 1..(n + 1)
    BY <1>1
  <2>7. h[n + 1] = IF type = "issue" THEN list[m] ELSE - list[m]
    BY <1>1, <2>1, <2>6
  <2> QED BY <2>4, <2>5, <2>7
<1>5. onHand[m] + Sum(f, n) = Supply[m]
  BY DEF StockAddsUp
<1> HIDE DEF f, h
<1>6. Sum(h, n + 1) = Sum(f, n) + h[n + 1] /\ Sum(f, n) \in Int
  BY <1>1, <1>3, <1>4, SumAppend, SumType
<1>7. onHand'[m] + Sum(h, n + 1) = Supply[m]
  BY <1>2, <1>4, <1>5, <1>6
<1> QED BY <1>1, <1>7 DEF h

LEMMA IssueKeepsSteps ==
  ASSUME ProductionInv, NEW o \in Order, IssueMaterials(o)
  PROVE  ProductionInv'
<1>0. DocumentsInv /\ TypeOK /\ InspectionsInv /\ StockAddsUp
  BY DEF ProductionInv, DocumentsInv, ProductionTyped
<1>1. DocumentsInv'
  BY <1>0, IssueKeepsDocuments
<1>2. TypeOK' /\ UNCHANGED <<qualityVars, steps, reports>>
  BY <1>0, IssueTyped
<1>3. PICK list \in List :
              /\ Posts(o, "issue", list)
              /\ \A m \in Material : onHand'[m] = onHand[m] - list[m]
  BY <1>0, IssueTyped
<1> DEFINE n == Len(documents) + 1
<1>4. /\ Len(documents) \in Nat /\ Len(documents') = n
      /\ documents'[n].order = o /\ documents'[n].type = "issue"
      /\ \A k \in 1..Len(documents) : documents'[k] = documents[k]
      /\ \A p \in Order \ {o} : orders'[p] = orders[p]
      /\ orders'[o].status = orders[o].status /\ orders'[o].quantity = orders[o].quantity
      /\ orders'[o].receipt = orders[o].receipt
  BY <1>0, <1>3, PostsTyped
<1>5. \A p : DocumentsOf(p, "receipt")' = DocumentsOf(p, "receipt")
  BY <1>4 DEF DocumentsOf
<1>6. ASSUME NEW p \in Order PROVE StepsInv(p)'
  <2>1. StepsInv(p)
    BY DEF ProductionInv
  <2>2. /\ orders'[p].status = orders[p].status /\ orders'[p].quantity = orders[p].quantity
        /\ orders'[p].receipt = orders[p].receipt /\ steps'[p] = steps[p]
    BY <1>2, <1>4
  <2> QED BY <1>0, <1>1, <1>2, <1>4, <1>5, <2>1, <2>2, SameReports, QualityAtRest, StepsStay
<1>7. StockAddsUp'
  <2>1. onHand' \in List
    BY <1>2 DEF TypeOK
  <2> QED BY <1>0, <1>3, <2>1, DocumentMovesStock
<1> QED BY <1>1, <1>6, <1>7 DEF ProductionInv

LEMMA ReceiptKeepsSteps ==
  ASSUME ProductionInv, NEW o \in Order, ReceiptFinishedGoods(o)
  PROVE  ProductionInv'
<1>0. DocumentsInv /\ TypeOK /\ InspectionsInv /\ StockAddsUp
  BY DEF ProductionInv, DocumentsInv, ProductionTyped
<1>1. DocumentsInv' /\ steps[o] # <<>> /\ DocumentsOf(o, "receipt") = {}
  BY <1>0, ReceiptKeepsDocuments
<1>2. /\ TypeOK' /\ UNCHANGED <<qualityVars, steps, reports>> /\ orders[o].status = "completed"
      /\ Output(o) \in Nat
  BY <1>0, <1>1, ReceiptTyped
<1>3. PICK list \in List :
              /\ Posts(o, "receipt", list)
              /\ list[Product] = Output(o)
              /\ \A m \in Material : onHand'[m] = onHand[m] + list[m]
  BY <1>0, <1>1, ReceiptTyped
<1> DEFINE n == Len(documents) + 1
<1>4. /\ Len(documents) \in Nat /\ Len(documents') = n
      /\ documents'[n].order = o /\ documents'[n].type = "receipt" /\ documents'[n].list = list
      /\ \A k \in 1..Len(documents) : documents'[k] = documents[k]
      /\ \A p \in Order \ {o} : orders'[p] = orders[p]
      /\ orders'[o].status = orders[o].status /\ orders'[o].quantity = orders[o].quantity
      /\ orders'[o].receipt = n
  BY <1>0, <1>3, PostsTyped
<1>5. /\ \A p \in Order \ {o} : DocumentsOf(p, "receipt")' = DocumentsOf(p, "receipt")
      /\ DocumentsOf(o, "receipt")' = {n}
  <2>1. \A p : DocumentsOf(p, "receipt")' =
                 DocumentsOf(p, "receipt") \union (IF p = o THEN {n} ELSE {})
    BY <1>4 DEF DocumentsOf
  <2> QED BY <1>1, <2>1
<1>6. ASSUME NEW p \in Order, p # o PROVE StepsInv(p)'
  <2>1. StepsInv(p)
    BY DEF ProductionInv
  <2>2. orders'[p] = orders[p] /\ steps'[p] = steps[p]
    BY <1>2, <1>4, <1>6
  <2> QED BY <1>0, <1>1, <1>2, <1>4, <1>5, <1>6, <2>1, <2>2, SameReports, QualityAtRest, StepsStay
<1>7. StepsInv(o)'
  <2>1. /\ CountsReports(o) /\ \A s \in 1..Len(steps[o]) : StepInPlan(o, s) /\ StepIsDone(o, s)
    BY DEF ProductionInv, StepsInv
  <2>2. CountsReports(o)'
    BY <1>2, <2>1, SameReports DEF CountsReports
  <2>3. inspections' = inspections /\ overlapped' = overlapped
    BY <1>2 DEF qualityVars
  <2>4. ASSUME NEW s \in 1..Len(steps[o]) PROVE StepInPlan(o, s)' /\ StepIsDone(o, s)'
    <3>1. StepInPlan(o, s) /\ StepIsDone(o, s) /\ steps' = steps
      BY <1>2, <2>1
    <3> QED BY <1>4, <2>3, <3>1 DEF StepInPlan, StepIsDone
  <2>5. Output(o) <= orders[o].quantity
    <3> DEFINE s == Len(steps[o])
    <3>1. s \in 1..s /\ steps[o][s] \in Step
      BY <1>0, <1>1, ProductionTypes, EmptySeq
    <3>2. orders[o].quantity \in Nat
      BY <1>0, ProductionTypes DEF OrderRow
    <3>3. StepInPlan(o, s)
      BY <2>1, <3>1
    <3>4. /\ steps[o][s].qualified <= steps[o][s].reported
          /\ steps[o][s].reported <= orders[o].quantity
      BY <1>2, <3>3 DEF StepInPlan, Finished
    <3>5. steps[o][s].qualified \in Nat /\ steps[o][s].reported \in Nat
      BY <3>1 DEF Step
    <3> HIDE DEF s
    <3>6. steps[o][s].qualified <= orders[o].quantity
      BY <3>2, <3>4, <3>5
    <3> QED BY <3>6 DEF Output, s
  <2>6. Delivered(o)'
    BY <1>2, <1>3, <1>4, <1>5, <2>5 DEF Delivered, Output
  <2> QED BY <1>2, <2>2, <2>4, <2>6 DEF StepsInv
<1>8. StockAddsUp'
  <2>1. onHand' \in List
    BY <1>2 DEF TypeOK
  <2> QED BY <1>0, <1>3, <2>1, DocumentMovesStock
<1> QED BY <1>1, <1>6, <1>7, <1>8 DEF ProductionInv

LEMMA ReportKeepsSteps ==
  ASSUME ProductionInv, NEW o \in Order, NEW s \in 1..Len(steps[o]), ReportProduction(o, s)
  PROVE  ProductionInv'
<1>0. DocumentsInv /\ TypeOK /\ InspectionsInv /\ StockAddsUp /\ ProductionTyped
  BY DEF ProductionInv, DocumentsInv, ProductionTyped
<1>1. DocumentsInv'
  BY <1>0, ReportKeepsDocuments
<1>2. /\ TypeOK' /\ UNCHANGED <<overlapped, documents, onHand>>
      /\ Len(inspections) \in Nat /\ Len(inspections') >= Len(inspections)
      /\ \A k \in 1..Len(inspections) : inspections'[k] = inspections[k]
      /\ orders[o].status \in Started
      /\ \A p \in Order \ {o} : orders'[p] = orders[p] /\ steps'[p] = steps[p]
      /\ orders'[o].status = "in_progress" /\ orders'[o].quantity = orders[o].quantity
      /\ orders'[o].receipt = orders[o].receipt
      /\ Len(steps'[o]) = Len(steps[o])
      /\ \A t \in 1..Len(steps[o]) \ {s} : steps'[o][t] = steps[o][t]
  BY <1>0, ReportTyped
<1> DEFINE step == steps[o][s]
           now == steps'[o][s]
           n == Len(reports) + 1
<1>3. PICK r \in Outcome :
              /\ step.reported + r.quantity <= orders[o].quantity
              /\ Len(reports) \in Nat /\ Len(reports') = n
              /\ \A k \in 1..Len(reports) : reports'[k] = reports[k]
              /\ reports'[n].order = o /\ reports'[n].step = s /\ reports'[n].outcome = r
              /\ now.reported = step.reported + r.quantity
              /\ now.qualified = step.qualified + r.qualified
              /\ now.scrap = step.scrap + r.scrap
              /\ now.status = IF step.reported + r.quantity >= orders[o].quantity
                              THEN "completed" ELSE "in_progress"
              /\ now.inspection \in Nat
              /\ now.inspection # step.inspection => now.inspection \in 1..Len(inspections')
  BY <1>0, ReportTyped
<1>4. \A p : DocumentsOf(p, "receipt")' = DocumentsOf(p, "receipt")
  BY <1>2 DEF DocumentsOf
<1>5. \A p, t : LET here == p = o /\ t = s IN
         /\ ColumnOf(p, t, Quantities)' = ColumnOf(p, t, Quantities) + IF here THEN r.quantity ELSE 0
         /\ ColumnOf(p, t, Qualified)' = ColumnOf(p, t, Qualified) + IF here THEN r.qualified ELSE 0
         /\ ColumnOf(p, t, Scrapped)' = ColumnOf(p, t, Scrapped) + IF here THEN r.scrap ELSE 0
  BY <1>0, <1>2, <1>3, ReportCounted
<1>t. \A p \in Order : \A t : t \in 1..Len(steps[p]) =>
        /\ steps[p][t] \in Step
        /\ ColumnOf(p, t, Quantities) = steps[p][t].reported
        /\ ColumnOf(p, t, Qualified) = steps[p][t].qualified
        /\ ColumnOf(p, t, Scrapped) = steps[p][t].scrap
  BY <1>0, ProductionTypes DEF ProductionInv, StepsInv, CountsReports
<1>6. ASSUME NEW p \in Order, p # o PROVE StepsInv(p)'
  <2>1. StepsInv(p) /\ orders'[p] = orders[p] /\ steps'[p] = steps[p]
    BY <1>2, <1>6 DEF ProductionInv
  <2>2. CountsReports(p)'
    <3> SUFFICES ASSUME NEW t \in 1..Len(steps[p])
                 PROVE  /\ steps[p][t].reported = ColumnOf(p, t, Quantities)'
                        /\ steps[p][t].qualified = ColumnOf(p, t, Qualified)'
                        /\ steps[p][t].scrap = ColumnOf(p, t, Scrapped)'
      BY <2>1 DEF CountsReports
    <3>1. /\ ColumnOf(p, t, Quantities)' = ColumnOf(p, t, Quantities) + 0
          /\ ColumnOf(p, t, Qualified)' = ColumnOf(p, t, Qualified) + 0
          /\ ColumnOf(p, t, Scrapped)' = ColumnOf(p, t, Scrapped) + 0
      BY <1>5, <1>6
    <3> QED BY <1>t, <3>1 DEF Step
  <2>3. \A t \in 1..Len(steps[p]) : StepInPlan(p, t)' /\ StepIsDone(p, t)'
    <3> SUFFICES ASSUME NEW t \in 1..Len(steps[p]) PROVE StepInPlan(p, t)' /\ StepIsDone(p, t)'
      OBVIOUS
    <3>1. StepInPlan(p, t) /\ StepIsDone(p, t) /\ Len(inspections') \in Nat
      BY <1>1, <2>1, InspectionsSizes DEF StepsInv, DocumentsInv, ProductionTyped
    <3>2. steps[p][t].inspection \in 0..Len(inspections)
      BY <3>1 DEF StepInPlan
    <3>3. StepInPlan(p, t)'
      BY <1>2, <2>1, <3>1 DEF StepInPlan
    <3>4. StepIsDone(p, t)'
      BY <1>2, <2>1, <3>1, <3>2 DEF StepIsDone
    <3> QED BY <3>3, <3>4
  <2>4. Delivered(p)'
    BY <1>2, <1>4, <2>1 DEF Delivered, StepsInv
  <2> QED BY <2>1, <2>2, <2>3, <2>4 DEF StepsInv
<1>7. StepsInv(o)'
  <2>1. StepsInv(o)
    BY DEF ProductionInv
  <2>2. CountsReports(o)'
    <3> SUFFICES ASSUME NEW t \in 1..Len(steps[o])
                 PROVE  /\ steps'[o][t].reported = ColumnOf(o, t, Quantities)'
                        /\ steps'[o][t].qualified = ColumnOf(o, t, Qualified)'
                        /\ steps'[o][t].scrap = ColumnOf(o, t, Scrapped)'
      BY <1>2 DEF CountsReports
    <3>1. CASE t = s
      BY <1>3, <1>5, <1>t, <3>1
    <3>2. CASE t # s
      <4>1. /\ ColumnOf(o, t, Quantities)' = ColumnOf(o, t, Quantities) + 0
            /\ ColumnOf(o, t, Qualified)' = ColumnOf(o, t, Qualified) + 0
            /\ ColumnOf(o, t, Scrapped)' = ColumnOf(o, t, Scrapped) + 0
        BY <1>5, <3>2
      <4>2. steps'[o][t] = steps[o][t]
        BY <1>2, <3>2
      <4> QED BY <1>t, <4>1, <4>2 DEF Step
    <3> QED BY <3>1, <3>2
  <2>3. ASSUME NEW t \in 1..Len(steps[o]) PROVE StepInPlan(o, t)' /\ StepIsDone(o, t)'
    <3>1. StepInPlan(o, t) /\ steps[o][t] \in Step /\ orders[o].quantity \in Nat
          /\ Len(inspections') \in Nat
      BY <1>0, <1>1, <1>t, <2>1, ProductionTypes, InspectionsSizes
      DEF StepsInv, OrderRow, DocumentsInv, ProductionTyped
    <3>2. StepIsDone(o, t)'
      BY <1>2 DEF StepIsDone, Finished
    <3>3. CASE t # s
      <4>1. steps'[o][t] = steps[o][t]
        BY <1>2, <3>3
      <4>2. StepInPlan(o, t)'
        BY <1>2, <3>1, <4>1 DEF StepInPlan
      <4> QED BY <3>2, <4>2
    <3>4. CASE t = s
      <4>1. /\ step.reported \in Nat /\ step.qualified \in Nat /\ step.inspection \in 0..Len(inspections)
            /\ step.qualified <= step.reported
        BY <3>1, <3>4 DEF StepInPlan, Step
      <4>2. r.quantity \in Nat /\ r.qualified \in Nat /\ r.qualified <= r.quantity
        BY OutcomeType
      <4>3. /\ now.qualified <= now.reported /\ now.reported <= orders[o].quantity
            /\ now.status = "completed" <=> now.reported = orders[o].quantity
        <5>1. /\ now.reported = step.reported + r.quantity
              /\ now.qualified = step.qualified + r.qualified
              /\ step.reported + r.quantity <= orders[o].quantity
              /\ now.status = "completed" <=> step.reported + r.quantity >= orders[o].quantity
          BY <1>3
        <5>2. \A a, b, c, d, q \in Nat :
                a + b <= q /\ c <= a /\ d <= b => c + d <= a + b /\ (a + b = q <=> a + b >= q)
          OBVIOUS
        <5>3. /\ step.reported \in Nat /\ step.qualified \in Nat /\ orders[o].quantity \in Nat
              /\ r.quantity \in Nat /\ r.qualified \in Nat
          BY <3>1, <4>1, <4>2
        <5> HIDE DEF now, step
        <5>4. /\ step.qualified + r.qualified <= step.reported + r.quantity
              /\ step.reported + r.quantity = orders[o].quantity
                   <=> step.reported + r.quantity >= orders[o].quantity
          <6>1. /\ step.reported + r.quantity <= orders[o].quantity
                /\ step.qualified <= step.reported /\ r.qualified <= r.quantity
            BY <4>1, <4>2, <5>1
          <6> QED BY <5>2, <5>3, <6>1
        <5> QED BY <5>1, <5>4
      <4>4. now.inspection \in 0..Len(inspections')
        <5>1. /\ now.inspection \in Nat
              /\ now.inspection # step.inspection => now.inspection \in 1..Len(inspections')
          BY <1>3
        <5>2. /\ Len(inspections) \in Nat /\ Len(inspections') >= Len(inspections)
              /\ Len(inspections') \in Nat /\ step.inspection \in 0..Len(inspections)
          BY <1>2, <3>1, <4>1
        <5> HIDE DEF now, step
        <5> QED BY <5>1, <5>2
      <4>5. StepInPlan(o, s)'
        BY <1>2, <4>3, <4>4 DEF StepInPlan
      <4> QED BY <3>2, <3>4, <4>5
    <3> QED BY <3>3, <3>4
  <2>4. Delivered(o)'
    <3>1. /\ KnowsDocuments(o)
      BY <1>0 DEF DocumentsInv
    <3>2. DocumentsOf(o, "receipt") = {} /\ orders[o].receipt = 0
      BY <1>2, <3>1 DEF KnowsDocuments
    <3> QED BY <1>2, <1>4, <3>2 DEF Delivered
  <2> QED BY <1>2, <2>2, <2>3, <2>4 DEF StepsInv
<1>8. StockAddsUp'
  BY <1>0, <1>2 DEF StockAddsUp, StockColumn
<1> QED BY <1>1, <1>6, <1>7, <1>8 DEF ProductionInv

LEMMA QualityKeepsSteps ==
  ASSUME ProductionInv, [InspectionsNext]_qualityVars, UNCHANGED ordersVars
  PROVE  ProductionInv'
<1>0. DocumentsInv /\ InspectionsInv /\ StockAddsUp
  BY DEF ProductionInv, DocumentsInv, ProductionTyped
<1>1. DocumentsInv'
  BY <1>0, QualityKeepsDocuments
<1>2. UNCHANGED <<orders, steps, reports, documents, onHand>>
  BY DEF ordersVars
<1>3. \A p : DocumentsOf(p, "receipt")' = DocumentsOf(p, "receipt")
  BY <1>2 DEF DocumentsOf
<1>4. ASSUME NEW p \in Order PROVE StepsInv(p)'
  <2>1. StepsInv(p) /\ orders'[p] = orders[p] /\ steps'[p] = steps[p]
        /\ \A k \in 1..Len(documents) : documents'[k] = documents[k]
    BY <1>2 DEF ProductionInv
  <2>2. \A t : /\ ColumnOf(p, t, Quantities)' = ColumnOf(p, t, Quantities)
               /\ ColumnOf(p, t, Qualified)' = ColumnOf(p, t, Qualified)
               /\ ColumnOf(p, t, Scrapped)' = ColumnOf(p, t, Scrapped)
    BY <1>2, SameReports
  <2>3. /\ Len(inspections') >= Len(inspections) /\ overlapped \subseteq overlapped'
        /\ \A n \in 1..Len(inspections) :
             n \notin overlapped /\ inspections[n].judgement \in GoodJudgement
               => inspections'[n].judgement \in GoodJudgement
    BY <1>0, JudgementStays
  <2> QED BY <1>0, <1>1, <1>3, <2>1, <2>2, <2>3, StepsStay
<1>5. StockAddsUp'
  BY <1>0, <1>2 DEF StockAddsUp, StockColumn
<1> QED BY <1>1, <1>4, <1>5 DEF ProductionInv

LEMMA ProductionInitHolds == ASSUME Init PROVE ProductionInv
<1>1. DocumentsInv
  BY DocumentsInitHolds
<1>2. /\ steps = [o \in Order |-> <<>>] /\ documents = <<>> /\ onHand = Supply /\ Supply \in List
      /\ \A o \in Order : orders[o].receipt = 0
  BY ProductionInputs DEF Init, Absent
<1>3. ASSUME NEW o \in Order PROVE StepsInv(o)
  BY <1>2 DEF StepsInv, CountsReports, Delivered, DocumentsOf
<1>4. ASSUME NEW m \in Material PROVE onHand[m] + Sum(StockColumn(m), Len(documents)) = Supply[m]
  <2>1. Len(documents) = 0 /\ Supply[m] \in Nat
    BY <1>2 DEF List
  <2>2. StockColumn(m) \in [1..0 -> Int] /\ \A k \in 1..0 : StockColumn(m)[k] = 0
    BY <2>1 DEF StockColumn
  <2>3. Sum(StockColumn(m), 0) = 0
    BY <2>2, SumZero
  <2> QED BY <1>2, <2>1, <2>3
<1> QED BY <1>1, <1>3, <1>4 DEF ProductionInv, StockAddsUp

LEMMA NextKeepsSteps == ASSUME ProductionInv, [Next]_vars PROVE ProductionInv'
<1>1. ASSUME NEW o \in Order, OrderCalls(o) PROVE ProductionInv'
  <2>1. ASSUME NEW s \in 1..Len(steps[o]), ReportProduction(o, s) PROVE ProductionInv'
    BY <2>1, ReportKeepsSteps
  <2> QED BY <1>1, <2>1, HeaderCallsKeepSteps, ReleaseKeepsSteps, IssueKeepsSteps,
             ReceiptKeepsSteps DEF OrderCalls, HeaderCalls
<1>2. CASE InspectionsNext /\ UNCHANGED ordersVars
  BY <1>2, QualityKeepsSteps
<1>3. CASE UNCHANGED vars
  <2>1. UNCHANGED qualityVars /\ UNCHANGED ordersVars
    BY <1>3 DEF vars, qualityVars, ordersVars
  <2> QED BY <2>1, QualityKeepsSteps
<1> QED BY <1>1, <1>2, <1>3 DEF Next

\* However calls on orders, their header forms and the inspections of their gates interleave:
\* the inductive invariant of the production orders holds throughout (mes/services.py).
THEOREM ProductionKept == Spec => []ProductionInv
  BY ProductionInitHolds, NextKeepsSteps, PTL DEF Spec

\* However many orders and reports: what an order delivered is what its last step qualified and
\* not more than it planned, and stock is what the documents say (receipt_finished_goods).
THEOREM DeliveriesAreMade == Spec => []DeliveredWhatWasMade
<1>1. ASSUME ProductionInv PROVE DeliveredWhatWasMade
  <2>1. \A o \in Order : Delivered(o)
    BY <1>1 DEF ProductionInv, StepsInv
  <2>2. StockAddsUp
    BY <1>1 DEF ProductionInv
  <2> QED BY <2>1, <2>2 DEF DeliveredWhatWasMade, Delivered, StockAddsUp, StockColumn
<1> QED BY <1>1, ProductionKept, PTL

\* However many orders and reports: steps show what was reported on them, within the plan,
\* and are completed when it is reached (report_production).
THEOREM StepsAreReported == Spec => []StepsFollowReports
<1>1. ASSUME ProductionInv PROVE StepsFollowReports
  <2>1. \A o \in Order : CountsReports(o) /\ \A s \in 1..Len(steps[o]) : StepInPlan(o, s)
    BY <1>1 DEF ProductionInv, StepsInv
  <2> QED BY <2>1 DEF StepsFollowReports, CountsReports, StepInPlan, ColumnOf, Quantities,
               Qualified, Scrapped
<1> QED BY <1>1, ProductionKept, PTL

\* However calls on gates go on: a finished order made all it planned in every step, and a
\* gate no two calls of which overlapped is still passed, on results that say so
\* (complete_order).
THEOREM GatesArePassed == Spec => []FinishedOrdersPassedTheirGates
<1>1. ASSUME ProductionInv PROVE FinishedOrdersPassedTheirGates
  <2> SUFFICES ASSUME NEW o \in Order, orders[o].status \in Finished, NEW s \in 1..Len(steps[o])
               PROVE  /\ steps[o][s].reported = orders[o].quantity
                      /\ steps[o][s].gate =>
                           LET n == steps[o][s].inspection IN
                           /\ n # 0
                           /\ n \notin overlapped =>
                                /\ GatePassed(steps[o][s])
                                /\ inspections[n].judgement = "passed" => Failing(n) = {}
    BY DEF FinishedOrdersPassedTheirGates
  <2>1. StepIsDone(o, s) /\ StepInPlan(o, s) /\ InspectionsInv
    BY <1>1 DEF ProductionInv, StepsInv, DocumentsInv, ProductionTyped
  <2>2. Len(inspections) \in Nat
    BY <2>1, InspectionsSizes
  <2>3. steps[o][s].inspection # 0 /\ steps[o][s].inspection \notin overlapped
          => Agrees(steps[o][s].inspection)
    BY <2>1, <2>2 DEF StepInPlan, InspectionsInv
  <2> QED BY <2>1, <2>3 DEF StepIsDone, GatePassed, GoodJudgement, Agrees
<1> QED BY <1>1, ProductionKept, PTL

=============================================================================
