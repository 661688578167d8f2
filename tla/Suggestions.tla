----------------------------- MODULE Suggestions -----------------------------
(***************************************************************************)
(* What becomes of the suggestions of planning runs (apps/planning/mrp.py, *)
(* from run_mrp on): planners convert them to draft requisitions and       *)
(* production orders or cancel them, and archive runs, while new runs      *)
(* replace older ones.                                                     *)
(*                                                                         *)
(* A conversion is two steps: it locks the suggestion and the run it is    *)
(* joined with and looks, without a lock, for newer runs; then it writes   *)
(* the document, the link and the suggestion.  The other calls lock the    *)
(* row they change and are one step; a run is seen with its commit.        *)
(*                                                                         *)
(* Abstracted: quantities and dates (Netting), materials that were put out *)
(* of use, and one company.                                                *)
(***************************************************************************)
EXTENDS Integers, Sequences, FiniteSets

CONSTANTS
  Planner,
  Results,     \* the suggestions a run may end with: the type of each
  MaxRuns      \* bounds a behaviour

Types == {"purchase", "production", "production_without_style"}

ASSUME SuggestionInputs == Results \subseteq Seq(Types) /\ MaxRuns \in Nat

VARIABLES
  runs,          \* status of each MrpRun, in the order of their ids
  suggestions,   \* MrpSuggestion rows, in the order of their ids
  links,         \* DocumentLink rows: the suggestion each document was made from,
                 \* and how many runs there were when the conversion looked
  converting     \* the suggestion that each planner's transaction holds, if any

suggestionVars == <<runs, suggestions, links, converting>>

Suggestion == [run : Nat, type : Types, status : {"open", "converted", "cancelled"}]
Conversion == [suggestion : Nat, of : Nat]
NoConversion == [suggestion |-> 0, of |-> 0]

SuggestionsTypeOK ==
  /\ runs \in Seq({"completed", "failed", "archived"})
  /\ suggestions \in Seq(Suggestion)
  /\ \A s \in 1..Len(suggestions) : suggestions[s].run \in 1..Len(runs)
  /\ links \in Seq(Conversion)
  /\ converting \in [Planner -> Conversion]

SuggestionsInit ==
  /\ runs = <<>> /\ suggestions = <<>> /\ links = <<>>
  /\ converting = [p \in Planner |-> NoConversion]

-----------------------------------------------------------------------------
\* The joined rows are locked too: of a run, one suggestion at a time.
SuggestionFree(s) == \A p \in Planner : converting[p].suggestion # s
RunFree(r) ==
  \A p \in Planner :
    converting[p] # NoConversion => suggestions[converting[p].suggestion].run # r

RunMrp(result) ==
  /\ Len(runs) < MaxRuns
  /\ runs' = Append(runs, "completed")
  /\ suggestions' = suggestions \o
       [k \in 1..Len(result) |-> [run |-> Len(runs) + 1, type |-> result[k], status |-> "open"]]
  /\ UNCHANGED <<links, converting>>

\* A run that is refused leaves a record (_record_failure).
FailMrp ==
  /\ Len(runs) < MaxRuns
  /\ runs' = Append(runs, "failed")
  /\ UNCHANGED <<suggestions, links, converting>>

ArchiveRun(r) ==
  /\ runs[r] # "archived" /\ RunFree(r)
  /\ runs' = [runs EXCEPT ![r] = "archived"]
  /\ UNCHANGED <<suggestions, links, converting>>

CancelSuggestion(s) ==
  /\ suggestions[s].status = "open" /\ SuggestionFree(s)
  /\ suggestions' = [suggestions EXCEPT ![s].status = "cancelled"]
  /\ UNCHANGED <<runs, links, converting>>

Superseded(r) == \E n \in (r + 1)..Len(runs) : runs[n] = "completed"

\* Bug: the suggestion is read without a lock.
LookUnlocked(p, s) ==
  /\ converting[p] = NoConversion
  /\ suggestions[s].status = "open"
  /\ runs[suggestions[s].run] = "completed" /\ ~ Superseded(suggestions[s].run)
  /\ suggestions[s].type # "production_without_style"
  /\ converting' = [converting EXCEPT ![p] = [suggestion |-> s, of |-> Len(runs)]]
  /\ UNCHANGED <<runs, suggestions, links>>

LookAtSuggestion(p, s) ==
  /\ converting[p] = NoConversion
  /\ SuggestionFree(s) /\ RunFree(suggestions[s].run)
  /\ suggestions[s].status = "open"
  /\ runs[suggestions[s].run] = "completed" /\ ~ Superseded(suggestions[s].run)
  /\ suggestions[s].type # "production_without_style"
  /\ converting' = [converting EXCEPT ![p] = [suggestion |-> s, of |-> Len(runs)]]
  /\ UNCHANGED <<runs, suggestions, links>>

\* The document, the link and the suggestion.
ConvertSuggestion(p) ==
  /\ converting[p] # NoConversion
  /\ links' = Append(links, converting[p])
  /\ suggestions' = [suggestions EXCEPT ![converting[p].suggestion].status = "converted"]
  /\ converting' = [converting EXCEPT ![p] = NoConversion]
  /\ UNCHANGED runs

RollBackConversion(p) ==
  /\ converting[p] # NoConversion
  /\ converting' = [converting EXCEPT ![p] = NoConversion]
  /\ UNCHANGED <<runs, suggestions, links>>

SuggestionsNext ==
  \/ \E result \in Results : RunMrp(result)
  \/ FailMrp
  \/ \E r \in 1..Len(runs) : ArchiveRun(r)
  \/ \E s \in 1..Len(suggestions) : CancelSuggestion(s)
  \/ \E p \in Planner :
       \/ \E s \in 1..Len(suggestions) : LookAtSuggestion(p, s)
       \/ ConvertSuggestion(p) \/ RollBackConversion(p)

SuggestionsSpec == SuggestionsInit /\ [][SuggestionsNext]_suggestionVars

-----------------------------------------------------------------------------
(* Properties.                                                             *)

\* A suggestion says converted when one document was made from it, and none was
\* made from one that is open or was cancelled, whoever converts, cancels and
\* archives at the same time.
OneDocumentPerSuggestion ==
  \A s \in 1..Len(suggestions) :
    Cardinality({d \in 1..Len(links) : links[d].suggestion = s})
      = IF suggestions[s].status = "converted" THEN 1 ELSE 0

\* A document was made from the newest run: what had been completed after it when
\* the conversion looked had been archived.  (A run that completes between the look
\* and the commit does not stop the conversion.)
MadeFromTheNewestRun ==
  \A d \in 1..Len(links) :
    \A n \in (suggestions[links[d].suggestion].run + 1)..links[d].of : runs[n] # "completed"

\* Documents follow suggestions: one of each, of those that were the newest.
DocumentsFollowSuggestions == OneDocumentPerSuggestion /\ MadeFromTheNewestRun
=============================================================================
