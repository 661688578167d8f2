------------------------------- MODULE Versions -------------------------------
(***************************************************************************)
(* Versions of BOMs and routings (apps/planning/services.py): how they are *)
(* made and numbered, changed, put in force and taken out of use, and      *)
(* which of them planning and production are given.                        *)
(*                                                                         *)
(* A creation reads the last version number of its scope long before it    *)
(* commits, so it is split; every other call locks the row it judges and   *)
(* is one step.  BOMs and routings do not meet: a behaviour is about one   *)
(* kind.  The steps of an approval are those of module Approval; here it   *)
(* ends in one step.  Versions are numbered in the order of their commits. *)
(***************************************************************************)
EXTENDS Numbers

CONSTANTS
  GivenLines,   \* lists of lines that callers send, valid or not
  TypedCodes,   \* codes that callers type
  NoCode,       \* the code of a request that leaves it to the rule
  MaxVersions   \* bound on the rows

\* Line n of a list is a normal line, or a substitute for line "of" of the same list.
Line == [material : Nat, substitute : BOOLEAN, of : Nat]

ASSUME VersionInputs ==
  /\ \A lines \in GivenLines : lines \in Seq(Line)
  /\ MaxVersions \in Nat /\ TypedCodes \subseteq Code /\ NoCode \notin Code

VARIABLES
  kind,       \* what the behaviour is about: BOMs or routings
  versions,   \* the rows, in the order of their commits
  creating,   \* the creation each request is at
  approved    \* the version of each scope whose approval is the latest, 0 for none

versionVars == <<kind, versions, creating, approved>>

\* engineering_scope_key: a style, or one SKU of it.
ScopeKey == {"style", "sku"}
VersionStatus == {"draft", "submitted", "approved", "rejected", "obsolete"}
Version == [scope : ScopeKey, no : Nat \ {0}, code : Code, typed : BOOLEAN,
            status : VersionStatus, is_active : BOOLEAN, lines : Seq(Line)]
\* The code is known from the start when it was typed.
Creation == [stage : {"idle", "begun", "coded", "numbered"}, scope : ScopeKey,
             lines : Seq(Line), source : Nat, typed : BOOLEAN,
             code : Code \union {NoCode}, key : {0} \union Day, no : Nat]

NotCreating == [stage |-> "idle", scope |-> "style", lines |-> <<>>, source |-> 0,
                typed |-> FALSE, code |-> NoCode, key |-> 0, no |-> 0]

VersionsTypeOK ==
  /\ NumbersTypeOK
  /\ kind \in {"bom", "routing"} /\ versions \in Seq(Version)
  /\ creating \in [Caller -> Creation]
  /\ approved \in [ScopeKey -> 0..Len(versions)]

VersionsInit ==
  /\ NumbersInit
  /\ kind \in {"bom", "routing"} /\ versions = <<>>
  /\ creating = [c \in Caller |-> NotCreating]
  /\ approved = [s \in ScopeKey |-> 0]

\* A derivation holds the row it derives from; the rows that are read to find the next
\* number are locked too, which makes others wait and changes nothing else.
RowFree(v) == \A c \in Caller : creating[c].source # v

ScopeRows(s) == {v \in 1..Len(versions) : versions[v].scope = s}

-----------------------------------------------------------------------------
(* Lines.                                                                  *)

\* Lines that are stored one by one and then linked: a material is on one normal line,
\* and a substitute stands for a normal line of another material.
BomLinesValid(lines) ==
  /\ \A i, j \in 1..Len(lines) :
       ~ lines[i].substitute /\ ~ lines[j].substitute /\ lines[i].material = lines[j].material
         => i = j
  /\ \A i \in 1..Len(lines) : lines[i].of # 0 =>
       /\ lines[i].substitute /\ lines[i].of \in 1..Len(lines)
       /\ ~ lines[lines[i].of].substitute
       /\ lines[lines[i].of].material # lines[i].material

\* A routing's step is told by its sequence.
RoutingStepsValid(steps) ==
  \A i, j \in 1..Len(steps) : steps[i].material = steps[j].material => i = j

\* A routing without steps gets the five usual ones, of which one stands for all.
DefaultSteps == <<[material |-> 1, substitute |-> FALSE, of |-> 0]>>

LinesValid(lines) == IF kind = "bom" THEN BomLinesValid(lines) ELSE RoutingStepsValid(lines)

\* A line that another one stands for is protected: the lines of a BOM with a linked
\* substitute cannot be deleted, and so not be replaced.
LinesReplaceable(v) == \A i \in 1..Len(versions[v].lines) : versions[v].lines[i].of = 0

-----------------------------------------------------------------------------
(* Creations.                                                              *)

Begin(c, scope, lines, source, code) ==
  /\ creating[c] = NotCreating /\ Len(versions) < MaxVersions
  /\ creating' = [creating EXCEPT ![c] =
       [NotCreating EXCEPT !.stage = IF code = NoCode THEN "begun" ELSE "coded",
          !.scope = scope, !.lines = lines, !.source = source,
          !.typed = code # NoCode, !.code = code]]
  /\ UNCHANGED <<numberVars, kind, versions, approved>>

\* An empty list is refused.
CreateBom(c) ==
  /\ kind = "bom"
  /\ \E scope \in ScopeKey, lines \in GivenLines \ {<<>>}, code \in TypedCodes \union {NoCode} :
       Begin(c, scope, lines, 0, code)

\* Here too, but steps may be left out.
CreateRouting(c) ==
  /\ kind = "routing"
  /\ \E scope \in ScopeKey, steps \in (GivenLines \ {<<>>}) \union {DefaultSteps},
        code \in TypedCodes \union {NoCode} : Begin(c, scope, steps, 0, code)

\* A version that waits for its approval is no source; the source stays locked.
Derive(c, v) ==
  /\ RowFree(v)
  /\ versions[v].status # "submitted"
  /\ Begin(c, versions[v].scope, versions[v].lines, v, NoCode)

CreateBomVersion(c, v) == kind = "bom" /\ Derive(c, v)

CreateRoutingVersion(c, v) == kind = "routing" /\ Derive(c, v)

TakeCode(c) ==
  /\ creating[c].stage = "begun"
  /\ GenerateCode(c)
  /\ creating' = [creating EXCEPT ![c] =
       [@ EXCEPT !.stage = "coded", !.code = Render(taken'[c]), !.key = PeriodKey]]
  /\ UNCHANGED <<rule, counters, day, reconfigured, kind, versions, approved>>

\* The last number of the scope, as committed.
NextVersionNo(c) ==
  /\ creating[c].stage = "coded"
  /\ LET last(v) == \A w \in ScopeRows(creating[c].scope) : versions[w].no <= versions[v].no
         rows == {v \in ScopeRows(creating[c].scope) : last(v)}
     IN creating' = [creating EXCEPT ![c] =
          [@ EXCEPT !.stage = "numbered",
             !.no = IF rows = {} THEN 1 ELSE versions[CHOOSE v \in rows : TRUE].no + 1]]
  /\ UNCHANGED <<numberVars, kind, versions, approved>>

CodeFree(code) == \A v \in 1..Len(versions) : versions[v].code # code

\* Bug: the key is not unique, as over a SKU that may be null.
NumberUnchecked(scope, no) == TRUE

NumberFree(scope, no) == \A v \in ScopeRows(scope) : versions[v].no # no

\* The row, then its lines; the database refuses a code or a number that is there.
Store(c) ==
  LET new == creating[c] IN
  /\ new.stage = "numbered"
  /\ CodeFree(new.code) /\ NumberFree(new.scope, new.no) /\ LinesValid(new.lines)
  /\ versions' = Append(versions,
       [scope |-> new.scope, no |-> new.no, code |-> new.code, typed |-> new.typed,
        status |-> "draft", is_active |-> TRUE, lines |-> new.lines])
  /\ KeepNumber(c, new.key)
  /\ creating' = [creating EXCEPT ![c] = NotCreating]
  /\ UNCHANGED <<rule, day, reconfigured, kind, approved>>

\* Refused, or the process ends.
GiveUp(c) ==
  /\ creating[c] # NotCreating
  /\ creating' = [creating EXCEPT ![c] = NotCreating]
  /\ taken' = [taken EXCEPT ![c] = 0]
  /\ UNCHANGED <<rule, counters, day, reconfigured, kind, versions, approved>>

-----------------------------------------------------------------------------
(* A version's life.                                                       *)

Editable(v) == versions[v].status = "draft" /\ versions[v].is_active

\* A header alone changes nothing that is told apart here.
Replace(v) ==
  /\ RowFree(v) /\ Editable(v) /\ LinesReplaceable(v)
  /\ \E lines \in GivenLines \ {<<>>} :
       LinesValid(lines) /\ versions' = [versions EXCEPT ![v].lines = lines]
  /\ UNCHANGED <<numberVars, kind, creating, approved>>

UpdateBom(v) == kind = "bom" /\ Replace(v)

UpdateRouting(v) == kind = "routing" /\ Replace(v)

\* Whether the version is in use is not asked.
SubmitVersion(v) ==
  /\ RowFree(v) /\ versions[v].status = "draft"
  /\ versions' = [versions EXCEPT ![v].status = "submitted"]
  /\ UNCHANGED <<numberVars, kind, creating, approved>>

SubmitBom(v) == kind = "bom" /\ SubmitVersion(v)

SubmitRouting(v) == kind = "routing" /\ SubmitVersion(v)

\* Bug: only older versions give way.
OlderInForce(v) ==
  {w \in ScopeRows(versions[v].scope) \ {v} :
     versions[w].status = "approved" /\ versions[w].no < versions[v].no}

OthersInForce(v) == {w \in ScopeRows(versions[v].scope) \ {v} : versions[w].status = "approved"}

\* Those in force in the scope give way.
ActivateVersion(v) ==
  /\ \A w \in OthersInForce(v) : RowFree(w)
  /\ versions' = [w \in 1..Len(versions) |->
       [versions[w] EXCEPT !.status =
          IF w = v THEN "approved" ELSE IF w \in OthersInForce(v) THEN "obsolete" ELSE @]]
  /\ approved' = [approved EXCEPT ![versions[v].scope] = v]

\* Rejected, or withdrawn and so a draft again.
RecordOutcome(v) ==
  /\ \E status \in {"rejected", "draft"} : versions' = [versions EXCEPT ![v].status = status]
  /\ UNCHANGED approved

Outcome(v) ==
  /\ RowFree(v) /\ versions[v].status = "submitted"
  /\ ActivateVersion(v) \/ RecordOutcome(v)
  /\ UNCHANGED <<numberVars, kind, creating>>

OnBomApprovalOutcome(v) == kind = "bom" /\ Outcome(v)

OnRoutingApprovalOutcome(v) == kind = "routing" /\ Outcome(v)

MakeObsolete(v) ==
  /\ RowFree(v) /\ versions[v].status \notin {"obsolete", "submitted"}
  /\ versions' = [versions EXCEPT ![v].status = "obsolete", ![v].is_active = FALSE]
  /\ UNCHANGED <<numberVars, kind, creating, approved>>

ObsoleteBom(v) == kind = "bom" /\ MakeObsolete(v)

ObsoleteRouting(v) == kind = "routing" /\ MakeObsolete(v)

\* set-active of every view: the flag alone, whatever the status.
SetActive(v) ==
  /\ RowFree(v)
  /\ versions' = [versions EXCEPT ![v].is_active = ~ @]
  /\ UNCHANGED <<numberVars, kind, creating, approved>>

-----------------------------------------------------------------------------
(* What is in force.                                                       *)

\* The approved version in use with the highest number, 0 if there is none.
Effective(scope) ==
  LET usable == {v \in ScopeRows(scope) : versions[v].status = "approved" /\ versions[v].is_active}
  IN IF usable = {} THEN 0
     ELSE CHOOSE v \in usable : \A w \in usable : versions[w].no <= versions[v].no

\* For a SKU: its own, or else that of the style.
EffectiveFor(scope) == IF Effective(scope) # 0 THEN Effective(scope) ELSE Effective("style")

-----------------------------------------------------------------------------
MakeNext ==
  \/ \E c \in Caller :
       \/ CreateBom(c) \/ CreateRouting(c)
       \/ \E v \in 1..Len(versions) : CreateBomVersion(c, v) \/ CreateRoutingVersion(c, v)
  \/ \E c \in Caller : TakeCode(c) \/ NextVersionNo(c) \/ Store(c) \/ GiveUp(c)

BomNext ==
  \E v \in 1..Len(versions) :
    UpdateBom(v) \/ SubmitBom(v) \/ OnBomApprovalOutcome(v) \/ ObsoleteBom(v)

RoutingNext ==
  \E v \in 1..Len(versions) :
    UpdateRouting(v) \/ SubmitRouting(v) \/ OnRoutingApprovalOutcome(v) \/ ObsoleteRouting(v)

LifeNext == BomNext \/ RoutingNext \/ \E v \in 1..Len(versions) : SetActive(v)

RuleNext == (ChangeRule \/ NextDay) /\ UNCHANGED versionVars

VersionsNext == MakeNext \/ LifeNext \/ RuleNext

VersionsSpec == VersionsInit /\ [][VersionsNext]_<<numberVars, versionVars>>

-----------------------------------------------------------------------------
(* What versions and their numbers promise.                                *)

\* However creations overlap, on a number read before others committed, and however
\* many are refused or roll back: the versions of a scope are numbered from one on,
\* without a gap or a repetition (planning/services.py:14, scope_key's unique key).
VersionsRunOn ==
  \A v \in 1..Len(versions) :
    versions[v].no = Cardinality({w \in ScopeRows(versions[v].scope) : w <= v})

\* A number that the rule gives is no stored document's, over rollbacks, days and
\* requests at once, unless that code was typed by hand: no creation that left its code
\* to the rule is refused for it.  The rule must show the period it resets by, and keep
\* its pattern and period (core/services.py:412).
CodesAreNew ==
  ~ reconfigured /\ (rule.resets => rule.dated) =>
    \A c \in Caller, v \in 1..Len(versions) :
      creating[c].code = versions[v].code => creating[c].typed \/ versions[v].typed

\* However versions are approved out of their order, taken out of use and put back:
\* planning and production are given the version whose approval is the latest, the SKU's
\* before the style's, and never one that another has replaced.
LatestApprovalServes ==
  \A scope \in ScopeKey :
    LET latest == approved[scope]
        serves == latest # 0 /\ versions[latest].status = "approved" /\ versions[latest].is_active
    IN IF serves THEN EffectiveFor(scope) = latest
       ELSE EffectiveFor(scope) \in {0, approved["style"]}
=============================================================================
