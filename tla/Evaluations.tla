----------------------------- MODULE Evaluations -----------------------------
(***************************************************************************)
(* Evaluation of suppliers (apps/srm): versions of the weights of the      *)
(* dimensions, and one evaluation with a line for each dimension, whose    *)
(* weights are those of the version it was created with.                   *)
(*                                                                         *)
(* Lines, publication and archiving lock the evaluation.  Its header form  *)
(* does not: it writes the row it read, and recalculates in a second       *)
(* transaction if the policy was in the form.                              *)
(*                                                                         *)
(* Weights are integers, of which Hundred make 100%; the code counts in    *)
(* hundredths of a percent.  Abstracted: scores are high or low or missing,*)
(* a total is known by whether it has a grade, and dates and observations. *)
(***************************************************************************)
EXTENDS Sums, Sequences, FiniteSets

CONSTANTS
  Evaluator,
  Dimensions,      \* how many, ordered by name
  Hundred,
  GivenWeights,    \* what people enter for the dimensions
  MaxVersions      \* bounds a behaviour

ASSUME EvaluationInputs ==
  /\ Dimensions \in Nat \ {0} /\ Hundred \in Nat \ {0} /\ MaxVersions \in Nat
  /\ GivenWeights \subseteq [1..Dimensions -> Int]
\* EVALUATION_DIMENSIONS are five, and 100% are ten thousand hundredths of a percent.
ASSUME FewDimensions == Dimensions * (Dimensions - 1) <= 2 * Hundred

VARIABLES
  versions,     \* SupplierEvaluationWeight rows, by version_no
  evaluation,   \* SupplierEvaluation, or its absence
  lines,        \* its SupplierEvaluationLine rows, if there are any
  form          \* what each evaluator's request has read, or has yet to do

evaluationVars == <<versions, evaluation, lines, form>>

Dimension == 1..Dimensions
Policy == {"mark_missing", "redistribute"}

\* normalize_weights: nearly a hundred is not a hundred.
Weights == {w \in [Dimension -> 0..Hundred] : Sum(w, Dimensions) = Hundred}

SupplierEvaluationWeight == [weights : Weights, active : BOOLEAN]
SupplierEvaluation ==
  [weights : Weights, policy : Policy, status : {"draft", "effective", "archived"},
   total : {"none", "without_grade", "graded"}]
SupplierEvaluationLine ==
  [missing : BOOLEAN, weight : 0..Hundred, effective : Int]
NoEvaluation == [status |-> "none"]
NoForm == [of |-> "nothing"]
Form ==
  {NoForm} \union [of : {"version"}, id : Nat, row : SupplierEvaluationWeight]
    \union [of : {"header", "policy"}, row : SupplierEvaluation]

EvaluationTypeOK ==
  /\ versions \in Seq(SupplierEvaluationWeight)
  /\ evaluation \in {NoEvaluation} \union SupplierEvaluation
  /\ lines \in {<<>>} \union [Dimension -> SupplierEvaluationLine]
  /\ form \in [Evaluator -> Form]

EvaluationInit ==
  /\ versions = <<>> /\ evaluation = NoEvaluation /\ lines = <<>>
  /\ form = [e \in Evaluator |-> NoForm]

Opens(e, what) == form[e] = NoForm /\ form' = [form EXCEPT ![e] = what]
Submits(e, what) == form[e].of = what /\ form' = [form EXCEPT ![e] = NoForm]

-----------------------------------------------------------------------------
(* Versions of the weights.                                                *)

\* A new version that is active makes the others inactive.
StoreWeightConfig(weights, active) ==
  /\ Len(versions) < MaxVersions
  /\ weights \in Weights
  /\ versions' = Append([v \in 1..Len(versions) |->
                           [versions[v] EXCEPT !.active = @ /\ ~ active]],
                        [weights |-> weights, active |-> active])

CreateWeightConfig(weights, active) ==
  StoreWeightConfig(weights, active) /\ UNCHANGED <<evaluation, lines, form>>

OpenVersion(e, v) ==
  /\ Opens(e, [of |-> "version", id |-> v, row |-> versions[v]])
  /\ UNCHANGED <<versions, evaluation, lines>>

\* A change of a version makes a new one, active if the old one was when it was read.
DeriveWeightConfig(e, weights) ==
  /\ Submits(e, "version")
  /\ StoreWeightConfig(weights, form[e].row.active)
  /\ UNCHANGED <<evaluation, lines>>

\* The switch leaves the other versions alone.
SetActive(e, active) ==
  /\ Submits(e, "version")
  /\ versions' = [versions EXCEPT ![form[e].id].active = active]
  /\ UNCHANGED <<evaluation, lines>>

-----------------------------------------------------------------------------
(* Weights in effect.                                                      *)

\* x / y to the nearest integer, halves up.
Rounded(x, y) == (2 * x + y) \div (2 * y)

Scored(rows) == {d \in Dimension : ~ rows[d].missing}
Pool(rows) == Sum([d \in Dimension |-> IF d \in Scored(rows) THEN rows[d].weight ELSE 0], Dimensions)

\* The heaviest scored dimension, by name the last of several.
Heaviest(rows) ==
  CHOOSE d \in Scored(rows) : \A other \in Scored(rows) :
    rows[other].weight < rows[d].weight \/ (rows[other].weight = rows[d].weight /\ other <= d)

Share(rows, d) ==
  IF d \in Scored(rows) THEN Rounded(rows[d].weight * Hundred, Pool(rows)) ELSE 0

\* Bug: each share is rounded and none takes the rest.
ShareOfPool(rows) ==
  IF Pool(rows) = 0 THEN [d \in Dimension |-> 0] ELSE [d \in Dimension |-> Share(rows, d)]

\* The heaviest takes what the others leave.
RedistributedWeights(rows) ==
  LET others == [d \in Dimension |-> IF d = Heaviest(rows) THEN 0 ELSE Share(rows, d)]
  IN  IF Pool(rows) = 0 THEN [d \in Dimension |-> 0]
      ELSE [others EXCEPT ![Heaviest(rows)] = Hundred - Sum(others, Dimensions)]

EffectiveWeights(rows, policy) ==
  IF policy = "redistribute" /\ Scored(rows) # Dimension THEN RedistributedWeights(rows)
  ELSE [d \in Dimension |-> IF d \in Scored(rows) THEN rows[d].weight ELSE 0]

WithEffective(rows, policy) ==
  [d \in Dimension |-> [rows[d] EXCEPT !.effective = EffectiveWeights(rows, policy)[d]]]

\* Without its missing dimensions a total has no grade.
Total(rows, policy) ==
  IF rows = <<>> THEN "none"
  ELSE IF Scored(rows) = Dimension \/ policy = "redistribute" THEN "graded" ELSE "without_grade"

\* Only the columns of the total are written.
Recalculate(rows, policy) ==
  /\ lines' = IF rows = <<>> THEN rows ELSE WithEffective(rows, policy)
  /\ evaluation' = [evaluation EXCEPT !.total = Total(rows, policy)]

-----------------------------------------------------------------------------
(* The evaluation.                                                         *)

\* By a version chosen, or else the newest active one.
CreateEvaluation(v, policy) ==
  /\ evaluation = NoEvaluation
  /\ evaluation' = [weights |-> versions[v].weights, policy |-> policy, status |-> "draft",
                    total |-> "none"]
  /\ UNCHANGED <<versions, lines, form>>

\* A line for each dimension, missing if it was entered without a score.
PreparedLines(missing) ==
  [d \in Dimension |->
     [missing |-> d \in missing, weight |-> evaluation.weights[d], effective |-> 0]]

SetEvaluationLines(missing) ==
  /\ evaluation.status = "draft"
  /\ Recalculate(PreparedLines(missing), evaluation.policy)
  /\ UNCHANGED <<versions, form>>

PublishEvaluation ==
  /\ evaluation.status = "draft"
  /\ lines # <<>> /\ evaluation.total # "none"
  /\ evaluation' = [evaluation EXCEPT !.status = "effective"]
  /\ UNCHANGED <<versions, lines, form>>

ArchiveEvaluation ==
  /\ evaluation.status \in {"draft", "effective"}
  /\ evaluation' = [evaluation EXCEPT !.status = "archived"]
  /\ UNCHANGED <<versions, lines, form>>

OpenHeader(e) ==
  /\ evaluation.status = "draft"
  /\ Opens(e, [of |-> "header", row |-> evaluation])
  /\ UNCHANGED <<versions, evaluation, lines>>

SaveHeader(e) ==
  /\ Submits(e, "header")
  /\ evaluation' = form[e].row
  /\ UNCHANGED <<versions, lines>>

SavePolicy(e, policy) ==
  LET row == [form[e].row EXCEPT !.policy = policy]
  IN  /\ form[e].of = "header"
      /\ evaluation' = row
      /\ form' = [form EXCEPT ![e] = [of |-> "policy", row |-> row]]
      /\ UNCHANGED <<versions, lines>>

\* The policy is the one of the form, whatever the row has by now.
RecalculateHeader(e) ==
  /\ Submits(e, "policy")
  /\ Recalculate(lines, form[e].row.policy)
  /\ UNCHANGED versions

-----------------------------------------------------------------------------
VersionNext ==
  \/ \E weights \in GivenWeights, active \in BOOLEAN : CreateWeightConfig(weights, active)
  \/ \E e \in Evaluator :
       \/ \E v \in 1..Len(versions) : OpenVersion(e, v)
       \/ \E weights \in GivenWeights : DeriveWeightConfig(e, weights)
       \/ \E active \in BOOLEAN : SetActive(e, active)

HeaderNext ==
  \/ \E v \in 1..Len(versions), policy \in Policy : CreateEvaluation(v, policy)
  \/ \E missing \in SUBSET Dimension : SetEvaluationLines(missing)
  \/ PublishEvaluation \/ ArchiveEvaluation
  \/ \E e \in Evaluator :
       \/ OpenHeader(e) \/ SaveHeader(e) \/ RecalculateHeader(e)
       \/ \E policy \in Policy : SavePolicy(e, policy)

EvaluationNext == VersionNext \/ HeaderNext

EvaluationSpec == EvaluationInit /\ [][EvaluationNext]_evaluationVars

-----------------------------------------------------------------------------
(* Properties.                                                             *)

\* What the lines of an evaluation weigh is what its version gave them, or the missing
\* ones nothing and the others a hundred together, each its share of the scored to half
\* a unit for every other line that was rounded; and what is published has a total.
WeightsAddUp ==
  /\ lines # <<>> =>
       LET effective == [d \in Dimension |-> lines[d].effective]
       IN  /\ \A d \in Dimension \ Scored(lines) : effective[d] = 0
           /\ \/ \A d \in Scored(lines) : effective[d] = lines[d].weight
              \/ Pool(lines) = 0 /\ \A d \in Dimension : effective[d] = 0
              \/ /\ Sum(effective, Dimensions) = Hundred
                 /\ \A d \in Scored(lines) :
                      LET off == effective[d] * Pool(lines) - lines[d].weight * Hundred
                          slack == (Cardinality(Scored(lines)) - 1) * Pool(lines)
                      IN  effective[d] >= 0 /\ 2 * off <= slack /\ -slack <= 2 * off
  /\ evaluation.status = "effective" => evaluation.total # "none"
=============================================================================
