----------------------------- MODULE Inference -----------------------------
(***************************************************************************)
(* What one execution does with the numbers of a request: the feature      *)
(* payload is checked (run_state.py, features.py), scaled                  *)
(* (preprocessing.py), scored and explained (xgboost_model.py), and the    *)
(* score and the explanation become an outcome with its reasons            *)
(* (result_builder.py, proposal_reason_policy.py).                         *)
(*                                                                         *)
(* Numbers are integers in a unit of their own: ratios and volatilities in *)
(* hundredths, scores in tenths of the sixth decimal, contributions in     *)
(* their eighth decimal.  What the model computes is any of a given set.   *)
(***************************************************************************)
EXTENDS Integers, Sequences, FiniteSets

CONSTANTS
  Payloads,       \* feature payloads, functions from names to values
  RawScores,      \* what the booster can predict, None for nothing finite
  Contributions,  \* what SHAP can attribute, None for an exception of SHAP
  Threshold,
  NotFinite,      \* contributions with NaN or Infinity among those explained
  None

FEATURE_ORDER ==
  <<"annualIncome", "monthlyIncomeMean", "monthlyIncomeVolatility", "debtToIncomeRatio",
    "existingDebtAmount", "delinquencyCount", "platformSettlementMonths",
    "platformSettlementMean", "platformSettlementVolatility", "contractDurationMonths",
    "incomeDeclarationAvailable", "telecomPaymentDelinquencyCount">>

Features == {FEATURE_ORDER[k] : k \in DOMAIN FEATURE_ORDER}

Position == [f \in Features |-> CHOOSE k \in DOMAIN FEATURE_ORDER : FEATURE_ORDER[k] = f]

Counts == {"delinquencyCount", "telecomPaymentDelinquencyCount"}
Months == {"platformSettlementMonths", "contractDurationMonths"}
Volatilities == {"monthlyIncomeVolatility", "platformSettlementVolatility"}
IntegerFeatures == Counts \cup Months

Raises == "raises"

ValueTypes == {"bool", "int", "huge", "float", "nan", "infinity", "other"}

FaultCodes ==
  {"FEATURE_TYPE_INVALID", "FEATURE_VALUE_OUT_OF_RANGE", "FEATURE_UNKNOWN",
   "FEATURE_REQUIRED_MISSING", "AGENT_RUNTIME_TEMPORARY_FAILURE", "SHAP_CALCULATION_FAILED",
   "CONTRACT_VALIDATION_FAILED", Raises}

\* A value is [type, num]; a bool is 0 or 1, huge an integer beyond the range of
\* a double, other a string, a list or null.
ASSUME InferenceAssumption ==
  /\ \A p \in Payloads : \A name \in DOMAIN p :
       /\ p[name] \in [type : ValueTypes, num : Int]
       /\ p[name].type = "bool" => p[name].num \in 0..1
  /\ RawScores \subseteq Int \cup {None}
  /\ Contributions \subseteq [Features -> Int] \cup {None, NotFinite}
  /\ Threshold \in Int
  /\ None \notin Int \cup FaultCodes /\ \A S \in SUBSET Features : {None, NotFinite} \cap [S -> Int] = {}

Abs(n) == IF n < 0 THEN -n ELSE n

\* row and explanation are SHAP's contributions before and after the cut.
VARIABLES
  stage, payload, vector, score, row, explanation, outcome, reasons, fault

vars == <<stage, payload, vector, score, row, explanation, outcome, reasons, fault>>

TypeOK ==
  /\ stage \in {"received", "identified", "prepared", "predicted", "explained", "ended"}
  /\ vector # None => vector \in [Features -> Nat]
  /\ score # None => score \in Int /\ score % 10 = 0
  /\ explanation # None =>
       /\ DOMAIN explanation \subseteq Features /\ Cardinality(DOMAIN explanation) = 8
       /\ \A f \in DOMAIN explanation, g \in Features \ DOMAIN explanation :
            Abs(row[g]) <= Abs(explanation[f])
  /\ fault # None => stage = "ended" /\ outcome = None
  /\ stage = "ended" => fault # None \/ Len(reasons) \in 1..3

Init ==
  /\ stage = "received"
  /\ payload \in Payloads
  /\ vector = None /\ score = None /\ row = None /\ explanation = None
  /\ outcome = None /\ reasons = <<>> /\ fault = None

Fail(code) == stage' = "ended" /\ fault' = code

-----------------------------------------------------------------------------
(***************************************************************************)
(* The payload.                                                            *)
(***************************************************************************)
\* Mutant: NaN and Infinity have a digest.
DigestibleAlways(p) == TRUE

\* canonical_json() refuses NaN and Infinity.
Digestible(p) == \A name \in DOMAIN p : p[name].type \notin {"nan", "infinity"}

AcceptedTypes(name) ==
  IF name = "incomeDeclarationAvailable" THEN {"bool"}
  ELSE {"int", "huge"} \cup (IF name \in IntegerFeatures THEN {} ELSE {"float", "nan", "infinity"})

Bound(name) ==
  CASE name \in {"annualIncome", "existingDebtAmount"} -> 1000000000
    [] name \in {"monthlyIncomeMean", "platformSettlementMean"} -> 100000000
    [] name \in Volatilities -> 1000
    [] name = "debtToIncomeRatio" -> 500
    [] name \in Counts -> 120
    [] name \in Months -> 240
    [] name = "incomeDeclarationAvailable" -> 1

\* Every comparison with NaN is false.
OutOfRange(name, v) ==
  v.type = "infinity" \/ (v.type # "nan" /\ (v.num < 0 \/ v.num > Bound(name)))

\* _feature_value()
ValueFault(name, v) ==
  IF v.type \notin AcceptedTypes(name) THEN "FEATURE_TYPE_INVALID"
  ELSE IF v.type = "huge" THEN Raises
  ELSE IF OutOfRange(name, v) THEN "FEATURE_VALUE_OUT_OF_RANGE"
  ELSE None

\* validate_and_prepare_features(), whose versions and digest ModelPipeline has.
PrepareFault(p) ==
  LET faulty == {k \in DOMAIN FEATURE_ORDER :
                   ValueFault(FEATURE_ORDER[k], p[FEATURE_ORDER[k]]) # None}
      first == FEATURE_ORDER[CHOOSE k \in faulty : \A j \in faulty : k <= j]
  IN IF ~ DOMAIN p \subseteq Features THEN "FEATURE_UNKNOWN"
     ELSE IF ~ Features \subseteq DOMAIN p THEN "FEATURE_REQUIRED_MISSING"
     ELSE IF faulty = {} THEN None
     ELSE ValueFault(first, p[first])

Identify ==
  /\ stage = "received"
  /\ IF Digestible(payload) THEN stage' = "identified" /\ UNCHANGED fault
     ELSE Fail("FEATURE_TYPE_INVALID")
  /\ UNCHANGED <<payload, vector, score, row, explanation, outcome, reasons>>

\* preprocess_feature_vector() divides by a scale and clips at 1; money goes
\* through log1p, which only has to be given no negative number.
Scale == [f \in Features |->
  CASE f \in Volatilities -> 1000
    [] f = "debtToIncomeRatio" -> 500
    [] f \in Counts -> 120
    [] f \in Months -> 240
    [] f = "incomeDeclarationAvailable" -> 1
    [] OTHER -> None]

\* _clip_unit(), of a number that is divided by scale.
Clip(n, scale) == IF n < 0 THEN 0 ELSE IF scale # None /\ n > scale THEN scale ELSE n

Preprocess(p) == [f \in Features |-> Clip(p[f].num, Scale[f])]

Prepare ==
  /\ stage = "identified"
  /\ IF PrepareFault(payload) = None
     THEN stage' = "prepared" /\ vector' = Preprocess(payload) /\ UNCHANGED fault
     ELSE Fail(PrepareFault(payload)) /\ UNCHANGED vector
  /\ UNCHANGED <<payload, score, row, explanation, outcome, reasons>>

-----------------------------------------------------------------------------
(***************************************************************************)
(* The model.                                                              *)
(***************************************************************************)
\* round(score, 6), which rounds half to even.
Rounded(raw) ==
  LET down == raw \div 10
      up == raw % 10 > 5 \/ (raw % 10 = 5 /\ down % 2 = 1)
  IN 10 * (IF up THEN down + 1 ELSE down)

Predict ==
  /\ stage = "prepared"
  /\ \E raw \in RawScores :
       IF raw = None THEN Fail("AGENT_RUNTIME_TEMPORARY_FAILURE") /\ UNCHANGED score
       ELSE stage' = "predicted" /\ score' = Rounded(raw) /\ UNCHANGED fault
  /\ UNCHANGED <<payload, vector, row, explanation, outcome, reasons>>

\* Mutant: the explanation is not cut.
LargestAll == [c \in Contributions \ {None, NotFinite} |-> Features]

\* sort(key=abs, reverse=True) is stable: ties keep the order of the features.
Largest == [c \in Contributions \ {None, NotFinite} |->
  {f \in Features :
     Cardinality({g \in Features :
       \/ Abs(c[g]) > Abs(c[f])
       \/ Abs(c[g]) = Abs(c[f]) /\ Position[g] < Position[f]}) < 8}]

\* The digest of the explanation refuses NaN and Infinity with a ValueError,
\* which no handler turns into a reason code.
Explain ==
  /\ stage = "predicted"
  /\ \E c \in Contributions :
       \/ c = None /\ Fail("SHAP_CALCULATION_FAILED") /\ UNCHANGED <<row, explanation>>
       \/ c = NotFinite /\ Fail(Raises) /\ UNCHANGED <<row, explanation>>
       \/ /\ c \notin {None, NotFinite}
          /\ stage' = "explained"
          /\ row' = c
          /\ explanation' = [f \in Largest[c] |-> c[f]]
          /\ UNCHANGED fault
  /\ UNCHANGED <<payload, vector, score, outcome, reasons>>

-----------------------------------------------------------------------------
(***************************************************************************)
(* The reasons.                                                            *)
(***************************************************************************)
Supports(e, f) == f \in DOMAIN e /\ e[f] > 0
Opposes(e, f) == f \in DOMAIN e /\ e[f] < 0

LowDti(p) == p["debtToIncomeRatio"].num <= 40

StableIncome(p) ==
  p["incomeDeclarationAvailable"].num = 1 /\ p["monthlyIncomeVolatility"].num <= 30

\* reasons.append(code) if it applies
Appended(codes, code, applies) == IF applies THEN Append(codes, code) ELSE codes

ApprovalReasons(p, e) ==
  Appended(Appended(<<>>, "LOW_DTI", LowDti(p) /\ Supports(e, "debtToIncomeRatio")),
           "STABLE_INCOME", StableIncome(p) /\ Supports(e, "incomeDeclarationAvailable"))

\* The features each code stands for.
About ==
  [HIGH_DTI |-> {"debtToIncomeRatio"}, RECENT_DELINQUENCY |-> Counts,
   INSUFFICIENT_HISTORY |-> {"platformSettlementMonths"},
   VOLATILE_SETTLEMENTS |-> {"platformSettlementVolatility"}]

ThresholdHit(p, f) ==
  CASE f = "debtToIncomeRatio" -> p[f].num >= 45
    [] f \in Counts -> p[f].num > 0
    [] f = "platformSettlementMonths" -> p[f].num < 12
    [] f = "platformSettlementVolatility" -> p[f].num >= 40

\* The code's loop over five candidates without repeating a code: those that
\* apply, in order, cut to three.
DeclineList(applying) ==
  LET dti == Appended(<<>>, "HIGH_DTI", "HIGH_DTI" \in applying)
      late == Appended(dti, "RECENT_DELINQUENCY", "RECENT_DELINQUENCY" \in applying)
      young == Appended(late, "INSUFFICIENT_HISTORY", "INSUFFICIENT_HISTORY" \in applying)
      all == Appended(young, "VOLATILE_SETTLEMENTS", "VOLATILE_SETTLEMENTS" \in applying)
  IN IF Len(all) > 3 THEN SubSeq(all, 1, 3) ELSE all

\* Mutant: a threshold counts only when the model weighed it.
DeclineReasonsWeighed(p, e) ==
  DeclineList({code \in DOMAIN About :
                 \E f \in About[code] : ThresholdHit(p, f) /\ Opposes(e, f)})

DeclineReasons(p, e) ==
  DeclineList({code \in DOMAIN About :
                 \E f \in About[code] : ThresholdHit(p, f) \/ Opposes(e, f)})

\* Mutant: a score at the threshold does not support approval.
ReasonCodesStrict(p, s, e) ==
  IF s > Threshold THEN ApprovalReasons(p, e) ELSE DeclineReasons(p, e)

\* reason_codes() decides between approval and decline for itself.
ReasonCodes(p, s, e) ==
  IF s >= Threshold THEN ApprovalReasons(p, e) ELSE DeclineReasons(p, e)

Decide ==
  /\ stage = "explained"
  /\ LET codes == ReasonCodes(payload, score, explanation)
     IN IF codes = <<>>
        THEN Fail("CONTRACT_VALIDATION_FAILED") /\ UNCHANGED <<outcome, reasons>>
        ELSE /\ stage' = "ended"
             /\ outcome' = IF score >= Threshold THEN "RECOMMEND_APPROVAL"
                                                 ELSE "RECOMMEND_DECLINE"
             /\ reasons' = codes
             /\ UNCHANGED fault
  /\ UNCHANGED <<payload, vector, score, row, explanation>>

Terminating == stage = "ended" /\ UNCHANGED vars

Next == Identify \/ Prepare \/ Predict \/ Explain \/ Decide \/ Terminating

Spec == Init /\ [][Next]_vars

-----------------------------------------------------------------------------
\* What the model is meant to see: the twelve features and no other, each a
\* finite number of its type within its bounds.
CleanValue(f, v) ==
  /\ v.type \in (IF f = "incomeDeclarationAvailable" THEN {"bool"}
                 ELSE IF f \in IntegerFeatures THEN {"int"} ELSE {"int", "float"})
  /\ v.num \in 0..Bound(f)

Clean(p) == DOMAIN p = Features /\ \A f \in Features : CleanValue(f, p[f])

\* The model sees clean payloads and nothing else, and sees them undistorted:
\* the checks spread over the digest, the types and the bounds (NaN passes the
\* bounds) let no other payload through and reject no clean one, and no feature
\* within the bounds of features.py is clipped by the scales of preprocessing.py.
OnlyCleanIsScored ==
  /\ stage \in {"prepared", "predicted", "explained"} =>
       Clean(payload) /\ \A f \in Features : vector[f] = payload[f].num
  /\ stage = "ended" /\ vector = None => ~ Clean(payload)

Reported == {reasons[k] : k \in DOMAIN reasons}

\* The outcome, the published score and the reasons tell one story, although
\* result builder and reason policy compare score and threshold separately.
ReasonsFitOutcome ==
  stage = "ended" /\ fault = None =>
    /\ outcome = "RECOMMEND_APPROVAL" <=> score >= Threshold
    /\ Reported \subseteq (IF outcome = "RECOMMEND_APPROVAL" THEN {"LOW_DTI", "STABLE_INCOME"}
                           ELSE DOMAIN About)

Fact(p, code) == \E f \in About[code] : ThresholdHit(p, f)

\* A score below the threshold with an adverse fact about the applicant is always
\* explained, and every such fact is reported, whatever SHAP shows or the cut to
\* eight hides; the cap of three can cost only the volatile settlements.
AdverseFactsReported ==
  stage = "ended" /\ explanation # None /\ score < Threshold =>
    \A code \in DOMAIN About : Fact(payload, code) =>
      code \in Reported \/ (code = "VOLATILE_SETTLEMENTS" /\ Len(reasons) = 3)

=============================================================================
