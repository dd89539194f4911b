---------------------------- MODULE MCInference ----------------------------
EXTENDS Inference

Whole(n) == [type |-> "int", num |-> n]
Ratio(n) == [type |-> "float", num |-> n]
Flag(n) == [type |-> "bool", num |-> n]

Applicant == [f \in Features |->
  IF f = "incomeDeclarationAvailable" THEN Flag(1)
  ELSE IF f \in IntegerFeatures THEN Whole(12)
  ELSE Ratio(30)]

\* Applicants around every threshold of the reason policy.
Applicants ==
  {[Applicant EXCEPT !["debtToIncomeRatio"] = Ratio(dti),
                     !["delinquencyCount"] = Whole(late),
                     !["telecomPaymentDelinquencyCount"] = Whole(telecom),
                     !["platformSettlementMonths"] = Whole(months),
                     !["platformSettlementVolatility"] = Ratio(volatility),
                     !["incomeDeclarationAvailable"] = Flag(declared)] :
     dti \in {40, 41, 45}, late \in 0..1, telecom \in 0..1,
     months \in {11, 12}, volatility \in {39, 40}, declared \in 0..1}
  \cup {[Applicant EXCEPT !["monthlyIncomeVolatility"] = Ratio(31)]}

\* Values a feature can have by mistake, and those at its bounds.
Odd(f) ==
  {[type |-> ty, num |-> n] : ty \in {"int", "float"}, n \in {-1, 0, Bound(f), Bound(f) + 1}}
  \cup {Flag(0), Flag(1)}
  \cup {[type |-> ty, num |-> 1] : ty \in {"nan", "infinity", "huge", "other"}}

OddPairs == {<<"annualIncome", "delinquencyCount">>, <<"delinquencyCount", "annualIncome">>}

MCPayloads ==
  Applicants
  \cup UNION {{[Applicant EXCEPT ![f] = v] : v \in Odd(f)} : f \in Features}
  \cup UNION {{[Applicant EXCEPT ![p[1]] = v, ![p[2]] = [type |-> "huge", num |-> 1]] :
                 v \in Odd(p[1])} : p \in OddPairs}
  \cup {[f \in Features \ {"annualIncome"} |-> Applicant[f]],
        [f \in Features \cup {"postcode"} |-> IF f \in Features THEN Applicant[f] ELSE Whole(1)]}

\* The threshold 0.72, scores below it that round to it, one of them halfway, and
\* one that does not.
MCRawScores == {None, 7199994, 7199995, 7199996, 7200000}

\* The features the policy looks at weigh little; the others nothing or more.
MCContributions ==
  {[f \in Features |->
      CASE f = "debtToIncomeRatio" -> dti [] f = "incomeDeclarationAvailable" -> declared
        [] f = "delinquencyCount" -> late [] f = "telecomPaymentDelinquencyCount" -> telecom
        [] f = "platformSettlementMonths" -> months
        [] f = "platformSettlementVolatility" -> volatility [] OTHER -> others] :
     dti \in -1..1, declared \in -1..1, late \in -1..1, volatility \in -1..1,
     telecom \in {-1, 1}, months \in {-1, 1}, others \in {0, 2}}
  \cup {None, NotFinite}
=============================================================================
