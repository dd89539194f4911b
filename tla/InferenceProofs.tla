-------------------------- MODULE InferenceProofs --------------------------
(***************************************************************************)
(* Proofs about Inference, for any payloads, any numbers the model can     *)
(* predict and attribute, and any threshold.                               *)
(***************************************************************************)
EXTENDS Inference, FiniteSetTheorems, FunctionTheorems, SequenceTheorems,
        WellFoundedInduction, TLAPS

-----------------------------------------------------------------------------
(***************************************************************************)
(* The inductive invariant.                                                *)
(***************************************************************************)
Scored == stage \in {"prepared", "predicted", "explained"}

VectorOK ==
  /\ vector # None => Clean(payload) /\ vector = [f \in Features |-> payload[f].num]
  /\ Scored => vector # None
  /\ stage \in {"received", "identified"} => vector = None
  /\ stage = "identified" => Digestible(payload)
  /\ stage = "ended" /\ vector = None => ~ Clean(payload) /\ fault # None

ScoreOK ==
  /\ score # None => score \in Int /\ score % 10 = 0
  /\ stage \in {"predicted", "explained"} \/ explanation # None => score # None

ExplanationOK ==
  /\ explanation # None =>
       /\ vector # None
       /\ row \in Contributions \ {None, NotFinite}
       /\ explanation = [f \in Largest[row] |-> row[f]]
  /\ stage \in {"received", "identified", "prepared", "predicted"} => explanation = None
  /\ stage = "explained" => explanation # None

\* An execution that was explained ends as the reasons say.
EndOK ==
  /\ stage # "ended" => fault = None
  /\ fault # None => outcome = None
  /\ stage # "ended" => outcome = None
  /\ stage = "ended" /\ explanation = None => fault # None
  /\ stage = "ended" /\ explanation # None =>
       LET codes == ReasonCodes(payload, score, explanation)
       IN IF codes = <<>> THEN fault # None /\ reasons = <<>>
          ELSE /\ fault = None /\ reasons = codes
               /\ outcome = IF score >= Threshold THEN "RECOMMEND_APPROVAL"
                                                  ELSE "RECOMMEND_DECLINE"

IInv ==
  /\ stage \in {"received", "identified", "prepared", "predicted", "explained", "ended"}
  /\ payload \in Payloads
  /\ stage # "ended" => reasons = <<>>
  /\ VectorOK /\ ScoreOK /\ ExplanationOK /\ EndOK

-----------------------------------------------------------------------------
(***************************************************************************)
(* The twelve features.                                                    *)
(***************************************************************************)
LEMMA FeaturesAre ==
  /\ Features =
       {"annualIncome", "monthlyIncomeMean", "monthlyIncomeVolatility", "debtToIncomeRatio",
        "existingDebtAmount", "delinquencyCount", "platformSettlementMonths",
        "platformSettlementMean", "platformSettlementVolatility", "contractDurationMonths",
        "incomeDeclarationAvailable", "telecomPaymentDelinquencyCount"}
  /\ DOMAIN FEATURE_ORDER = 1..12
<1>1. DOMAIN FEATURE_ORDER = 1..12
  BY DEF FEATURE_ORDER
<1>2. \A k \in 1..12 : k = 1 \/ k = 2 \/ k = 3 \/ k = 4 \/ k = 5 \/ k = 6 \/ k = 7 \/ k = 8 \/ k = 9
                      \/ k = 10 \/ k = 11 \/ k = 12
  OBVIOUS
<1>3. Features = {FEATURE_ORDER[k] : k \in 1..12}
  BY <1>1 DEF Features
<1> QED BY <1>1, <1>2, <1>3 DEF FEATURE_ORDER

\* No feature is listed twice, so that each has its position.
LEMMA PositionIs ==
  ASSUME NEW f \in Features
  PROVE  Position[f] \in 1..12 /\ FEATURE_ORDER[Position[f]] = f
<1>1. \E k \in DOMAIN FEATURE_ORDER : FEATURE_ORDER[k] = f
  BY DEF Features
<1> QED BY <1>1, FeaturesAre DEF Position

LEMMA Intervals ==
  /\ IsFiniteSet(1..12) /\ Cardinality(1..12) = 12
  /\ IsFiniteSet(0..11) /\ Cardinality(0..11) = 12
  /\ IsFiniteSet(0..7) /\ Cardinality(0..7) = 8
<1>1. 0 \in Int /\ 1 \in Int /\ 7 \in Int /\ 11 \in Int /\ 12 \in Int
  OBVIOUS
<1>2. /\ IsFiniteSet(1..12) /\ Cardinality(1..12) = IF 1 > 12 THEN 0 ELSE 12 - 1 + 1
      /\ IsFiniteSet(0..11) /\ Cardinality(0..11) = IF 0 > 11 THEN 0 ELSE 11 - 0 + 1
      /\ IsFiniteSet(0..7) /\ Cardinality(0..7) = IF 0 > 7 THEN 0 ELSE 7 - 0 + 1
  BY <1>1, FS_Interval, Zenon
<1> QED BY <1>2

LEMMA TwelveFeatures == IsFiniteSet(Features) /\ Cardinality(Features) = 12
<1>1. FEATURE_ORDER \in [1..12 -> Features]
  <2>1. \A k \in 1..12 : FEATURE_ORDER[k] \in Features
    BY FeaturesAre DEF Features
  <2>2. FEATURE_ORDER = [k \in 1..12 |-> FEATURE_ORDER[k]]
    BY DEF FEATURE_ORDER
  <2> QED BY <2>1, <2>2
<1>2. \A j, k \in 1..12 : FEATURE_ORDER[j] = FEATURE_ORDER[k] => j = k
  BY DEF FEATURE_ORDER
<1>3. \A f \in Features : \E k \in 1..12 : FEATURE_ORDER[k] = f
  BY FeaturesAre DEF Features
<1>4. ExistsBijection(1..12, Features)
  BY <1>1, <1>2, <1>3, Fun_IsBij DEF ExistsBijection
<1> QED BY <1>4, Intervals, FS_Bijection

-----------------------------------------------------------------------------
(***************************************************************************)
(* The cut of the explanation.                                             *)
(***************************************************************************)

\* The features that the stable sort puts before f.
Above(c, f) ==
  {g \in Features : \/ Abs(c[g]) > Abs(c[f])
                    \/ Abs(c[g]) = Abs(c[f]) /\ Position[g] < Position[f]}

LEMMA AboveIs ==
  ASSUME NEW c \in [Features -> Int], NEW f \in Features, NEW g \in Features
  PROVE  /\ f \notin Above(c, f)
         /\ f # g => f \in Above(c, g) \/ g \in Above(c, f)
         /\ g \in Above(c, f) => Above(c, g) \subseteq Above(c, f)
<1>1. \A h \in Features : Abs(c[h]) \in Int
  BY DEF Abs
<1>2. \A h \in Features : Position[h] \in Int
  BY PositionIs
<1>3. f # g => Position[f] # Position[g]
  BY PositionIs
<1>4. f \notin Above(c, f)
  BY <1>1, <1>2 DEF Above
<1>5. f # g => f \in Above(c, g) \/ g \in Above(c, f)
  BY <1>1, <1>2, <1>3 DEF Above
<1>6. ASSUME g \in Above(c, f), NEW h \in Above(c, g) PROVE h \in Above(c, f)
  BY <1>1, <1>2, <1>6 DEF Above
<1> QED BY <1>4, <1>5, <1>6

Rank(c, f) == Cardinality(Above(c, f))

LEMMA RankIs ==
  ASSUME NEW c \in [Features -> Int], NEW f \in Features
  PROVE  /\ Rank(c, f) \in 0..11
         /\ \A g \in Above(c, f) : Rank(c, g) < Rank(c, f)
<1>1. IsFiniteSet(Features \ {f}) /\ Cardinality(Features \ {f}) = 11
  BY TwelveFeatures, FS_RemoveElement
<1>2. Above(c, f) \subseteq Features \ {f}
  BY AboveIs DEF Above
<1>3. IsFiniteSet(Above(c, f)) /\ Cardinality(Above(c, f)) <= 11
  BY <1>1, <1>2, FS_Subset
<1>4. Cardinality(Above(c, f)) \in Nat
  BY <1>3, FS_CardinalityType
<1>5. ASSUME NEW g \in Above(c, f) PROVE Rank(c, g) < Rank(c, f)
  <2>1. g \in Features
    BY DEF Above
  <2>2. Above(c, g) \subseteq Above(c, f) /\ g \notin Above(c, g)
    BY <2>1, AboveIs
  <2>3. /\ IsFiniteSet(Above(c, g))
        /\ Cardinality(Above(c, g)) <= Cardinality(Above(c, f))
        /\ Cardinality(Above(c, f)) # Cardinality(Above(c, g))
    BY <1>3, <2>2, FS_Subset
  <2>4. Cardinality(Above(c, g)) \in Nat
    BY <2>3, FS_CardinalityType
  <2> QED BY <1>4, <2>3, <2>4 DEF Rank
<1> QED BY <1>3, <1>4, <1>5 DEF Rank

\* Eight features stay, and none of them weighs less than one that does not.
LEMMA LargestIs ==
  ASSUME NEW c \in Contributions \ {None, NotFinite}
  PROVE  /\ Largest[c] \subseteq Features /\ Cardinality(Largest[c]) = 8
         /\ \A f \in Largest[c], g \in Features \ Largest[c] : Abs(c[g]) <= Abs(c[f])
<1> DEFINE rank == [f \in Features |-> Rank(c, f)]
<1>1. c \in [Features -> Int]
  BY InferenceAssumption
<1>2. Largest[c] = {f \in Features : rank[f] < 8}
  BY DEF Largest, Rank, Above
<1>3. \A f \in Features : rank[f] \in 0..11 /\ \A g \in Above(c, f) : rank[g] < rank[f]
  <2>1. \A f \in Features : \A g \in Above(c, f) : g \in Features
    BY DEF Above
  <2> QED BY <1>1, <2>1, RankIs
<1>4. rank \in [Features -> 0..11]
  BY <1>3
<1> HIDE DEF rank
<1>5. ASSUME NEW f \in Features, NEW g \in Features, rank[f] = rank[g] PROVE f = g
  BY <1>1, <1>3, <1>5, AboveIs
<1>6. rank \in Injection(Features, 0..11)
  BY <1>4, <1>5, Fun_IsInj
<1>7. rank \in Surjection(Features, 0..11)
  BY <1>6, Intervals, TwelveFeatures, FS_Injection
<1>8. \A n \in 0..11 : \E f \in Features : rank[f] = n
  BY <1>7 DEF Surjection
<1>9. Cardinality(Largest[c]) = 8
  <2> DEFINE first == [f \in Largest[c] |-> rank[f]]
  <2>1. first \in [Largest[c] -> 0..7] /\ \A f \in Largest[c] : first[f] = rank[f]
    BY <1>2, <1>3
  <2> HIDE DEF first
  <2>2. \A f, g \in Largest[c] : first[f] = first[g] => f = g
    BY <1>2, <1>5, <2>1
  <2>3. ASSUME NEW n \in 0..7 PROVE \E f \in Largest[c] : first[f] = n
    <3>1. PICK f \in Features : rank[f] = n
      BY <1>8
    <3> QED BY <1>2, <2>1, <3>1
  <2>4. first \in Bijection(Largest[c], 0..7)
    BY <2>1, <2>2, <2>3, Fun_IsBij
  <2>5. IsFiniteSet(Largest[c])
    BY <1>2, TwelveFeatures, FS_Subset
  <2>6. Cardinality(0..7) = Cardinality(Largest[c])
    BY <2>4, <2>5, FS_Bijection DEF ExistsBijection
  <2> QED BY <2>6, Intervals
<1>10. ASSUME NEW f \in Largest[c], NEW g \in Features \ Largest[c]
       PROVE  Abs(c[g]) <= Abs(c[f])
  <2>1. rank[f] < 8 /\ ~ (rank[g] < 8) /\ f \in Features
    BY <1>2
  <2>2. g \notin Above(c, f)
    BY <1>3, <2>1
  <2>3. Abs(c[f]) \in Int /\ Abs(c[g]) \in Int
    BY <1>1, <2>1 DEF Abs
  <2> QED BY <2>2, <2>3 DEF Above
<1> QED BY <1>2, <1>9, <1>10

-----------------------------------------------------------------------------
(***************************************************************************)
(* The checks of the payload.                                              *)
(***************************************************************************)

\* No number within the bounds of features.py is beyond the scale of
\* preprocessing.py.
LEMMA ScaleIsBound ==
  ASSUME NEW f \in Features
  PROVE  Bound(f) \in Nat /\ (Scale[f] = None \/ Scale[f] = Bound(f))
<1>1. Scale[f] = CASE f \in Volatilities -> 1000
                   [] f = "debtToIncomeRatio" -> 500
                   [] f \in Counts -> 120
                   [] f \in Months -> 240
                   [] f = "incomeDeclarationAvailable" -> 1
                   [] OTHER -> None
  BY DEF Scale
<1>2. CASE f \in {"annualIncome", "existingDebtAmount", "monthlyIncomeMean",
                 "platformSettlementMean"}
  BY <1>1, <1>2 DEF Bound, Volatilities, Counts, Months
<1>3. CASE f \in Volatilities \cup {"debtToIncomeRatio", "incomeDeclarationAvailable"}
  BY <1>1, <1>3 DEF Bound, Volatilities, Counts, Months
<1>4. CASE f \in Counts \cup Months
  BY <1>1, <1>4 DEF Bound, Volatilities, Counts, Months
<1> QED BY <1>2, <1>3, <1>4, FeaturesAre DEF Volatilities, Counts, Months

\* _feature_value() lets NaN pass, and but for that a clean value and no other.
LEMMA ValueFaultIs ==
  ASSUME NEW f \in Features, NEW v \in [type : ValueTypes, num : Int],
         v.type \notin {"nan", "infinity"}
  PROVE  ValueFault(f, v) = None <=> CleanValue(f, v)
<1>1. OutOfRange(f, v) <=> ~ (v.num \in 0..Bound(f))
  BY ScaleIsBound DEF OutOfRange
<1>2. None \notin {"FEATURE_TYPE_INVALID", "FEATURE_VALUE_OUT_OF_RANGE", Raises}
  BY InferenceAssumption DEF FaultCodes
<1>3. ValueFault(f, v) = None <=>
        v.type \in AcceptedTypes(f) /\ v.type # "huge" /\ v.num \in 0..Bound(f)
  BY <1>1, <1>2 DEF ValueFault
<1>4. v.type \in AcceptedTypes(f) /\ v.type # "huge" <=>
        v.type \in (IF f = "incomeDeclarationAvailable" THEN {"bool"}
                   ELSE IF f \in IntegerFeatures THEN {"int"} ELSE {"int", "float"})
  BY DEF AcceptedTypes
<1> QED BY <1>3, <1>4 DEF CleanValue

\* A nonempty set of positions has a first one.
LEMMA FirstPosition ==
  ASSUME NEW S \in SUBSET (1..12), S # {}
  PROVE  \E k \in S : \A j \in S : k <= j
<1> DEFINE less == {p \in Nat \X Nat : p[1] < p[2]}
<1>1. \A j, k \in Nat : j < k => <<j, k>> \in less
  OBVIOUS
<1>2. less = OpToRel(<, Nat)
  BY DEF OpToRel
<1>3. IsWellFoundedOn(less, Nat)
  BY <1>2, NatLessThanWellFounded
<1> HIDE DEF less
<1>4. S \subseteq Nat
  OBVIOUS
<1>5. PICK k \in S : \A j \in S : ~ (<<j, k>> \in less)
  BY ONLY <1>3, <1>4, S # {}, WFMin, Zenon
<1>6. ASSUME NEW j \in S PROVE k <= j
  <2>1. j \in Nat /\ k \in Nat
    BY <1>4
  <2>2. ~ (j < k)
    BY <1>1, <1>5, <2>1, Zenon
  <2> QED BY <2>1, <2>2
<1> QED BY <1>6

\* The digest, which refuses NaN and Infinity, and the checks of the features
\* let every clean payload pass and no other.
LEMMA OnlyCleanPasses ==
  ASSUME NEW p \in Payloads
  PROVE  Digestible(p) /\ PrepareFault(p) = None <=> Clean(p)
<1> DEFINE faulty == {k \in DOMAIN FEATURE_ORDER :
                        ValueFault(FEATURE_ORDER[k], p[FEATURE_ORDER[k]]) # None}
           first == FEATURE_ORDER[CHOOSE k \in faulty : \A j \in faulty : k <= j]
<1>1. PrepareFault(p) = IF ~ DOMAIN p \subseteq Features THEN "FEATURE_UNKNOWN"
                        ELSE IF ~ Features \subseteq DOMAIN p THEN "FEATURE_REQUIRED_MISSING"
                        ELSE IF faulty = {} THEN None
                        ELSE ValueFault(first, p[first])
  BY DEF PrepareFault
<1>2. faulty # {} => ValueFault(first, p[first]) # None
  <2> SUFFICES ASSUME faulty # {} PROVE ValueFault(first, p[first]) # None
    OBVIOUS
  <2>1. faulty \in SUBSET (1..12)
    BY FeaturesAre
  <2>2. (CHOOSE k \in faulty : \A j \in faulty : k <= j) \in faulty
    <3> HIDE DEF faulty
    <3> QED BY <2>1, FirstPosition
  <2> QED BY <2>2
<1>3. faulty = {} <=> \A f \in Features : ValueFault(f, p[f]) = None
  BY DEF Features
<1> HIDE DEF faulty, first
<1>4. None \notin {"FEATURE_UNKNOWN", "FEATURE_REQUIRED_MISSING"}
  BY InferenceAssumption DEF FaultCodes
<1>5. PrepareFault(p) = None <=>
        DOMAIN p = Features /\ \A f \in Features : ValueFault(f, p[f]) = None
  BY <1>1, <1>2, <1>3, <1>4
<1>6. ASSUME DOMAIN p = Features, NEW f \in Features, p[f].type \notin {"nan", "infinity"}
      PROVE  ValueFault(f, p[f]) = None <=> CleanValue(f, p[f])
  BY <1>6, ValueFaultIs, InferenceAssumption
<1>7. Digestible(p) /\ PrepareFault(p) = None => Clean(p)
  BY <1>5, <1>6 DEF Digestible, Clean
<1>8. Clean(p) => Digestible(p)
  BY DEF Clean, CleanValue, Digestible
<1>9. Clean(p) => PrepareFault(p) = None
  BY <1>5, <1>6, <1>8 DEF Clean, Digestible
<1> QED BY <1>7, <1>8, <1>9

\* preprocess_feature_vector() clips no number of a clean payload.
LEMMA CleanIsUnclipped ==
  ASSUME NEW p \in Payloads, Clean(p)
  PROVE  Preprocess(p) = [f \in Features |-> p[f].num]
<1>1. ASSUME NEW f \in Features PROVE Clip(p[f].num, Scale[f]) = p[f].num
  BY ScaleIsBound DEF Clean, CleanValue, Clip
<1> QED BY <1>1 DEF Preprocess

-----------------------------------------------------------------------------
(***************************************************************************)
(* The lists of reasons.                                                   *)
(***************************************************************************)
Elements(s) == {s[k] : k \in DOMAIN s}

LEMMA ElementsAre ==
  ASSUME NEW S, NEW codes \in Seq(S)
  PROVE  /\ Elements(codes) \subseteq S /\ Len(codes) \in Nat
         /\ codes = <<>> => Elements(codes) = {}
         /\ Len(codes) = 0 => codes = <<>>
<1>1. DOMAIN codes = 1..Len(codes) /\ Len(codes) \in Nat
  BY LenProperties
<1>2. Elements(codes) \subseteq S
  BY <1>1 DEF Elements
<1>3. codes = <<>> => Elements(codes) = {}
  BY DEF Elements
<1> QED BY <1>1, <1>2, <1>3, EmptySeq

LEMMA AppendedIs ==
  ASSUME NEW S, NEW codes \in Seq(S), NEW code \in S, NEW applying, NEW list,
         code \in applying => list = Append(codes, code),
         code \notin applying => list = codes
  PROVE  /\ list \in Seq(S)
         /\ Len(list) = IF code \in applying THEN Len(codes) + 1 ELSE Len(codes)
         /\ Elements(list) = IF code \in applying THEN Elements(codes) \cup {code}
                             ELSE Elements(codes)
         /\ \A k \in 1..Len(codes) : list[k] = codes[k]
<1>1. DOMAIN codes = 1..Len(codes) /\ Len(codes) \in Nat
  BY LenProperties
<1>2. CASE code \in applying
  <2>1. list = Append(codes, code)
    BY <1>2
  <2>2. /\ list \in Seq(S) /\ Len(list) = Len(codes) + 1
        /\ \A k \in 1..Len(codes) : list[k] = codes[k]
        /\ list[Len(codes) + 1] = code
    BY ONLY <1>1, <2>1, codes \in Seq(S), code \in S, AppendProperties
  <2>3. DOMAIN list = 1..Len(codes) + 1
    BY <2>2, LenProperties
  <2>4. \A k : k \in DOMAIN list <=> k \in DOMAIN codes \/ k = Len(codes) + 1
    BY <1>1, <2>3
  <2>5. Elements(list) = Elements(codes) \cup {code}
    BY <1>1, <2>2, <2>4 DEF Elements
  <2> QED BY <1>2, <2>2, <2>5
<1>3. CASE code \notin applying
  BY <1>3
<1> QED BY <1>2, <1>3

LEMMA ApprovalReasonsAre ==
  ASSUME NEW p, NEW e
  PROVE  /\ ApprovalReasons(p, e) \in Seq({"LOW_DTI", "STABLE_INCOME"})
         /\ Len(ApprovalReasons(p, e)) \in 0..2
<1> DEFINE codes == {"LOW_DTI", "STABLE_INCOME"}
           dti == LowDti(p) /\ Supports(e, "debtToIncomeRatio")
           income == StableIncome(p) /\ Supports(e, "incomeDeclarationAvailable")
           first == Appended(<<>>, "LOW_DTI", dti)
<1>1. ApprovalReasons(p, e) = Appended(first, "STABLE_INCOME", income)
  BY DEF ApprovalReasons
<1>2. first \in Seq(codes) /\ Len(first) \in 0..1
  <2> HIDE DEF dti
  <2>1. CASE dti
    BY <2>1 DEF Appended
  <2>2. CASE ~ dti
    BY <2>2 DEF Appended
  <2> QED BY <2>1, <2>2
<1> HIDE DEF first, income
<1>3. CASE income
  BY <1>1, <1>2, <1>3 DEF Appended
<1>4. CASE ~ income
  BY <1>1, <1>2, <1>4 DEF Appended
<1> QED BY <1>3, <1>4

\* What the cut to three costs is at most the last code of the four.
LEMMA DeclineListIs ==
  ASSUME NEW applying
  PROVE  /\ DeclineList(applying) \in Seq(DOMAIN About)
         /\ Len(DeclineList(applying)) \in 0..3
         /\ \A code \in DOMAIN About \cap applying :
              \/ code \in Elements(DeclineList(applying))
              \/ code = "VOLATILE_SETTLEMENTS" /\ Len(DeclineList(applying)) = 3
<1> DEFINE none == <<>>
           dti == Appended(none, "HIGH_DTI", "HIGH_DTI" \in applying)
           late == Appended(dti, "RECENT_DELINQUENCY", "RECENT_DELINQUENCY" \in applying)
           young == Appended(late, "INSUFFICIENT_HISTORY", "INSUFFICIENT_HISTORY" \in applying)
           all == Appended(young, "VOLATILE_SETTLEMENTS", "VOLATILE_SETTLEMENTS" \in applying)
           codes == {"HIGH_DTI", "RECENT_DELINQUENCY", "INSUFFICIENT_HISTORY",
                     "VOLATILE_SETTLEMENTS"}
<1>1. DOMAIN About = codes
  BY DEF About
<1>2. DeclineList(applying) = IF Len(all) > 3 THEN SubSeq(all, 1, 3) ELSE all
  BY DEF DeclineList
<1>3. none \in Seq(codes)
  OBVIOUS
<1>empty. Len(none) = 0 /\ Elements(none) = {}
  BY EmptySeq DEF Elements
<1> HIDE DEF none
<1>4. /\ dti \in Seq(codes)
      /\ Len(dti) = IF "HIGH_DTI" \in applying THEN Len(none) + 1 ELSE Len(none)
      /\ Elements(dti) = IF "HIGH_DTI" \in applying THEN Elements(none) \cup {"HIGH_DTI"}
                         ELSE Elements(none)
  <2>1. "HIGH_DTI" \in applying => dti = Append(none, "HIGH_DTI")
    BY DEF Appended
  <2>2. "HIGH_DTI" \notin applying => dti = none
    BY DEF Appended
  <2>3. "HIGH_DTI" \in codes
    OBVIOUS
  <2> HIDE DEF dti, codes
  <2> QED BY <1>3, <2>1, <2>2, <2>3, AppendedIs
<1> HIDE DEF dti
<1>5. /\ late \in Seq(codes)
      /\ Len(late) = IF "RECENT_DELINQUENCY" \in applying THEN Len(dti) + 1 ELSE Len(dti)
      /\ Elements(late) = IF "RECENT_DELINQUENCY" \in applying
                          THEN Elements(dti) \cup {"RECENT_DELINQUENCY"} ELSE Elements(dti)
  <2>1. "RECENT_DELINQUENCY" \in applying => late = Append(dti, "RECENT_DELINQUENCY")
    BY DEF Appended
  <2>2. "RECENT_DELINQUENCY" \notin applying => late = dti
    BY DEF Appended
  <2>3. "RECENT_DELINQUENCY" \in codes
    OBVIOUS
  <2> HIDE DEF late, codes
  <2> QED BY <1>4, <2>1, <2>2, <2>3, AppendedIs
<1> HIDE DEF late
<1>6. /\ young \in Seq(codes)
      /\ Len(young) = IF "INSUFFICIENT_HISTORY" \in applying THEN Len(late) + 1 ELSE Len(late)
      /\ Elements(young) = IF "INSUFFICIENT_HISTORY" \in applying
                           THEN Elements(late) \cup {"INSUFFICIENT_HISTORY"} ELSE Elements(late)
  <2>1. "INSUFFICIENT_HISTORY" \in applying => young = Append(late, "INSUFFICIENT_HISTORY")
    BY DEF Appended
  <2>2. "INSUFFICIENT_HISTORY" \notin applying => young = late
    BY DEF Appended
  <2>3. "INSUFFICIENT_HISTORY" \in codes
    OBVIOUS
  <2> HIDE DEF young, codes
  <2> QED BY <1>5, <2>1, <2>2, <2>3, AppendedIs
<1> HIDE DEF young
<1>7. /\ all \in Seq(codes)
      /\ Len(all) = IF "VOLATILE_SETTLEMENTS" \in applying THEN Len(young) + 1 ELSE Len(young)
      /\ Elements(all) = IF "VOLATILE_SETTLEMENTS" \in applying
                         THEN Elements(young) \cup {"VOLATILE_SETTLEMENTS"} ELSE Elements(young)
      /\ \A k \in 1..Len(young) : all[k] = young[k]
  <2>1. "VOLATILE_SETTLEMENTS" \in applying => all = Append(young, "VOLATILE_SETTLEMENTS")
    BY DEF Appended
  <2>2. "VOLATILE_SETTLEMENTS" \notin applying => all = young
    BY DEF Appended
  <2>3. "VOLATILE_SETTLEMENTS" \in codes
    OBVIOUS
  <2> HIDE DEF all, codes
  <2> QED BY <1>6, <2>1, <2>2, <2>3, AppendedIs
<1> HIDE DEF all
<1>8. \A code \in codes \cap applying : code = "VOLATILE_SETTLEMENTS" \/ code \in Elements(young)
  BY <1>4, <1>5, <1>6
<1>9. Len(young) \in 0..3
  BY <1>empty, <1>4, <1>5, <1>6
<1>10. CASE Len(all) > 3
  <2> DEFINE cut == SubSeq(all, 1, 3)
  <2>1. Len(young) = 3 /\ Len(all) = 4
    BY <1>7, <1>9, <1>10
  <2>2. cut \in Seq(codes) /\ Len(cut) = 3 /\ \A k \in 1..3 : cut[k] = all[k]
    BY <1>7, <2>1
  <2> HIDE DEF cut
  <2>3. DOMAIN cut = 1..3 /\ DOMAIN young = 1..3
    BY <1>6, <2>1, <2>2, LenProperties
  <2>4. Elements(cut) = Elements(young)
    BY <1>7, <2>1, <2>2, <2>3 DEF Elements
  <2>5. DeclineList(applying) = cut
    BY <1>2, <1>10 DEF cut
  <2> QED BY <1>1, <1>8, <2>2, <2>4, <2>5
<1>11. CASE ~ (Len(all) > 3)
  <2>1. DeclineList(applying) = all /\ Len(all) \in 0..3
    BY <1>2, <1>7, <1>9, <1>11
  <2> QED BY <1>1, <1>7, <1>8, <2>1
<1> QED BY <1>10, <1>11

\* What reason_codes() can return.
LEMMA ReasonCodesAre ==
  ASSUME NEW p, NEW s, NEW e
  PROVE  LET codes == ReasonCodes(p, s, e)
         IN /\ Len(codes) \in 0..3
            /\ Elements(codes) \subseteq
                 (IF s >= Threshold THEN {"LOW_DTI", "STABLE_INCOME"} ELSE DOMAIN About)
            /\ Len(codes) = 0 => codes = <<>>
<1> DEFINE applying == {code \in DOMAIN About :
                          \E f \in About[code] : ThresholdHit(p, f) \/ Opposes(e, f)}
<1>1. ReasonCodes(p, s, e) =
        IF s >= Threshold THEN ApprovalReasons(p, e) ELSE DeclineList(applying)
  BY DEF ReasonCodes, DeclineReasons
<1> HIDE DEF applying
<1>2. CASE s >= Threshold
  BY <1>1, <1>2, ApprovalReasonsAre, ElementsAre
<1>3. CASE ~ (s >= Threshold)
  BY <1>1, <1>3, DeclineListIs, ElementsAre
<1> QED BY <1>2, <1>3

-----------------------------------------------------------------------------
(***************************************************************************)
(* The steps.                                                              *)
(***************************************************************************)
LEMMA Initial == Init => IInv
  BY InferenceAssumption DEF Init, IInv, VectorOK, Scored, ScoreOK, ExplanationOK, EndOK

LEMMA IdentifyKeepsInv == IInv /\ Identify => IInv'
<1> SUFFICES ASSUME IInv, Identify PROVE IInv'
  OBVIOUS
<1>1. "FEATURE_TYPE_INVALID" # None
  BY InferenceAssumption DEF FaultCodes
<1>2. ~ Digestible(payload) => ~ Clean(payload)
  BY OnlyCleanPasses DEF IInv
<1>3. VectorOK'
  BY <1>1, <1>2 DEF Identify, Fail, IInv, VectorOK, Scored
<1>4. ScoreOK'
  BY DEF Identify, Fail, IInv, ScoreOK, ExplanationOK
<1>5. ExplanationOK'
  BY DEF Identify, Fail, IInv, ExplanationOK
<1>6. EndOK'
  BY <1>1 DEF Identify, Fail, IInv, ExplanationOK, EndOK
<1> QED BY <1>3, <1>4, <1>5, <1>6 DEF Identify, Fail, IInv

LEMMA PrepareKeepsInv == IInv /\ Prepare => IInv'
<1> SUFFICES ASSUME IInv, Prepare PROVE IInv'
  OBVIOUS
<1>1. PrepareFault(payload) = None <=> Clean(payload)
  BY OnlyCleanPasses DEF IInv, VectorOK, Prepare
<1>2. PrepareFault(payload) = None =>
        vector' = [f \in Features |-> payload[f].num]
  BY <1>1, CleanIsUnclipped DEF IInv, Prepare
<1>3. Clean(payload) => [f \in Features |-> payload[f].num] # None
  <2> SUFFICES ASSUME Clean(payload) PROVE [f \in Features |-> payload[f].num] # None
    OBVIOUS
  <2>1. \A f \in Features : payload[f].num \in Int
    BY InferenceAssumption DEF Clean, IInv
  <2>2. [f \in Features |-> payload[f].num] \in [Features -> Int]
    BY <2>1
  <2>3. None \notin [Features -> Int]
    BY InferenceAssumption
  <2> QED BY <2>2, <2>3
<1>4. CASE PrepareFault(payload) = None
  <2>1. stage' = "prepared" /\ fault' = fault
    BY <1>4 DEF Prepare
  <2>2. VectorOK'
    BY <1>1, <1>2, <1>3, <1>4, <2>1 DEF Prepare, VectorOK, Scored
  <2> QED
    BY <2>1, <2>2 DEF Prepare, IInv, ScoreOK, ExplanationOK, EndOK
<1>5. CASE PrepareFault(payload) # None
  <2>1. stage' = "ended" /\ fault' = PrepareFault(payload) /\ vector' = vector
    BY <1>5 DEF Prepare, Fail
  <2>2. VectorOK'
    BY <1>1, <1>5, <2>1 DEF Prepare, IInv, VectorOK, Scored
  <2> QED
    BY <1>5, <2>1, <2>2 DEF Prepare, IInv, ScoreOK, ExplanationOK, EndOK
<1> QED BY <1>4, <1>5

\* round(score, 6) has six decimals.
LEMMA RoundedIs ==
  ASSUME NEW raw \in Int
  PROVE  Rounded(raw) \in Int /\ Rounded(raw) % 10 = 0
  BY DEF Rounded

LEMMA PredictKeepsInv == IInv /\ Predict => IInv'
<1> SUFFICES ASSUME IInv, Predict PROVE IInv'
  OBVIOUS
<1>1. PICK raw \in RawScores :
        IF raw = None THEN Fail("AGENT_RUNTIME_TEMPORARY_FAILURE") /\ UNCHANGED score
        ELSE stage' = "predicted" /\ score' = Rounded(raw) /\ UNCHANGED fault
  BY DEF Predict
<1>2. CASE raw = None
  <2>1. "AGENT_RUNTIME_TEMPORARY_FAILURE" # None
    BY InferenceAssumption DEF FaultCodes
  <2>2. stage' = "ended" /\ fault' = "AGENT_RUNTIME_TEMPORARY_FAILURE" /\ score' = score
    BY <1>1, <1>2 DEF Fail
  <2> QED
    BY <2>1, <2>2 DEF Predict, IInv, VectorOK, Scored, ScoreOK, ExplanationOK, EndOK
<1>3. CASE raw # None
  <2>1. stage' = "predicted" /\ fault' = fault
    BY <1>1, <1>3
  <2>2. score' \in Int /\ score' % 10 = 0 /\ score' # None
    BY <1>1, <1>3, RoundedIs, InferenceAssumption
  <2> QED
    BY <2>1, <2>2 DEF Predict, IInv, VectorOK, Scored, ScoreOK, ExplanationOK, EndOK
<1> QED BY <1>2, <1>3

LEMMA ExplainKeepsInv == IInv /\ Explain => IInv'
<1> SUFFICES ASSUME IInv, Explain PROVE IInv'
  OBVIOUS
<1>1. PICK c \in Contributions :
        \/ Fail("SHAP_CALCULATION_FAILED") /\ UNCHANGED <<row, explanation>>
        \/ Fail(Raises) /\ UNCHANGED <<row, explanation>>
        \/ /\ c \notin {None, NotFinite}
           /\ stage' = "explained"
           /\ row' = c
           /\ explanation' = [f \in Largest[c] |-> c[f]]
           /\ UNCHANGED fault
  BY DEF Explain
<1>2. ASSUME NEW code \in {"SHAP_CALCULATION_FAILED", Raises},
             Fail(code), UNCHANGED <<row, explanation>>
      PROVE  IInv'
  <2>1. code # None
    BY InferenceAssumption DEF FaultCodes
  <2>2. stage' = "ended" /\ fault' = code /\ row' = row /\ explanation' = explanation
    BY <1>2 DEF Fail
  <2> QED
    BY <2>1, <2>2 DEF Explain, IInv, VectorOK, Scored, ScoreOK, ExplanationOK, EndOK
<1>3. CASE /\ c \notin {None, NotFinite}
           /\ stage' = "explained"
           /\ row' = c
           /\ explanation' = [f \in Largest[c] |-> c[f]]
           /\ UNCHANGED fault
  <2>1. /\ stage' = "explained" /\ fault' = fault /\ row' = c
        /\ row' \in Contributions \ {None, NotFinite}
    BY <1>3
  <2>2. explanation' = [f \in Largest[row'] |-> (row')[f]]
    BY <1>3
  <2>3. explanation' # None
    <3>1. Largest[c] \subseteq Features /\ c \in [Features -> Int]
      BY <1>3, LargestIs, InferenceAssumption
    <3>2. explanation' \in [Largest[c] -> Int]
      BY <2>1, <2>2, <3>1
    <3> QED BY <3>1, <3>2, InferenceAssumption
  <2>4. ExplanationOK'
    BY <2>1, <2>2, <2>3 DEF Explain, IInv, VectorOK, Scored, ExplanationOK
  <2> QED
    BY <2>1, <2>3, <2>4 DEF Explain, IInv, VectorOK, Scored, ScoreOK, EndOK
<1> QED BY <1>1, <1>2, <1>3

LEMMA DecideKeepsInv == IInv /\ Decide => IInv'
<1> SUFFICES ASSUME IInv, Decide PROVE IInv'
  OBVIOUS
<1> DEFINE codes == ReasonCodes(payload, score, explanation)
<1>1. "CONTRACT_VALIDATION_FAILED" # None
  BY InferenceAssumption DEF FaultCodes
<1>2. stage = "explained" /\ stage' = "ended"
  BY DEF Decide, Fail
<1>3. UNCHANGED <<payload, vector, score, row, explanation>>
  BY DEF Decide
<1>4. codes' = codes
  BY <1>3 DEF ReasonCodes, ApprovalReasons, DeclineReasons, LowDti, StableIncome, Supports,
              Opposes, ThresholdHit
<1>5. VectorOK' /\ ScoreOK' /\ ExplanationOK'
  BY <1>2, <1>3 DEF IInv, VectorOK, Scored, ScoreOK, ExplanationOK
<1>6. IF codes = <<>>
      THEN /\ fault' = "CONTRACT_VALIDATION_FAILED"
           /\ outcome' = outcome /\ reasons' = reasons
      ELSE /\ outcome' = IF score >= Threshold THEN "RECOMMEND_APPROVAL"
                                               ELSE "RECOMMEND_DECLINE"
           /\ reasons' = codes /\ fault' = fault
  BY DEF Decide, Fail
<1> HIDE DEF codes
<1>7. EndOK'
  <2>1. fault = None /\ outcome = None /\ reasons = <<>> /\ explanation # None
    BY <1>2 DEF IInv, EndOK, ExplanationOK
  <2>2. fault' # None => outcome' = None
    BY <1>1, <1>6, <2>1
  <2>3. IF codes' = <<>> THEN fault' # None /\ reasons' = <<>>
        ELSE /\ fault' = None /\ reasons' = codes'
             /\ outcome' = IF score' >= Threshold THEN "RECOMMEND_APPROVAL"
                                                  ELSE "RECOMMEND_DECLINE"
    BY <1>1, <1>3, <1>4, <1>6, <2>1
  <2> QED BY <1>2, <1>3, <2>1, <2>2, <2>3 DEF EndOK, codes
<1> QED BY <1>2, <1>3, <1>5, <1>7 DEF IInv

LEMMA Invariance == Spec => []IInv
<1>1. IInv /\ [Next]_vars => IInv'
  <2> SUFFICES ASSUME IInv, [Next]_vars PROVE IInv'
    OBVIOUS
  <2>1. CASE Identify
    BY <2>1, IdentifyKeepsInv
  <2>2. CASE Prepare
    BY <2>2, PrepareKeepsInv
  <2>3. CASE Predict
    BY <2>3, PredictKeepsInv
  <2>4. CASE Explain
    BY <2>4, ExplainKeepsInv
  <2>5. CASE Decide
    BY <2>5, DecideKeepsInv
  <2>6. CASE UNCHANGED vars
    BY <2>6 DEF vars, IInv, VectorOK, Scored, ScoreOK, ExplanationOK, EndOK, ReasonCodes,
                ApprovalReasons, DeclineReasons, LowDti, StableIncome, Supports, Opposes,
                ThresholdHit, Clean, CleanValue, Digestible
  <2> QED BY <2>1, <2>2, <2>3, <2>4, <2>5, <2>6 DEF Next, Terminating
<1> QED BY <1>1, Initial, PTL DEF Spec

-----------------------------------------------------------------------------
(***************************************************************************)
(* The theorems.                                                           *)
(***************************************************************************)

\* Whatever a request carries and the model answers, the explanation is the
\* eight heaviest of the twelve contributions, the published score has six
\* decimals, and an execution ends with one to three reasons or with a fault.
THEOREM InferenceTypeCorrect == Spec => []TypeOK
<1>1. IInv => TypeOK
  <2> SUFFICES ASSUME IInv PROVE TypeOK
    OBVIOUS
  <2>1. vector # None => vector \in [Features -> Nat]
    <3>1. ASSUME Clean(payload), NEW f \in Features PROVE payload[f].num \in Nat
      BY <3>1, ScaleIsBound DEF Clean, CleanValue
    <3> QED BY <3>1 DEF IInv, VectorOK
  <2>2. explanation # None =>
          /\ DOMAIN explanation \subseteq Features /\ Cardinality(DOMAIN explanation) = 8
          /\ \A f \in DOMAIN explanation, g \in Features \ DOMAIN explanation :
               Abs(row[g]) <= Abs(explanation[f])
    <3> SUFFICES ASSUME explanation # None
                 PROVE  /\ DOMAIN explanation \subseteq Features
                        /\ Cardinality(DOMAIN explanation) = 8
                        /\ \A f \in DOMAIN explanation, g \in Features \ DOMAIN explanation :
                             Abs(row[g]) <= Abs(explanation[f])
      OBVIOUS
    <3>1. row \in Contributions \ {None, NotFinite} /\ explanation = [f \in Largest[row] |-> row[f]]
      BY DEF IInv, ExplanationOK
    <3>2. /\ DOMAIN explanation = Largest[row]
          /\ \A f \in DOMAIN explanation : explanation[f] = row[f]
      BY <3>1
    <3> QED BY <3>1, <3>2, LargestIs
  <2>3. fault # None => stage = "ended" /\ outcome = None
    BY DEF IInv, EndOK
  <2>4. stage = "ended" => fault # None \/ Len(reasons) \in 1..3
    <3> SUFFICES ASSUME stage = "ended", fault = None PROVE Len(reasons) \in 1..3
      OBVIOUS
    <3>1. /\ reasons = ReasonCodes(payload, score, explanation)
          /\ reasons # <<>>
      BY DEF IInv, EndOK
    <3> QED BY <3>1, ReasonCodesAre
  <2> QED BY <2>1, <2>2, <2>3, <2>4 DEF TypeOK, IInv, ScoreOK
<1> QED BY <1>1, Invariance, PTL

\* The digest, the type checks, the bounds and the scales together let the model
\* see clean payloads and nothing else, undistorted; no clean payload is refused.
THEOREM OnlyCleanIsScoredHolds == Spec => []OnlyCleanIsScored
<1>1. IInv => OnlyCleanIsScored
  BY DEF IInv, VectorOK, Scored, OnlyCleanIsScored
<1> QED BY <1>1, Invariance, PTL

\* The outcome of result_builder.py and the reasons of proposal_reason_policy.py
\* agree about the published score, wherever the threshold lies.
THEOREM ReasonsFitOutcomeHolds == Spec => []ReasonsFitOutcome
<1>1. IInv => ReasonsFitOutcome
  <2> SUFFICES ASSUME IInv, stage = "ended", fault = None
               PROVE  /\ outcome = "RECOMMEND_APPROVAL" <=> score >= Threshold
                      /\ Reported \subseteq (IF outcome = "RECOMMEND_APPROVAL"
                                             THEN {"LOW_DTI", "STABLE_INCOME"}
                                             ELSE DOMAIN About)
    BY DEF ReasonsFitOutcome
  <2>1. /\ reasons = ReasonCodes(payload, score, explanation)
        /\ outcome = IF score >= Threshold THEN "RECOMMEND_APPROVAL" ELSE "RECOMMEND_DECLINE"
    BY DEF IInv, EndOK
  <2>2. Reported = Elements(reasons)
    BY DEF Reported, Elements
  <2> QED BY <2>1, <2>2, ReasonCodesAre
<1> QED BY <1>1, Invariance, PTL

\* Every adverse fact about an applicant below the threshold is reported, for any
\* contributions: the cut to eight hides none, the cap of three at most the
\* volatile settlements.
THEOREM AdverseFactsReportedHolds == Spec => []AdverseFactsReported
<1>1. IInv => AdverseFactsReported
  <2> SUFFICES ASSUME IInv, stage = "ended", explanation # None, score < Threshold,
                      NEW code \in DOMAIN About, Fact(payload, code)
               PROVE  \/ code \in Reported
                      \/ code = "VOLATILE_SETTLEMENTS" /\ Len(reasons) = 3
    BY DEF AdverseFactsReported
  <2> DEFINE applying == {c \in DOMAIN About : \E f \in About[c] :
                            ThresholdHit(payload, f) \/ Opposes(explanation, f)}
  <2>1. score \in Int /\ Threshold \in Int
    BY InferenceAssumption DEF IInv, ScoreOK
  <2>2. ReasonCodes(payload, score, explanation) = DeclineList(applying)
    BY <2>1 DEF ReasonCodes, DeclineReasons
  <2>3. code \in applying
    BY DEF Fact
  <2> HIDE DEF applying
  <2>4. reasons = DeclineList(applying)
    BY <2>2 DEF IInv, EndOK
  <2>5. Reported = Elements(DeclineList(applying))
    BY <2>4 DEF Reported, Elements
  <2> QED BY <2>3, <2>4, <2>5, DeclineListIs
<1> QED BY <1>1, Invariance, PTL

=============================================================================
