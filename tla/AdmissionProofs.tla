--------------------------- MODULE AdmissionProofs --------------------------
(***************************************************************************)
(* What a request sees of its configuration and what the guardrail admits, *)
(* for every set of requests, replicas, rules, budgets and prices: every   *)
(* admitted completion had room in its blocking budgets, every decision is *)
(* made on one pricing table that was active while it read the catalog, and*)
(* copies of rules and budgets differ from their tables for a named cause. *)
(*                                                                         *)
(* First, what the operators of Governance and Guardrail compute, whatever *)
(* the rules, the models and the prices: the head of a ranking is the best *)
(* candidate that is left, a decision prices the model it chose with the   *)
(* table it names, and what was spent grows with the events that count.    *)
(***************************************************************************)
EXTENDS Admission, FiniteSetTheorems, TLAPS

-----------------------------------------------------------------------------
(* Least and minimal elements.                                              *)

(* A set of natural numbers that is not empty has a least one.              *)
LEMMA LeastNumber ==
  ASSUME NEW T \in SUBSET Nat, T # {}
  PROVE  \E n \in T : \A m \in T : n <= m
  <1>1. PICK n \in T : \A m \in T : << m, n >> \notin OpToRel(<, Nat)
    BY NatLessThanWellFounded, WFMin, Zenon
  <1>2. \A m \in T : ~(m < n)
    BY <1>1, Zenon DEF OpToRel
  <1>3. QED
    BY <1>2

(* A strict order on a finite set that is not empty has a minimal element:  *)
(* one with the fewest elements below it has none.                          *)
LEMMA MinimalExists ==
  ASSUME NEW S, IsFiniteSet(S), S # {}, NEW R,
         \A x \in S : << x, x >> \notin R,
         \A x, y, z \in S : << x, y >> \in R /\ << y, z >> \in R => << x, z >> \in R
  PROVE  \E x \in S : \A y \in S : << y, x >> \notin R
  <1> DEFINE below(x) == {y \in S : << y, x >> \in R}
  <1>1. \A x \in S : IsFiniteSet(below(x)) /\ Cardinality(below(x)) \in Nat
    <2>1. \A x \in S : below(x) \subseteq S
      OBVIOUS
    <2>2. QED
      BY <2>1, FS_Subset, FS_CardinalityType
  <1> HIDE DEF below
  <1> DEFINE T == {Cardinality(below(x)) : x \in S}
  <1>2. T \in SUBSET Nat /\ T # {}
    BY <1>1
  <1> HIDE DEF T
  <1>3. PICK n \in T : \A m \in T : n <= m
    BY <1>2, LeastNumber
  <1>4. PICK x \in S : n = Cardinality(below(x))
    BY <1>3 DEF T
  <1>5. ASSUME NEW y \in S, << y, x >> \in R
        PROVE  FALSE
    <2>1. below(y) \subseteq below(x) /\ y \in below(x) /\ y \notin below(y)
      BY <1>5 DEF below
    <2>2. Cardinality(below(y)) < Cardinality(below(x))
      BY <1>1, <2>1, FS_Subset
    <2>3. Cardinality(below(y)) \in T
      BY DEF T
    <2>4. QED
      BY <1>1, <1>3, <1>4, <2>2, <2>3
  <1>6. QED
    BY <1>5

-----------------------------------------------------------------------------
(* Sorting.                                                                 *)

(* Positions under a strict weak order: some position has none before it,   *)
(* neither by the order nor, among its equals, by being earlier.            *)
LEMMA HeadExists ==
  ASSUME NEW D \in SUBSET Int, IsFiniteSet(D), D # {}, NEW B,
         \A x \in D : << x, x >> \notin B,
         \A x, y, z \in D : << x, y >> \in B /\ << y, z >> \in B => << x, z >> \in B,
         \A x, y, z \in D : << x, z >> \in B => << x, y >> \in B \/ << y, z >> \in B
  PROVE  \E i \in D : \A j \in D :
           << j, i >> \notin B /\ ~(j < i /\ << i, j >> \notin B)
  <1> DEFINE Ahead(j, i) == << j, i >> \in B \/ (j < i /\ << i, j >> \notin B)
             R == {ji \in D \X D : Ahead(ji[1], ji[2])}
  <1>1. \A j, i \in D : << j, i >> \in R <=> Ahead(j, i)
    OBVIOUS
  <1>2. ASSUME NEW x \in D
        PROVE  ~Ahead(x, x)
    <2>1. ~(x < x)
      OBVIOUS
    <2>2. QED
      BY <2>1
  <1>3. ASSUME NEW x \in D, NEW y \in D, NEW z \in D, Ahead(x, y), Ahead(y, z)
        PROVE  Ahead(x, z)
    BY <1>3
  <1> HIDE DEF R, Ahead
  <1>4. \A x \in D : << x, x >> \notin R
    BY <1>1, <1>2
  <1>5. \A x, y, z \in D : << x, y >> \in R /\ << y, z >> \in R => << x, z >> \in R
    BY <1>1, <1>3
  <1>6. PICK i \in D : \A j \in D : << j, i >> \notin R
    BY <1>4, <1>5, MinimalExists
  <1>7. QED
    BY <1>1, <1>6 DEF Ahead

(* What a candidate of a ranking is, as far as its place goes.              *)
IsCandidate(c) ==
  /\ c.included \in BOOLEAN
  /\ c.providerId \in Int /\ c.modelId \in Int /\ c.total \in Int

(* RanksBefore is a strict weak order on candidates.                        *)
LEMMA RanksBeforeIsAnOrder ==
  ASSUME NEW x, NEW y, NEW z, IsCandidate(x), IsCandidate(y), IsCandidate(z)
  PROVE  /\ ~RanksBefore(x, x)
         /\ RanksBefore(x, y) /\ RanksBefore(y, z) => RanksBefore(x, z)
         /\ RanksBefore(x, z) => RanksBefore(x, y) \/ RanksBefore(y, z)
  BY DEF RanksBefore, IsCandidate

(* The first of a sorted ranking is one of its candidates, and none ranks   *)
(* before it (decide.ts: decideRoute's sort).                               *)
LEMMA HeadOfRanking ==
  ASSUME NEW s, DOMAIN s \in SUBSET Int, IsFiniteSet(DOMAIN s), DOMAIN s # {},
         \A i \in DOMAIN s : IsCandidate(s[i])
  PROVE  \E i \in DOMAIN s :
           /\ Sorted(s, RanksBefore)[1] = s[i]
           /\ \A j \in DOMAIN s : ~RanksBefore(s[j], s[i])
  <1> DEFINE D == DOMAIN s
             B == {ji \in D \X D : RanksBefore(s[ji[1]], s[ji[2]])}
             ahead(i) == { j \in D :
               RanksBefore(s[j], s[i]) \/ (j < i /\ ~RanksBefore(s[i], s[j])) }
             head == CHOOSE i \in D : Cardinality(ahead(i)) = 0
  <1>1. \A j, i \in D : << j, i >> \in B <=> RanksBefore(s[j], s[i])
    OBVIOUS
  <1>2. Sorted(s, RanksBefore)[1] = s[head]
    <2>1. Cardinality(D) \in Nat /\ Cardinality(D) # 0
      BY FS_CardinalityType, FS_EmptySet
    <2>2. 1 \in 1..Cardinality(D)
      BY <2>1
    <2>3. 1 - 1 = 0
      OBVIOUS
    <2>4. QED
      BY <2>2, <2>3 DEF Sorted
  <1> HIDE DEF B
  <1>3. PICK i0 \in D : \A j \in D :
          << j, i0 >> \notin B /\ ~(j < i0 /\ << i0, j >> \notin B)
    <2>1. \A x \in D : << x, x >> \notin B
      BY <1>1, RanksBeforeIsAnOrder
    <2>2. \A x, y, z \in D : << x, y >> \in B /\ << y, z >> \in B => << x, z >> \in B
      BY <1>1, RanksBeforeIsAnOrder
    <2>3. \A x, y, z \in D : << x, z >> \in B => << x, y >> \in B \/ << y, z >> \in B
      BY <1>1, RanksBeforeIsAnOrder
    <2>4. QED
      BY <2>1, <2>2, <2>3, HeadExists
  <1>4. ahead(i0) = {}
    BY <1>1, <1>3
  <1>5. \E i \in D : Cardinality(ahead(i)) = 0
    BY <1>4, FS_EmptySet
  <1>6. head \in D /\ Cardinality(ahead(head)) = 0
    BY <1>5
  <1>7. ahead(head) = {}
    <2>1. ahead(head) \subseteq D
      OBVIOUS
    <2>2. IsFiniteSet(ahead(head))
      BY <2>1, FS_Subset
    <2>3. QED
      BY <1>6, <2>2, FS_EmptySet
  <1>8. \A j \in D : ~RanksBefore(s[j], s[head])
    BY <1>7
  <1> HIDE DEF head, ahead
  <1>9. QED
    BY <1>2, <1>6, <1>8

-----------------------------------------------------------------------------
(* Costs and scores.                                                        *)

(* Every entry of the table is a price.                                     *)
IsTable(table) == \A e \in table.entries : IsPrice(e)

(* A model the table prices costs a natural number of millionths.           *)
LEMMA CostOfPriced ==
  ASSUME NEW request, request.estimatedInputTokens \in Nat,
         NEW table, IsTable(table), NEW model, Prices(table, model) # {}
  PROVE  RequestCost(request, table, model) \in Nat
  <1> DEFINE tokens == request.estimatedInputTokens
             entry == CHOOSE e \in Prices(table, model) : TRUE
  <1>1. entry.unitIn \in Nat /\ entry.unitOut \in Nat
    BY DEF Prices, IsTable, IsPrice
  <1>2. OutputTokens(tokens) \in Nat
    <2>1. tokens \div 4 \in Nat
      OBVIOUS
    <2>2. QED
      BY <2>1 DEF OutputTokens, Larger
  <1> HIDE DEF entry
  <1>3. \A a, b, c, d \in Nat : (a * b + c * d + 500) \div 1000 \in Nat
    <2>1. \A a, b \in Nat : a * b \in Nat
      OBVIOUS
    <2>2. \A x \in Nat : (x + 500) \div 1000 \in Nat
      OBVIOUS
    <2>3. QED
      BY <2>1, <2>2
  <1>4. RoundToUsd6(tokens * entry.unitIn + OutputTokens(tokens) * entry.unitOut) \in Nat
    BY <1>1, <1>2, <1>3 DEF RoundToUsd6
  <1>5. QED
    BY <1>4 DEF RequestCost, EstimateCostUsd, entry

(* The cost of a model depends on its identity alone.                       *)
LEMMA CostByIdentity ==
  ASSUME NEW request, NEW table, NEW a, NEW b,
         a.providerId = b.providerId, a.modelId = b.modelId
  PROVE  RequestCost(request, table, a) = RequestCost(request, table, b)
  <1>1. Prices(table, a) = Prices(table, b)
    BY DEF Prices
  <1>2. QED
    BY <1>1 DEF RequestCost, EstimateCostUsd

(* A finite set of costs that is not empty has extremes.                    *)
LEMMA ExtremesExist ==
  ASSUME NEW costs \in SUBSET Nat, IsFiniteSet(costs), costs # {}
  PROVE  LET minCost == CHOOSE c \in costs : \A d \in costs : c <= d
             maxCost == CHOOSE c \in costs : \A d \in costs : c >= d
         IN  /\ minCost \in costs /\ maxCost \in costs
             /\ \A c \in costs : minCost <= c /\ c <= maxCost
  <1>1. \E c \in costs : \A d \in costs : c <= d
    BY LeastNumber
  <1> DEFINE R == {cd \in costs \X costs : cd[1] > cd[2]}
  <1>2. \A c, d \in costs : << c, d >> \in R <=> c > d
    OBVIOUS
  <1>3. /\ \A c \in costs : ~(c > c)
        /\ \A c, d, e \in costs : c > d /\ d > e => c > e
    OBVIOUS
  <1> HIDE DEF R
  <1>4. PICK c \in costs : \A d \in costs : << d, c >> \notin R
    BY <1>2, <1>3, MinimalExists
  <1>5. ASSUME NEW d \in costs
        PROVE  c >= d
    <2>1. ~(d > c)
      BY <1>2, <1>4
    <2>2. QED
      BY <2>1
  <1>6. \E e \in costs : \A d \in costs : e >= d
    BY <1>5
  <1>7. QED
    BY <1>1, <1>6

(* The total of a model is a number, whatever the extremes it is scored     *)
(* between (decide.ts: scoreCandidate).                                     *)
LEMMA ScoreIsANumber ==
  ASSUME NEW request, request.estimatedInputTokens \in Nat,
         NEW table, IsTable(table), NEW model, IsModel(model), Prices(table, model) # {},
         NEW minCost \in Nat, NEW maxCost \in Nat, minCost <= maxCost
  PROVE  ScoreCandidate(request, table, model, minCost, maxCost) \in Int
  <1> DEFINE cost == RequestCost(request, table, model)
             share == IF maxCost = minCost THEN One
                      ELSE One - ((cost - minCost) * One) \div (maxCost - minCost)
             swift == (200 * One) \div (200 + model.p95Ms)
             able == IF request.requiredCapabilities \subseteq model.capabilities
                       THEN One ELSE 0
  <1>1. cost \in Nat /\ One \in Nat
    BY CostOfPriced DEF One
  <1>2. \A a \in Int, b \in Int : b > 0 => a \div b \in Int
    OBVIOUS
  <1>3. share \in Int
    <2>1. CASE maxCost = minCost
      BY <1>1, <2>1
    <2>2. CASE maxCost # minCost
      <3> DEFINE a == (cost - minCost) * One
                 b == maxCost - minCost
      <3>1. a \in Int /\ b \in Int /\ b > 0
        BY <1>1, <2>2 DEF One
      <3>2. a \div b \in Int
        BY <1>2, <3>1
      <3> HIDE DEF a, b
      <3>3. One - a \div b \in Int
        BY <1>1, <3>2
      <3>4. share = One - a \div b
        BY <2>2 DEF a, b
      <3>5. QED
        BY <3>3, <3>4
    <2>3. QED
      BY <2>1, <2>2
  <1>4. swift \in Int
    <2>1. 200 * One \in Int /\ 200 + model.p95Ms \in Int /\ 200 + model.p95Ms > 0
      BY DEF One, IsModel
    <2>2. QED
      BY <1>2, <2>1
  <1>5. QualityScore(model.qualityTier) \in Int
    BY DEF QualityScore, One, IsModel
  <1>6. able \in Int
    BY <1>1
  <1>7. model.reliability \in Int
    BY DEF IsModel
  <1>8. ScoreCandidate(request, table, model, minCost, maxCost)
          = 70 * share + 10 * swift + 5 * QualityScore(model.qualityTier)
              + 10 * model.reliability + 5 * able
    BY DEF ScoreCandidate, Breakdown
  <1> HIDE DEF share, swift, able
  <1>9. QED
    BY <1>3, <1>4, <1>5, <1>6, <1>7, <1>8

-----------------------------------------------------------------------------
(* Decisions.                                                               *)

(* What buildCatalog leaves: models at some of their positions, each priced.*)
IsCatalog(catalog, table) ==
  /\ DOMAIN catalog \in SUBSET Int /\ IsFiniteSet(DOMAIN catalog)
  /\ \A i \in DOMAIN catalog :
       IsModel(catalog[i]) /\ Prices(table, catalog[i]) # {}

(* A decision for a model of the catalog, on a pricing table.               *)
Chooses(decision, request, table, model) ==
  /\ IsDecision(decision)
  /\ decision.chosenProviderId = model.providerId
  /\ decision.chosenModelId = model.modelId
  /\ decision.pricingTableVersionId = table.versionId
  /\ decision.estimatedCostUsd = RequestCost(request, table, model)

(* An error is not a decision.                                              *)
LEMMA FailureIsNoDecision ==
  ASSUME NEW code
  PROVE  ~IsDecision(Failure(code))
  BY DEF IsDecision, Failure

(* The costs of the eligible models are numbers with extremes.              *)
LEMMA CostsOfCatalog ==
  ASSUME NEW request, request.estimatedInputTokens \in Nat,
         NEW table, IsTable(table), NEW catalog, IsCatalog(catalog, table),
         NEW eligible, eligible = {m \in {catalog[i] : i \in DOMAIN catalog} :
                                     Included(request, m)},
         eligible # {}
  PROVE  LET costs == {RequestCost(request, table, m) : m \in eligible}
         IN  costs \in SUBSET Nat /\ IsFiniteSet(costs) /\ costs # {}
  <1> DEFINE costs == {RequestCost(request, table, m) : m \in eligible}
             places == {i \in DOMAIN catalog : Included(request, catalog[i])}
             f == [i \in places |-> RequestCost(request, table, catalog[i])]
  <1>1. \A i \in DOMAIN catalog : RequestCost(request, table, catalog[i]) \in Nat
    BY CostOfPriced DEF IsCatalog
  <1>2. costs \in SUBSET Nat /\ costs # {}
    BY <1>1
  <1>3. \A c \in costs : \E i \in places : c = RequestCost(request, table, catalog[i])
    OBVIOUS
  <1>4. \A i \in places : RequestCost(request, table, catalog[i]) \in costs
    OBVIOUS
  <1>5. places \in SUBSET DOMAIN catalog
    OBVIOUS
  <1>6. IsFiniteSet(places)
    BY <1>5, FS_Subset DEF IsCatalog
  <1> HIDE DEF costs, places
  <1>7. f \in Surjection(places, costs)
    BY <1>3, <1>4 DEF Surjection
  <1>8. IsFiniteSet(costs)
    BY <1>6, <1>7, FS_Surjection
  <1>9. QED
    BY <1>2, <1>8 DEF costs

(* The range of what the included models of a catalog cost.                 *)
IsRange(request, table, catalog, minCost, maxCost) ==
  LET included == {i \in DOMAIN catalog : Included(request, catalog[i])}
      cost(i) == RequestCost(request, table, catalog[i])
  IN  /\ \E i \in included : cost(i) = minCost
      /\ \E i \in included : cost(i) = maxCost
      /\ \A i \in included : minCost <= cost(i) /\ cost(i) <= maxCost

(* The autopilot chooses an eligible model of the catalog with the highest  *)
(* total of all, the costs taken relative to those of the eligible models,  *)
(* and prices it with the table it names (decide.ts: decideRoute).          *)
THEOREM AutopilotChoosesTheBest ==
  ASSUME NEW request, request.estimatedInputTokens \in Nat,
         NEW table, IsTable(table), NEW catalog, IsCatalog(catalog, table),
         IsDecision(DecideRoute(request, catalog, table))
  PROVE  \E i \in DOMAIN catalog, minCost \in Nat, maxCost \in Nat :
           /\ IsRange(request, table, catalog, minCost, maxCost)
           /\ Included(request, catalog[i])
           /\ Chooses(DecideRoute(request, catalog, table), request, table, catalog[i])
           /\ \A j \in DOMAIN catalog : Included(request, catalog[j]) =>
                ScoreCandidate(request, table, catalog[j], minCost, maxCost)
                  <= ScoreCandidate(request, table, catalog[i], minCost, maxCost)
  <1> DEFINE models == {catalog[i] : i \in DOMAIN catalog}
             eligible == {m \in models : Included(request, m)}
             costs == {RequestCost(request, table, m) : m \in eligible}
             minCost == CHOOSE c \in costs : \A d \in costs : c <= d
             maxCost == CHOOSE c \in costs : \A d \in costs : c >= d
             candidate(m) ==
               [ providerId |-> m.providerId, modelId |-> m.modelId,
                 included |-> m \in eligible,
                 reason |-> ExclusionReason(request, m),
                 total |-> IF m \in eligible
                             THEN ScoreCandidate(request, table, m, minCost, maxCost) ELSE 0,
                 estimatedCostUsd |-> IF m \in eligible
                             THEN RequestCost(request, table, m) ELSE Null ]
             s == [i \in DOMAIN catalog |-> candidate(catalog[i])]
             ranked == Sorted(s, RanksBefore)
             decision ==
               [ decisionSource |-> "autopilot", shadowedSource |-> Null,
                 ranking |-> ranked,
                 chosenProviderId |-> ranked[1].providerId,
                 chosenModelId |-> ranked[1].modelId,
                 pricingTableVersionId |-> table.versionId,
                 estimatedCostUsd |-> ranked[1].estimatedCostUsd ]
             error == IF models # {} /\ \A m \in models : ExclusionReason(request, m) = "context"
                        THEN Failure("context_exceeded") ELSE Failure("provider_unavailable")
  <1>1. DecideRoute(request, catalog, table) = IF eligible = {} THEN error ELSE decision
    BY DEF DecideRoute
  <1>2. ~IsDecision(error)
    BY FailureIsNoDecision
  <1>3. eligible # {} /\ DecideRoute(request, catalog, table) = decision
    BY <1>1, <1>2
  <1>4. /\ minCost \in Nat /\ maxCost \in Nat /\ minCost <= maxCost
        /\ IsRange(request, table, catalog, minCost, maxCost)
    <2> HIDE DEF eligible, models
    <2>1. costs \in SUBSET Nat /\ IsFiniteSet(costs) /\ costs # {}
      BY <1>3, CostsOfCatalog DEF eligible, models
    <2>2. /\ minCost \in costs /\ maxCost \in costs
          /\ \A c \in costs : minCost <= c /\ c <= maxCost
      BY <2>1, ExtremesExist
    <2> HIDE DEF minCost, maxCost
    <2>3. \A c : c \in costs <=> \E i \in DOMAIN catalog :
            Included(request, catalog[i]) /\ c = RequestCost(request, table, catalog[i])
      BY DEF eligible, models
    <2> HIDE DEF costs
    <2>4. IsRange(request, table, catalog, minCost, maxCost)
      BY <2>2, <2>3 DEF IsRange
    <2>5. QED
      BY <2>1, <2>2, <2>4
  <1> HIDE DEF minCost, maxCost
  <1>5. \A i \in DOMAIN catalog :
          ScoreCandidate(request, table, catalog[i], minCost, maxCost) \in Int
    BY <1>4, ScoreIsANumber DEF IsCatalog
  <1>6. \A i \in DOMAIN catalog :
          catalog[i] \in eligible <=> Included(request, catalog[i])
    OBVIOUS
  <1> HIDE DEF eligible
  <1>7. \A i \in DOMAIN catalog :
          /\ s[i].providerId = catalog[i].providerId /\ s[i].modelId = catalog[i].modelId
          /\ s[i].included = (catalog[i] \in eligible)
          /\ s[i].total = IF catalog[i] \in eligible
                THEN ScoreCandidate(request, table, catalog[i], minCost, maxCost) ELSE 0
          /\ s[i].estimatedCostUsd = IF catalog[i] \in eligible
                THEN RequestCost(request, table, catalog[i]) ELSE Null
    OBVIOUS
  <1>8. DOMAIN s = DOMAIN catalog
    OBVIOUS
  <1> HIDE DEF s, candidate, ranked, decision, error, models
  <1>9. ASSUME NEW i \in DOMAIN s
        PROVE  IsCandidate(s[i])
    <2>1. s[i].included \in BOOLEAN
      <3>1. (catalog[i] \in eligible) \in BOOLEAN
        OBVIOUS
      <3>2. s[i].included = (catalog[i] \in eligible)
        BY <1>7, <1>8, Zenon
      <3>3. QED
        BY <3>1, <3>2, Zenon
    <2>2. s[i].providerId \in Int /\ s[i].modelId \in Int
      BY <1>7, <1>8 DEF IsCatalog, IsModel
    <2>3. s[i].total = 0 \/ s[i].total
            = ScoreCandidate(request, table, catalog[i], minCost, maxCost)
      BY <1>7, <1>8
    <2>4. s[i].total \in Int
      BY <1>5, <1>8, <2>3
    <2>5. QED
      BY <2>1, <2>2, <2>4 DEF IsCandidate
  <1>10. DOMAIN s # {}
    BY <1>3, <1>8 DEF eligible, models
  <1>11. PICK i \in DOMAIN s : ranked[1] = s[i] /\ \A j \in DOMAIN s : ~RanksBefore(s[j], s[i])
    BY <1>8, <1>9, <1>10, HeadOfRanking DEF IsCatalog, ranked
  <1>12. PICK k \in DOMAIN catalog : catalog[k] \in eligible
    BY <1>3 DEF eligible, models
  <1>13. s[i].included
    BY <1>7, <1>8, <1>11, <1>12 DEF RanksBefore
  <1>14. ASSUME NEW j \in DOMAIN catalog, Included(request, catalog[j])
         PROVE  ScoreCandidate(request, table, catalog[j], minCost, maxCost)
                  <= ScoreCandidate(request, table, catalog[i], minCost, maxCost)
    <2>1. catalog[j] \in eligible /\ catalog[i] \in eligible
      BY <1>6, <1>7, <1>8, <1>13, <1>14
    <2>2. s[j].included /\ ~RanksBefore(s[j], s[i])
      BY <1>7, <1>8, <1>11, <2>1
    <2>3. ~(s[j].total > s[i].total)
      BY <1>13, <2>2 DEF RanksBefore
    <2>4. /\ s[j].total = ScoreCandidate(request, table, catalog[j], minCost, maxCost)
          /\ s[i].total = ScoreCandidate(request, table, catalog[i], minCost, maxCost)
      BY <1>7, <1>8, <2>1
    <2>5. s[j].total \in Int /\ s[i].total \in Int
      BY <1>5, <1>8, <2>4
    <2>6. s[j].total <= s[i].total
      BY <2>3, <2>5
    <2>7. QED
      BY <2>4, <2>6
  <1>15. Chooses(decision, request, table, catalog[i])
    BY <1>7, <1>8, <1>11, <1>13 DEF Chooses, IsDecision, decision
  <1>16. Included(request, catalog[i])
    BY <1>6, <1>7, <1>8, <1>13
  <1>17. QED
    BY <1>3, <1>4, <1>8, <1>14, <1>15, <1>16

(* The first of the models a pin admits is one of them, none by a smaller   *)
(* name (resolve-decision.ts: validatePinAgainstCatalog's sort).            *)
LEMMA HeadOfPinned ==
  ASSUME NEW s, DOMAIN s \in SUBSET Int, IsFiniteSet(DOMAIN s), DOMAIN s # {},
         \A i \in DOMAIN s : s[i].modelId \in Int
  PROVE  \E i \in DOMAIN s : Sorted(s, PinnedBefore)[1] = s[i]
  <1> DEFINE D == DOMAIN s
             B == {ji \in D \X D : PinnedBefore(s[ji[1]], s[ji[2]])}
             ahead(i) == { j \in D :
               PinnedBefore(s[j], s[i]) \/ (j < i /\ ~PinnedBefore(s[i], s[j])) }
             head == CHOOSE i \in D : Cardinality(ahead(i)) = 0
  <1>1. \A j, i \in D : << j, i >> \in B <=> PinnedBefore(s[j], s[i])
    OBVIOUS
  <1>2. Sorted(s, PinnedBefore)[1] = s[head]
    <2>1. Cardinality(D) \in Nat /\ Cardinality(D) # 0
      BY FS_CardinalityType, FS_EmptySet
    <2>2. 1 \in 1..Cardinality(D) /\ 1 - 1 = 0
      BY <2>1
    <2>3. QED
      BY <2>2 DEF Sorted
  <1> HIDE DEF B
  <1>3. PICK i0 \in D : \A j \in D :
          << j, i0 >> \notin B /\ ~(j < i0 /\ << i0, j >> \notin B)
    <2>1. \A x \in D : << x, x >> \notin B
      BY <1>1 DEF PinnedBefore
    <2>2. \A x, y, z \in D : << x, y >> \in B /\ << y, z >> \in B => << x, z >> \in B
      BY <1>1 DEF PinnedBefore
    <2>3. \A x, y, z \in D : << x, z >> \in B => << x, y >> \in B \/ << y, z >> \in B
      BY <1>1 DEF PinnedBefore
    <2>4. QED
      BY <2>1, <2>2, <2>3, HeadExists
  <1>4. ahead(i0) = {}
    BY <1>1, <1>3
  <1>5. head \in D
    BY <1>4, FS_EmptySet
  <1> HIDE DEF head
  <1>6. QED
    BY <1>2, <1>5

(* A pin that has a target has a model of the catalog.                      *)
LEMMA TargetOfPin ==
  ASSUME NEW pin, NEW snapshot, IsCatalog(snapshot.models, snapshot.pricingTable),
         Given(PinTarget(pin, snapshot))
  PROVE  \E i \in DOMAIN snapshot.models : PinTarget(pin, snapshot) = snapshot.models[i]
  <1> DEFINE models == snapshot.models
             admitted == { i \in DOMAIN models :
               /\ Given(pin.providerId) => models[i].providerId = pin.providerId
               /\ Given(pin.modelId) => models[i].modelId = pin.modelId }
             s == [i \in admitted |-> models[i]]
  <1>1. PinTarget(pin, snapshot)
          = IF admitted = {} THEN Null ELSE Sorted(s, PinnedBefore)[1]
    BY DEF PinTarget
  <1>2. admitted # {} /\ admitted \in SUBSET DOMAIN models
    BY <1>1 DEF Given
  <1>3. IsFiniteSet(admitted) /\ admitted \in SUBSET Int
    BY <1>2, FS_Subset DEF IsCatalog
  <1>4. \A i \in admitted : s[i] = models[i] /\ s[i].modelId \in Int
    BY DEF IsCatalog, IsModel
  <1>5. DOMAIN s = admitted
    OBVIOUS
  <1> HIDE DEF admitted, s
  <1>6. PICK i \in admitted : Sorted(s, PinnedBefore)[1] = s[i]
    BY <1>2, <1>3, <1>4, <1>5, HeadOfPinned
  <1>7. PinTarget(pin, snapshot) = models[i] /\ i \in DOMAIN models
    BY <1>1, <1>2, <1>4, <1>6
  <1>8. QED
    BY <1>7

(* Every decision, pinned or the autopilot's, chooses a model of the catalog*)
(* it was made on and prices it with the pricing table it names             *)
(* (resolve-decision.ts: resolveRoutingDecision).                           *)
THEOREM DecisionIsPriced ==
  ASSUME NEW request, request.estimatedInputTokens \in Nat, NEW rules, NEW snapshot,
         IsTable(snapshot.pricingTable),
         IsCatalog(snapshot.models, snapshot.pricingTable),
         IsDecision(ResolveRoutingDecision(request, rules, snapshot))
  PROVE  \E i \in DOMAIN snapshot.models :
           Chooses(ResolveRoutingDecision(request, rules, snapshot), request,
                   snapshot.pricingTable, snapshot.models[i])
  <1> DEFINE resolution == ResolveOverride(request, rules)
             target == PinTarget(resolution.pin, snapshot)
             cost == RequestCost(request, snapshot.pricingTable, target)
             pinned ==
               [ decisionSource |-> resolution.effectiveSource,
                 shadowedSource |-> resolution.shadowedSource,
                 ranking |-> << [ providerId |-> target.providerId,
                                  modelId |-> target.modelId, included |-> TRUE,
                                  reason |-> Null, total |-> One,
                                  estimatedCostUsd |-> cost ] >>,
                 chosenProviderId |-> target.providerId,
                 chosenModelId |-> target.modelId,
                 pricingTableVersionId |-> snapshot.pricingTable.versionId,
                 estimatedCostUsd |-> cost ]
             routed == DecideRoute(request, snapshot.models, snapshot.pricingTable)
  <1>1. ResolveRoutingDecision(request, rules, snapshot)
          = IF ~Given(resolution.pin) THEN routed
            ELSE IF ~Given(target) THEN Failure("override_target_missing")
            ELSE pinned
    BY DEF ResolveRoutingDecision, BuildRoutingDecision
  <1> HIDE DEF routed, resolution
  <1>2. CASE ~Given(resolution.pin)
    <2>1. ResolveRoutingDecision(request, rules, snapshot) = routed
      BY <1>1, <1>2
    <2>2. QED
      BY <2>1, AutopilotChoosesTheBest DEF routed
  <1>3. CASE Given(resolution.pin) /\ Given(target)
    <2>1. ResolveRoutingDecision(request, rules, snapshot) = pinned
      BY <1>1, <1>3
    <2>2. PICK i \in DOMAIN snapshot.models : target = snapshot.models[i]
      BY <1>3, TargetOfPin
    <2> HIDE DEF target
    <2>3. Chooses(pinned, request, snapshot.pricingTable, target)
      BY DEF Chooses, IsDecision
    <2>4. QED
      BY <2>1, <2>2, <2>3
  <1>4. CASE Given(resolution.pin) /\ ~Given(target)
    BY <1>1, <1>4, FailureIsNoDecision
  <1>5. QED
    BY <1>2, <1>3, <1>4

(* What buildCatalog leaves of the registered models is a catalog.          *)
LEMMA BuiltCatalog ==
  ASSUME NEW models, Len(models) \in Nat, DOMAIN models = 1..Len(models),
         \A i \in DOMAIN models : IsModel(models[i]), NEW table, NEW healthyProviders
  PROVE  IsCatalog(BuildCatalog(models, table, healthyProviders), table)
  <1> DEFINE kept == { i \in DOMAIN models : /\ models[i].providerId \in healthyProviders
                                             /\ Prices(table, models[i]) # {} }
  <1>1. kept \in SUBSET (1..Len(models)) /\ IsFiniteSet(1..Len(models))
    BY FS_Interval
  <1>2. IsFiniteSet(kept) /\ kept \in SUBSET Int
    BY <1>1, FS_Subset
  <1>3. BuildCatalog(models, table, healthyProviders) = [i \in kept |-> models[i]]
    BY DEF BuildCatalog
  <1>4. \A i \in kept : IsModel(models[i]) /\ Prices(table, models[i]) # {}
    OBVIOUS
  <1> HIDE DEF kept
  <1>5. QED
    BY <1>2, <1>3, <1>4 DEF IsCatalog

-----------------------------------------------------------------------------
(* Spend.                                                                   *)

(* A set of finite sets that is not empty has a smallest one.               *)
LEMMA SmallestSet ==
  ASSUME NEW S, IsFiniteSet(S), NEW C \in SUBSET SUBSET S, C # {}
  PROVE  \E s \in C : \A t \in C : Cardinality(s) <= Cardinality(t)
  <1> DEFINE T == {Cardinality(s) : s \in C}
  <1>1. \A s \in C : Cardinality(s) \in Nat
    BY FS_Subset, FS_CardinalityType
  <1>2. T \in SUBSET Nat /\ T # {}
    BY <1>1
  <1> HIDE DEF T
  <1>3. PICK n \in T : \A m \in T : n <= m
    BY <1>2, LeastNumber
  <1>4. QED
    BY <1>3 DEF T

(* An element of a finite set, and the set without it.                      *)
LEMMA OneLess ==
  ASSUME NEW S, IsFiniteSet(S), NEW s \in SUBSET S, NEW x \in s
  PROVE  /\ s \ {x} \in SUBSET S
         /\ Cardinality(s) \in Nat /\ Cardinality(s \ {x}) \in Nat
         /\ Cardinality(s \ {x}) = Cardinality(s) - 1
  <1>1. IsFiniteSet(s)
    BY FS_Subset
  <1>2. QED
    BY <1>1, FS_RemoveElement, FS_CardinalityType

(* The sum that MapThenSumSet takes: an element, then the rest.             *)
AnElement(s) == CHOOSE x \in s : TRUE

IsSum(f, S) ==
  /\ f \in [SUBSET S -> Nat]
  /\ f[{}] = 0
  /\ \A s \in SUBSET S : s # {} => f[s] = AnElement(s).costUsd + f[s \ {AnElement(s)}]

CostsAreNumbers(S) == \A e \in S : e.costUsd \in Nat

(* There is a sum over the subsets of any finite set: one over those of at  *)
(* most n elements extends to those of one more.                            *)
LEMMA SumExists ==
  ASSUME NEW S, IsFiniteSet(S), CostsAreNumbers(S)
  PROVE  \E f : IsSum(f, S)
  <1> DEFINE upTo(n) == {s \in SUBSET S : Cardinality(s) <= n}
             isSumTo(f, n) ==
               /\ f \in [upTo(n) -> Nat]
               /\ \A s \in upTo(n) :
                    f[s] = IF s = {} THEN 0 ELSE AnElement(s).costUsd + f[s \ {AnElement(s)}]
             bad == {n \in Nat : ~\E f : isSumTo(f, n)}
  <1>1. \A s \in SUBSET S : IsFiniteSet(s) /\ Cardinality(s) \in Nat
    BY FS_Subset, FS_CardinalityType
  <1>2. 0 \notin bad
    <2> DEFINE f == [s \in upTo(0) |-> 0]
    <2>1. \A s \in upTo(0) : s = {}
      BY <1>1, FS_EmptySet
    <2> HIDE DEF upTo
    <2>2. f \in [upTo(0) -> Nat] /\ \A s \in upTo(0) : f[s] = 0
      OBVIOUS
    <2>3. isSumTo(f, 0)
      BY <2>1, <2>2
    <2> HIDE DEF f, isSumTo
    <2>4. QED
      BY <2>3
  <1>3. ASSUME NEW n \in Nat, n + 1 \in bad
        PROVE  n \in bad
    <2>1. SUFFICES ASSUME NEW f, isSumTo(f, n)
                   PROVE  \E g : isSumTo(g, n + 1)
      BY <1>3
    <2> DEFINE step(s) == IF s = {} THEN 0 ELSE AnElement(s).costUsd + f[s \ {AnElement(s)}]
               g == [s \in upTo(n + 1) |-> step(s)]
    <2>2. ASSUME NEW s \in upTo(n + 1), s # {}
          PROVE  s \ {AnElement(s)} \in upTo(n) /\ AnElement(s) \in S
      <3>1. AnElement(s) \in s /\ s \in SUBSET S /\ Cardinality(s) <= n + 1
        BY <2>2 DEF AnElement
      <3>2. QED
        BY <3>1, OneLess
    <2>3. upTo(n) \subseteq upTo(n + 1)
      BY <1>1
    <2> HIDE DEF upTo
    <2>4. /\ f \in [upTo(n) -> Nat]
          /\ \A s \in upTo(n) : f[s] = step(s)
      BY <2>1
    <2>5. \A s \in upTo(n + 1) : step(s) \in Nat
      BY <2>2, <2>4 DEF CostsAreNumbers
    <2> HIDE DEF step
    <2>6. /\ g \in [upTo(n + 1) -> Nat]
          /\ \A s \in upTo(n + 1) : g[s] = step(s)
      BY <2>5
    <2> HIDE DEF g
    <2>7. \A s \in upTo(n) : g[s] = f[s]
      BY <2>3, <2>4, <2>6
    <2>8. \A s \in upTo(n + 1) :
            g[s] = IF s = {} THEN 0 ELSE AnElement(s).costUsd + g[s \ {AnElement(s)}]
      BY <2>2, <2>6, <2>7 DEF step
    <2>9. QED
      BY <2>6, <2>8
  <1> HIDE DEF upTo, isSumTo
  <1>4. bad = {}
    <2>1. SUFFICES ASSUME bad # {} PROVE FALSE
      OBVIOUS
    <2>2. bad \in SUBSET Nat
      OBVIOUS
    <2> HIDE DEF bad
    <2>3. PICK n \in bad : \A m \in bad : n <= m
      BY <2>1, <2>2, LeastNumber
    <2>4. n \in Nat /\ n # 0
      BY <1>2, <2>2, <2>3
    <2>5. n - 1 \in Nat /\ (n - 1) + 1 = n
      BY <2>4
    <2>6. n - 1 \in bad
      BY <1>3, <2>3, <2>5
    <2>7. QED
      BY <2>3, <2>4, <2>6
  <1>5. Cardinality(S) \in Nat
    BY FS_CardinalityType
  <1>6. PICK f : isSumTo(f, Cardinality(S))
    BY <1>4, <1>5
  <1>7. upTo(Cardinality(S)) = SUBSET S
    BY FS_Subset DEF upTo
  <1>8. \A s \in SUBSET S :
          f[s] = IF s = {} THEN 0 ELSE AnElement(s).costUsd + f[s \ {AnElement(s)}]
    BY <1>6, <1>7 DEF isSumTo
  <1>9. f \in [SUBSET S -> Nat]
    BY <1>6, <1>7 DEF isSumTo
  <1>10. f[{}] = 0
    BY <1>8
  <1>11. QED
    BY <1>8, <1>9, <1>10 DEF IsSum

(* MapThenSumSet is the last value of such a sum.                           *)
LEMMA CostsAreSummed ==
  ASSUME NEW S, IsFiniteSet(S), CostsAreNumbers(S)
  PROVE  \E f : IsSum(f, S) /\ MapThenSumSet(LAMBDA e : e.costUsd, S) = f[S]
  <1> DEFINE step(f, s) == IF s = {} THEN 0 ELSE AnElement(s).costUsd + f[s \ {AnElement(s)}]
             f == CHOOSE g : g = [s \in SUBSET S |-> step(g, s)]
  <1>1. MapThenSumSet(LAMBDA e : e.costUsd, S) = f[S]
    BY DEF MapThenSumSet, MapThenFoldSet, AnElement
  <1>2. PICK g : IsSum(g, S)
    BY SumExists
  <1>3. \A s \in SUBSET S : g[s] = step(g, s)
    BY <1>2 DEF IsSum
  <1> HIDE DEF step
  <1>4. g = [s \in SUBSET S |-> step(g, s)]
    BY <1>2, <1>3 DEF IsSum
  <1>5. f = [s \in SUBSET S |-> step(f, s)]
    BY <1>4
  <1>6. \A s \in SUBSET S : f[s] = step(f, s)
    BY <1>5
  <1>7. DOMAIN f = SUBSET S
    BY <1>5
  <1> HIDE DEF f
  <1>8. \A s \in SUBSET S : f[s] = g[s]
    <2> DEFINE C == {s \in SUBSET S : f[s] # g[s]}
    <2>1. SUFFICES ASSUME C # {} PROVE FALSE
      OBVIOUS
    <2>2. PICK s \in C : \A t \in C : Cardinality(s) <= Cardinality(t)
      BY <2>1, SmallestSet
    <2>3. CASE s = {}
      BY <1>3, <1>6, <2>2, <2>3 DEF step
    <2>4. CASE s # {}
      <3>1. AnElement(s) \in s
        BY <2>4 DEF AnElement
      <3>2. /\ s \ {AnElement(s)} \in SUBSET S
            /\ Cardinality(s \ {AnElement(s)}) < Cardinality(s)
        BY <2>2, <3>1, OneLess
      <3>3. f[s \ {AnElement(s)}] = g[s \ {AnElement(s)}]
        <4>1. s \in SUBSET S /\ Cardinality(s) \in Nat /\ Cardinality(s \ {AnElement(s)}) \in Nat
          BY <2>2, <3>1, OneLess
        <4>2. s \ {AnElement(s)} \notin C
          BY <2>2, <3>2, <4>1
        <4>3. QED
          BY <3>2, <4>2
      <3>4. f[s] = g[s]
        BY <1>3, <1>6, <2>2, <2>4, <3>3 DEF step
      <3>5. QED
        BY <2>2, <3>4
    <2>5. QED
      BY <2>3, <2>4
  <1>9. f = g
    <2>1. DOMAIN g = SUBSET S /\ g = [s \in SUBSET S |-> g[s]]
      BY <1>2 DEF IsSum
    <2>2. f = [s \in SUBSET S |-> f[s]]
      BY <1>5, <1>6
    <2>3. QED
      BY <1>8, <2>1, <2>2
  <1>10. QED
    BY <1>1, <1>2, <1>9

(* Whichever element is taken first, the sum is the same.                   *)
LEMMA SumTakesEach ==
  ASSUME NEW S, IsFiniteSet(S), CostsAreNumbers(S), NEW f, IsSum(f, S)
  PROVE  \A s \in SUBSET S : \A x \in s : f[s] = x.costUsd + f[s \ {x}]
  <1> DEFINE C == {s \in SUBSET S : \E x \in s : f[s] # x.costUsd + f[s \ {x}]}
  <1>1. SUFFICES ASSUME C # {} PROVE FALSE
    OBVIOUS
  <1>2. PICK s \in C : \A t \in C : Cardinality(s) <= Cardinality(t)
    BY <1>1, SmallestSet
  <1>3. PICK x \in s : f[s] # x.costUsd + f[s \ {x}]
    BY <1>2
  <1> DEFINE c == AnElement(s)
  <1>4. s \in SUBSET S /\ c \in s /\ f[s] = c.costUsd + f[s \ {c}]
    BY <1>2, <1>3 DEF IsSum, AnElement
  <1>5. c # x
    BY <1>3, <1>4
  <1>6. \A y \in s : s \ {y} \in SUBSET S /\ s \ {y} \notin C
    <2>1. TAKE y \in s
    <2>2. /\ s \ {y} \in SUBSET S
          /\ Cardinality(s) \in Nat /\ Cardinality(s \ {y}) \in Nat
          /\ Cardinality(s \ {y}) = Cardinality(s) - 1
      BY <1>4, OneLess
    <2>3. QED
      BY <1>2, <2>2
  <1> HIDE DEF c
  <1>7. f[s \ {c}] = x.costUsd + f[(s \ {c}) \ {x}]
    BY <1>4, <1>5, <1>6
  <1>8. f[s \ {x}] = c.costUsd + f[(s \ {x}) \ {c}]
    BY <1>4, <1>5, <1>6
  <1>9. (s \ {c}) \ {x} = (s \ {x}) \ {c} /\ (s \ {x}) \ {c} \in SUBSET S
    BY <1>4
  <1> DEFINE rest == f[(s \ {x}) \ {c}]
  <1>10. rest \in Nat /\ c.costUsd \in Nat /\ x.costUsd \in Nat
    BY <1>4, <1>9 DEF IsSum, CostsAreNumbers
  <1>11. f[s \ {c}] = x.costUsd + rest /\ f[s \ {x}] = c.costUsd + rest
    BY <1>7, <1>8, <1>9
  <1> HIDE DEF rest
  <1>12. f[s] = c.costUsd + (x.costUsd + rest) /\ f[s] # x.costUsd + (c.costUsd + rest)
    BY <1>3, <1>4, <1>11
  <1>13. \A a, b, n \in Nat : a + (b + n) = b + (a + n)
    OBVIOUS
  <1>14. QED
    BY <1>10, <1>12, <1>13

(* A subset costs no more than the whole.                                   *)
LEMMA SumGrows ==
  ASSUME NEW S, IsFiniteSet(S), CostsAreNumbers(S), NEW f, IsSum(f, S), NEW t \in SUBSET S
  PROVE  f[t] <= f[S]
  <1> DEFINE C == {s \in SUBSET S : t \subseteq s /\ ~(f[t] <= f[s])}
  <1>1. SUFFICES ASSUME C # {} PROVE FALSE
    OBVIOUS
  <1>2. PICK s \in C : \A u \in C : Cardinality(s) <= Cardinality(u)
    BY <1>1, SmallestSet
  <1>3. \A u \in SUBSET S : f[u] \in Nat
    BY DEF IsSum
  <1>4. s \in SUBSET S /\ t \subseteq s /\ ~(f[t] <= f[s])
    BY <1>2
  <1>5. t # s
    BY <1>3, <1>4
  <1>6. PICK x \in s : x \notin t
    BY <1>4, <1>5
  <1>7. /\ s \ {x} \in SUBSET S
        /\ Cardinality(s) \in Nat /\ Cardinality(s \ {x}) \in Nat
        /\ Cardinality(s \ {x}) = Cardinality(s) - 1
    BY <1>4, OneLess
  <1>8. f[t] <= f[s \ {x}]
    <2>1. s \ {x} \notin C
      BY <1>2, <1>7
    <2>2. t \subseteq s \ {x}
      BY <1>4, <1>6
    <2>3. QED
      BY <1>7, <2>1, <2>2
  <1>9. f[s] = x.costUsd + f[s \ {x}] /\ x.costUsd \in Nat
    BY <1>4, SumTakesEach DEF CostsAreNumbers
  <1>10. QED
    BY <1>3, <1>4, <1>7, <1>8, <1>9

(* The sum over a subset is the value there of the sum over the whole.      *)
LEMMA SumsAgree ==
  ASSUME NEW S, IsFiniteSet(S), NEW f, IsSum(f, S), NEW t \in SUBSET S, NEW g, IsSum(g, t)
  PROVE  f[t] = g[t]
  <1> DEFINE C == {s \in SUBSET t : f[s] # g[s]}
  <1>1. SUFFICES ASSUME C # {} PROVE FALSE
    OBVIOUS
  <1>2. C \in SUBSET SUBSET S
    OBVIOUS
  <1>3. PICK s \in C : \A u \in C : Cardinality(s) <= Cardinality(u)
    BY <1>1, <1>2, SmallestSet
  <1>4. s # {} /\ s \in SUBSET t /\ s \in SUBSET S /\ f[s] # g[s]
    BY <1>3 DEF IsSum
  <1>5. AnElement(s) \in s
    BY <1>4 DEF AnElement
  <1>6. /\ s \ {AnElement(s)} \in SUBSET t
        /\ Cardinality(s) \in Nat /\ Cardinality(s \ {AnElement(s)}) \in Nat
        /\ Cardinality(s \ {AnElement(s)}) = Cardinality(s) - 1
    BY <1>4, <1>5, OneLess
  <1>7. f[s \ {AnElement(s)}] = g[s \ {AnElement(s)}]
    BY <1>3, <1>6
  <1>8. f[s] = g[s]
    BY <1>4, <1>7 DEF IsSum
  <1>9. QED
    BY <1>4, <1>8

(* What is on record in a budget's window and scope only grows with the     *)
(* records: a spend read late is no less than one read early for the same   *)
(* instant (spend.ts: sumEstimatedSpend).                                   *)
THEOREM SpendGrows ==
  ASSUME NEW budget, NEW early, NEW late, NEW instant,
         IsFiniteSet(late), early \subseteq late, CostsAreNumbers(late)
  PROVE  /\ SpendOf(budget, early, instant) \in Nat /\ SpendOf(budget, late, instant) \in Nat
         /\ SpendOf(budget, early, instant) <= SpendOf(budget, late, instant)
  <1> DEFINE counted(records) == { e \in records :
               /\ e.receivedAt >= WindowStart(budget.period, instant) /\ e.receivedAt <= instant
               /\ budget.scope = "client" => e.clientId = budget.clientId }
  <1>1. /\ SpendOf(budget, early, instant) = MapThenSumSet(LAMBDA e : e.costUsd, counted(early))
        /\ SpendOf(budget, late, instant) = MapThenSumSet(LAMBDA e : e.costUsd, counted(late))
    BY DEF SpendOf
  <1>2. /\ counted(late) \in SUBSET late /\ counted(early) \in SUBSET counted(late)
    OBVIOUS
  <1> HIDE DEF counted
  <1>3. IsFiniteSet(counted(late)) /\ IsFiniteSet(counted(early))
    BY <1>2, FS_Subset
  <1>4. CostsAreNumbers(counted(late)) /\ CostsAreNumbers(counted(early))
    BY <1>2 DEF CostsAreNumbers
  <1>5. PICK f : /\ IsSum(f, counted(late))
                 /\ MapThenSumSet(LAMBDA e : e.costUsd, counted(late)) = f[counted(late)]
    BY <1>3, <1>4, CostsAreSummed
  <1>6. PICK g : /\ IsSum(g, counted(early))
                 /\ MapThenSumSet(LAMBDA e : e.costUsd, counted(early)) = g[counted(early)]
    BY <1>3, <1>4, CostsAreSummed
  <1>7. f[counted(early)] = g[counted(early)]
    BY <1>2, <1>3, <1>5, <1>6, SumsAgree
  <1>8. f[counted(early)] <= f[counted(late)]
    BY <1>2, <1>3, <1>4, <1>5, SumGrows
  <1>9. f[counted(early)] \in Nat /\ f[counted(late)] \in Nat
    BY <1>2, <1>5 DEF IsSum
  <1>10. SpendOf(budget, early, instant) = f[counted(early)]
    BY <1>1, <1>6, <1>7
  <1>11. SpendOf(budget, late, instant) = f[counted(late)]
    BY <1>1, <1>5
  <1>12. QED
    BY <1>8, <1>9, <1>10, <1>11

(* Budgets of one group share their spend (spend.ts: spendForBudgets).      *)
LEMMA SpendOfGroup ==
  ASSUME NEW b, NEW c, SpendGroup(b) = SpendGroup(c), NEW records, NEW instant
  PROVE  SpendOf(b, records, instant) = SpendOf(c, records, instant)
  <1>1. b.period = c.period /\ b.scope = c.scope /\ b.clientId = c.clientId
    BY DEF SpendGroup
  <1>2. QED
    BY <1>1 DEF SpendOf

(* A verdict that does not block leaves room in every blocking budget: the  *)
(* spend and the estimate together stay below its limit (evaluate.ts:       *)
(* evaluateBudget, aggregate.ts: evaluateBudgets).                          *)
THEOREM VerdictLeavesRoom ==
  ASSUME NEW budgets, NEW spend, NEW cost,
         EvaluateBudgets(budgets, spend, cost).decision # "blocked",
         NEW b \in budgets, b.action = "block"
  PROVE  spend[b.budgetId] + cost < b.limitUsd
  <1> DEFINE evaluated == {EvaluateBudget(c, spend[c.budgetId], cost) : c \in budgets}
             kinds == {e.decision : e \in evaluated}
  <1>1. EvaluateBudgets(budgets, spend, cost).decision = Verdict(kinds)
    BY DEF EvaluateBudgets
  <1>2. "block" \notin kinds
    BY <1>1 DEF Verdict
  <1>3. EvaluateBudget(b, spend[b.budgetId], cost).decision # "block"
    BY <1>2
  <1>4. QED
    BY <1>3 DEF EvaluateBudget

-----------------------------------------------------------------------------
(* The two caches.                                                          *)

(* The proofs about one cache, for the rules and for the budgets.           *)
RP == INSTANCE ConfigCacheProofs WITH
  Readers <- Requests, Contents <- RuleTables, table <- ruleTable, cache <- ruleCache,
  load <- ruleLoad, mutation <- ruleMutation, reasons <- ruleReasons

BP == INSTANCE ConfigCacheProofs WITH
  Readers <- Requests, Contents <- BudgetTables, table <- budgetTable,
  cache <- budgetCache, load <- budgetLoad, mutation <- budgetMutation,
  reasons <- budgetReasons

-----------------------------------------------------------------------------
(* The locals of a handler.                                                 *)
LocalNames ==
  { "stage", "kind", "replica", "receivedAt", "version", "entries", "healthy", "decision",
    "budgets", "evaluatedAt", "spend", "verdict", "charge", "active", "known" }

TableOf(version) == [versionId |-> version, entries |-> EntriesOf[version]]

(* A decision is on one table that was active since the request arrived, and*)
(* its estimate is a number.                                                *)
DecisionSound(r, l) ==
  LET version == l.decision.pricingTableVersionId
      chosen == [ providerId |-> l.decision.chosenProviderId,
                  modelId |-> l.decision.chosenModelId ]
  IN  /\ IsDecision(l.decision)
      /\ version \in l.active
      /\ l.decision.estimatedCostUsd = RequestCost(RequestOf[r], TableOf(version), chosen)
      /\ l.decision.estimatedCostUsd \in Nat

(* What was read of a budget's spend covers what was on record when the     *)
(* evaluation began.                                                        *)
SpendCovers(l) ==
  \A b \in l.budgets : b.budgetId \in DOMAIN l.spend =>
    /\ l.spend[b.budgetId] \in Nat
    /\ SpendOf(b, l.known, l.evaluatedAt) \in Nat
    /\ SpendOf(b, l.known, l.evaluatedAt) <= l.spend[b.budgetId]

HasRoom(l) ==
  \A b \in l.budgets : b.action = "block" =>
    SpendOf(b, l.known, l.evaluatedAt) + l.decision.estimatedCostUsd < b.limitUsd

LocalsTyped(l) ==
  /\ l = [n \in LocalNames |-> l[n]]
  /\ l.stage \in Stage /\ l.kind \in Kind /\ l.replica \in Replicas \union {NoReplica}
  /\ (l.replica = NoReplica) <=> (l.stage = "new")
  /\ l.stage # "new" => l.receivedAt \in FirstInstant..LastInstant

CatalogSound(l) ==
  /\ l.stage = "new" => ~Given(l.version) /\ ~Given(l.entries) /\ ~Given(l.decision)
  /\ Given(l.version) => l.version \in l.active /\ l.version \in Versions
  /\ Given(l.entries) => Given(l.version) /\ l.entries = EntriesOf[l.version]
  /\ l.stage = "rules" => Given(l.entries) /\ Given(l.healthy)

BudgetsSound(l) ==
  /\ l.stage \in {"new", "catalog", "rules", "budgets"} =>
       l.budgets = {} /\ l.spend = << >>
  /\ \A b, c \in l.budgets : IsBudget(b) /\ (b.budgetId = c.budgetId => b = c)
  /\ DOMAIN l.spend \subseteq {b.budgetId : b \in l.budgets}
  /\ l.stage = "spend" => SpendCovers(l)
  /\ l.stage = "running" =>
       l.kind = "completion" /\ l.verdict # "blocked" /\ HasRoom(l)

LocalsSound(r, l) ==
  /\ LocalsTyped(l) /\ CatalogSound(l) /\ BudgetsSound(l)
  /\ (Given(l.decision) \/ l.stage \in {"budgets", "spend", "running"}) =>
       DecisionSound(r, l)

(* A handler and the world around it.                                       *)
InItsWorld(l, stored, version) ==
  l.known \subseteq stored /\ (l.stage = "catalog" => version \in l.active)

RequestsSound ==
  /\ req = [r \in Requests |-> req[r]]
  /\ \A r \in Requests :
       LocalsSound(r, req[r]) /\ InItsWorld(req[r], events, activeVersion)

(* A load belongs to the handler that awaits it.                            *)
LoadsBelong ==
  \A r \in Requests :
    /\ ruleLoad[r].replica # NoReplica =>
         req[r].stage = "rules" /\ ruleLoad[r].replica = req[r].replica
    /\ budgetLoad[r].replica # NoReplica =>
         req[r].stage = "budgets" /\ budgetLoad[r].replica = req[r].replica

(* A record is of a request that was answered, and is there once.           *)
RecordsSound ==
  /\ IsFiniteSet(buffered) /\ IsFiniteSet(events)
  /\ buffered \intersect events = {}
  /\ \A e \in buffered \union events :
       /\ e.eventId \in Requests /\ req[e.eventId].stage = "answered"
       /\ e.costUsd \in Charges /\ e.receivedAt \in FirstInstant..LastInstant

WorldSound ==
  /\ activeVersion \in Versions /\ healthy \subseteq Providers
  /\ now \in FirstInstant..LastInstant /\ changes \in 0..MaxChanges

CachesSound == RP!CacheIInv /\ BP!CacheIInv

IInv ==
  /\ CachesSound /\ WorldSound /\ RecordsSound /\ LoadsBelong /\ RequestsSound

-----------------------------------------------------------------------------
(* The caches.                                                              *)

(* NoReplica is no replica, and NotLoaded no content.                       *)
LEMMA Markers ==
  NoReplica \notin Replicas /\ NotLoaded \notin RuleTables /\ NotLoaded \notin BudgetTables
  BY CopiesAssumption DEF Rules!MarkersAreDistinct, Budgets!MarkersAreDistinct

(* A handler that has arrived is on a replica.                              *)
LEMMA OnAReplica ==
  ASSUME IInv, NEW r \in Requests, req[r].stage # "new"
  PROVE  req[r].replica \in Replicas
  BY DEF IInv, RequestsSound, LocalsSound, LocalsTyped

(* Every step is a step of the rules' cache, or leaves it alone.            *)
LEMMA StepOfRules ==
  ASSUME IInv, [Next]_vars
  PROVE  [RP!CacheNext]_(RP!cacheVars)
  <1>1. ASSUME NEW r \in Requests, NEW p \in Replicas, Rules!StartLoad(r, p)
        PROVE  RP!CacheNext
    BY <1>1 DEF RP!CacheNext, RP!StartLoad, Rules!StartLoad
  <1>2. ASSUME NEW r \in Requests, Rules!ReadTable(r)
        PROVE  RP!CacheNext
    BY <1>2 DEF RP!CacheNext, RP!ReadTable, Rules!ReadTable
  <1>3. ASSUME NEW r \in Requests, Rules!StoreLoad(r)
        PROVE  RP!CacheNext
    BY <1>3 DEF RP!CacheNext, RP!StoreLoad, Rules!StoreLoad, RP!NoLoad, Rules!NoLoad
  <1>4. ASSUME NEW r \in Requests, Rules!FailLoad(r)
        PROVE  RP!CacheNext
    BY <1>4 DEF RP!CacheNext, RP!FailLoad, Rules!FailLoad, RP!NoLoad, Rules!NoLoad
  <1>5. ASSUME NEW w \in Writers, NEW p \in Replicas, NEW rows \in RuleTables,
               Rules!Commit(w, p, rows)
        PROVE  RP!CacheNext
    BY <1>5 DEF RP!CacheNext, RP!Commit, Rules!Commit, RP!MissedBy, Rules!MissedBy
  <1>6. ASSUME NEW w \in Writers, Rules!Acknowledge(w)
        PROVE  RP!CacheNext
    BY <1>6 DEF RP!CacheNext, RP!Acknowledge, Rules!Acknowledge
  <1>7. ASSUME NEW w \in Writers, Rules!LoseAnswer(w)
        PROVE  RP!CacheNext
    BY <1>7 DEF RP!CacheNext, RP!LoseAnswer, Rules!LoseAnswer
  <1>8. ASSUME NEW p \in Replicas, Rules!Restart(p)
        PROVE  RP!CacheNext
    BY <1>8 DEF RP!CacheNext, RP!Restart, Rules!Restart, RP!NoLoad, Rules!NoLoad
  <1>9. ASSUME UNCHANGED ruleVars
        PROVE  UNCHANGED RP!cacheVars
    BY <1>9 DEF ruleVars, RP!cacheVars
  <1>10. CASE UNCHANGED vars
    BY <1>9, <1>10 DEF vars
  <1>11. ASSUME NEW r \in Requests, TakeRules(r)
         PROVE  [RP!CacheNext]_(RP!cacheVars)
    <2>1. req[r].replica \in Replicas
      BY <1>11, OnAReplica DEF TakeRules, CatalogIn
    <2>2. QED
      BY <1>1, <1>9, <1>11, <2>1 DEF TakeRules
  <1>12. CASE Next
    BY <1>2, <1>3, <1>4, <1>5, <1>6, <1>7, <1>8, <1>9, <1>11, <1>12
       DEF Next, Arrive, ReadActiveVersion, ReadEntries, ReadHealthyProviders,
           ReadRules, RulesLoaded, TakeBudgets, ReadBudgets, BudgetsLoaded, ReadSpend,
           ReadFails, Execute, Flush, MutateRules, RuleMutated, MutateBudgets,
           BudgetMutated, ActivatePricing, HealthChanges, Tick, Restart
  <1>13. QED
    BY <1>10, <1>12
(* Every step is a step of the budgets' cache, or leaves it alone.          *)
LEMMA StepOfBudgets ==
  ASSUME IInv, [Next]_vars
  PROVE  [BP!CacheNext]_(BP!cacheVars)
  <1>1. ASSUME NEW r \in Requests, NEW p \in Replicas, Budgets!StartLoad(r, p)
        PROVE  BP!CacheNext
    BY <1>1 DEF BP!CacheNext, BP!StartLoad, Budgets!StartLoad
  <1>2. ASSUME NEW r \in Requests, Budgets!ReadTable(r)
        PROVE  BP!CacheNext
    BY <1>2 DEF BP!CacheNext, BP!ReadTable, Budgets!ReadTable
  <1>3. ASSUME NEW r \in Requests, Budgets!StoreLoad(r)
        PROVE  BP!CacheNext
    BY <1>3 DEF BP!CacheNext, BP!StoreLoad, Budgets!StoreLoad, BP!NoLoad, Budgets!NoLoad
  <1>4. ASSUME NEW r \in Requests, Budgets!FailLoad(r)
        PROVE  BP!CacheNext
    BY <1>4 DEF BP!CacheNext, BP!FailLoad, Budgets!FailLoad, BP!NoLoad, Budgets!NoLoad
  <1>5. ASSUME NEW w \in Writers, NEW p \in Replicas, NEW rows \in BudgetTables,
               Budgets!Commit(w, p, rows)
        PROVE  BP!CacheNext
    BY <1>5 DEF BP!CacheNext, BP!Commit, Budgets!Commit, BP!MissedBy, Budgets!MissedBy
  <1>6. ASSUME NEW w \in Writers, Budgets!Acknowledge(w)
        PROVE  BP!CacheNext
    BY <1>6 DEF BP!CacheNext, BP!Acknowledge, Budgets!Acknowledge
  <1>7. ASSUME NEW w \in Writers, Budgets!LoseAnswer(w)
        PROVE  BP!CacheNext
    BY <1>7 DEF BP!CacheNext, BP!LoseAnswer, Budgets!LoseAnswer
  <1>8. ASSUME NEW p \in Replicas, Budgets!Restart(p)
        PROVE  BP!CacheNext
    BY <1>8 DEF BP!CacheNext, BP!Restart, Budgets!Restart, BP!NoLoad, Budgets!NoLoad
  <1>9. ASSUME UNCHANGED budgetVars
        PROVE  UNCHANGED BP!cacheVars
    BY <1>9 DEF budgetVars, BP!cacheVars
  <1>10. CASE UNCHANGED vars
    BY <1>9, <1>10 DEF vars
  <1>11. ASSUME NEW r \in Requests, TakeBudgets(r)
         PROVE  [BP!CacheNext]_(BP!cacheVars)
    <2>1. req[r].replica \in Replicas
      BY <1>11, OnAReplica DEF TakeBudgets
    <2>2. QED
      BY <1>1, <1>9, <1>11, <2>1 DEF TakeBudgets
  <1>12. CASE Next
    BY <1>2, <1>3, <1>4, <1>5, <1>6, <1>7, <1>8, <1>9, <1>11, <1>12
       DEF Next, Arrive, ReadActiveVersion, ReadEntries, ReadHealthyProviders,
           TakeRules, ReadRules, RulesLoaded, ReadBudgets, BudgetsLoaded, ReadSpend,
           ReadFails, Execute, Flush, MutateRules, RuleMutated, MutateBudgets,
           BudgetMutated, ActivatePricing, HealthChanges, Tick, Restart
  <1>13. QED
    BY <1>10, <1>12
(* So what is known of one cache by itself holds of both.                   *)
LEMMA CachesPreserved ==
  ASSUME IInv, [Next]_vars
  PROVE  CachesSound'
  BY StepOfRules, StepOfBudgets, RP!CacheStepPreserves, BP!CacheStepPreserves
     DEF IInv, CachesSound

-----------------------------------------------------------------------------
(* The world.                                                               *)

(* The active table, the healthy providers and the clock stay in range.     *)
LEMMA WorldPreserved ==
  ASSUME IInv, [Next]_vars
  PROVE  WorldSound'
  <1> USE AdmissionAssumption
  <1>1. WorldSound
    BY DEF IInv
  <1>2. CASE UNCHANGED vars \/ UNCHANGED worldVars
    BY <1>1, <1>2 DEF WorldSound, vars, worldVars
  <1>3. ASSUME NEW v \in Versions, ActivatePricing(v)
        PROVE  WorldSound'
    BY <1>1, <1>3 DEF WorldSound, ActivatePricing, Change
  <1>4. ASSUME NEW providers \in SUBSET Providers, HealthChanges(providers)
        PROVE  WorldSound'
    BY <1>1, <1>4 DEF WorldSound, HealthChanges, Change
  <1>5. CASE Tick
    BY <1>1, <1>5 DEF WorldSound, Tick
  <1>6. ASSUME NEW p \in Replicas, Restart(p)
        PROVE  WorldSound'
    BY <1>1, <1>6 DEF WorldSound, Restart, Change
  <1>7. ASSUME NEW w \in Writers, NEW p \in Replicas,
               MutateRules(w, p) \/ MutateBudgets(w, p)
        PROVE  WorldSound'
    BY <1>1, <1>7 DEF WorldSound, MutateRules, MutateBudgets, Change
  <1>8. CASE Next
    BY <1>2, <1>3, <1>4, <1>5, <1>6, <1>7, <1>8
       DEF Next, Arrive, ReadActiveVersion, ReadEntries, ReadHealthyProviders,
           TakeRules, ReadRules, RulesLoaded, TakeBudgets, ReadBudgets, BudgetsLoaded,
           ReadSpend, ReadFails, Execute, Flush, RuleMutated, BudgetMutated
  <1>9. QED
    BY <1>2, <1>8

(* The loads and the locals are functions with known fields.                *)
LEMMA LoadsTyped ==
  ASSUME IInv, NEW q \in Requests
  PROVE  /\ ruleLoad = [r \in Requests |-> ruleLoad[r]]
         /\ budgetLoad = [r \in Requests |-> budgetLoad[r]]
         /\ DOMAIN ruleLoad[q] = {"replica", "rows", "missed"}
         /\ DOMAIN budgetLoad[q] = {"replica", "rows", "missed"}
         /\ req = [r \in Requests |-> req[r]] /\ req[q] = [n \in LocalNames |-> req[q][n]]
  <1>1. /\ ruleLoad \in [Requests -> [ replica : Replicas \union {NoReplica},
                                       rows : RuleTables \union {NotLoaded},
                                       missed : SUBSET RP!Reason ]]
        /\ budgetLoad \in [Requests -> [ replica : Replicas \union {NoReplica},
                                         rows : BudgetTables \union {NotLoaded},
                                         missed : SUBSET BP!Reason ]]
    BY DEF IInv, CachesSound, RP!CacheIInv, BP!CacheIInv, RP!CacheTypeOK, BP!CacheTypeOK
  <1>2. QED
    BY <1>1 DEF IInv, RequestsSound, LocalsSound, LocalsTyped

(* A mutation's commit or end leaves every load on its replica.             *)
LEMMA LoadsStay ==
  ASSUME IInv, NEW w \in Writers, NEW q \in Requests
  PROVE  /\ \A p, rows : Rules!Commit(w, p, rows) =>
              ruleLoad'[q].replica = ruleLoad[q].replica
         /\ \A p, rows : Budgets!Commit(w, p, rows) =>
              budgetLoad'[q].replica = budgetLoad[q].replica
         /\ Rules!Acknowledge(w) \/ Rules!LoseAnswer(w) =>
              ruleLoad'[q].replica = ruleLoad[q].replica
         /\ Budgets!Acknowledge(w) \/ Budgets!LoseAnswer(w) =>
              budgetLoad'[q].replica = budgetLoad[q].replica
  <1>1. /\ DOMAIN ruleLoad[q] = {"replica", "rows", "missed"}
        /\ DOMAIN budgetLoad[q] = {"replica", "rows", "missed"}
    BY LoadsTyped
  <1>2. ASSUME NEW p, NEW rows, Rules!Commit(w, p, rows)
        PROVE  ruleLoad'[q].replica = ruleLoad[q].replica
    BY <1>1, <1>2 DEF Rules!Commit
  <1>3. ASSUME NEW p, NEW rows, Budgets!Commit(w, p, rows)
        PROVE  budgetLoad'[q].replica = budgetLoad[q].replica
    BY <1>1, <1>3 DEF Budgets!Commit
  <1>4. ASSUME Rules!Acknowledge(w) \/ Rules!LoseAnswer(w)
        PROVE  ruleLoad'[q].replica = ruleLoad[q].replica
    BY <1>1, <1>4 DEF Rules!Acknowledge, Rules!LoseAnswer
  <1>5. ASSUME Budgets!Acknowledge(w) \/ Budgets!LoseAnswer(w)
        PROVE  budgetLoad'[q].replica = budgetLoad[q].replica
    BY <1>1, <1>5 DEF Budgets!Acknowledge, Budgets!LoseAnswer
  <1>6. QED
    BY <1>2, <1>3, <1>4, <1>5

(* A load belongs to the handler that awaits it, after every step.          *)
LEMMA LoadsPreserved ==
  ASSUME IInv, [Next]_vars
  PROVE  LoadsBelong'
  <1> SUFFICES ASSUME NEW q \in Requests
               PROVE  /\ ruleLoad'[q].replica # NoReplica =>
                           req'[q].stage = "rules" /\ ruleLoad'[q].replica = req'[q].replica
                      /\ budgetLoad'[q].replica # NoReplica =>
                           req'[q].stage = "budgets" /\ budgetLoad'[q].replica = req'[q].replica
    BY DEF LoadsBelong
  <1> DEFINE Goal == /\ ruleLoad'[q].replica # NoReplica =>
                          req'[q].stage = "rules" /\ ruleLoad'[q].replica = req'[q].replica
                     /\ budgetLoad'[q].replica # NoReplica =>
                          req'[q].stage = "budgets" /\ budgetLoad'[q].replica = req'[q].replica
  <1>1. /\ ruleLoad = [r \in Requests |-> ruleLoad[r]]
        /\ budgetLoad = [r \in Requests |-> budgetLoad[r]]
        /\ DOMAIN ruleLoad[q] = {"replica", "rows", "missed"}
        /\ DOMAIN budgetLoad[q] = {"replica", "rows", "missed"}
        /\ req = [r \in Requests |-> req[r]] /\ req[q] = [n \in LocalNames |-> req[q][n]]
    BY LoadsTyped
  <1>2. /\ ruleLoad[q].replica # NoReplica =>
             req[q].stage = "rules" /\ ruleLoad[q].replica = req[q].replica
        /\ budgetLoad[q].replica # NoReplica =>
             req[q].stage = "budgets" /\ budgetLoad[q].replica = req[q].replica
    BY DEF IInv, LoadsBelong
  <1>3. \A l : l = [n \in LocalNames |-> l[n]] => DOMAIN l = LocalNames
    OBVIOUS
  <1>4. "stage" \in LocalNames /\ "replica" \in LocalNames
    BY DEF LocalNames
  <1>5. CASE UNCHANGED vars
    BY <1>2, <1>5 DEF vars, ruleVars, budgetVars
  <1>6. ASSUME NEW r \in Requests, NEW p \in Replicas, NEW kind \in Kind, Arrive(r, p, kind)
        PROVE  Goal
    <2>1. CASE q = r
      BY <1>1, <1>2, <1>6, <2>1 DEF Arrive, ruleVars, budgetVars
    <2>2. CASE q # r
      BY <1>1, <1>2, <1>6, <2>2 DEF Arrive, ruleVars, budgetVars
    <2>3. QED
      BY <2>1, <2>2
  <1>7. ASSUME NEW r \in Requests,
               ReadActiveVersion(r) \/ ReadEntries(r) \/ ReadHealthyProviders(r)
        PROVE  Goal
    BY <1>1, <1>2, <1>4, <1>7
       DEF ReadActiveVersion, ReadEntries, ReadHealthyProviders, ruleVars, budgetVars
  <1>8. ASSUME NEW r \in Requests, ReadRules(r) \/ ReadBudgets(r)
        PROVE  Goal
    BY <1>1, <1>2, <1>8
       DEF ReadRules, ReadBudgets, Rules!ReadTable, Budgets!ReadTable, ruleVars, budgetVars
  <1>9. ASSUME NEW r \in Requests, Execute(r) \/ ReadSpend(r)
        PROVE  Goal
    <2>1. /\ req[r].stage \in {"running", "spend"}
          /\ ruleLoad' = ruleLoad /\ budgetLoad' = budgetLoad
      BY <1>9 DEF Execute, ReadSpend, ruleVars, budgetVars
    <2>2. q # r => req'[q] = req[q]
      BY <1>1, <1>9 DEF Execute, ReadSpend, Conclude
    <2>3. QED
      BY <1>2, <2>1, <2>2
  <1>10. ASSUME NEW p \in Replicas, Flush(p)
         PROVE  Goal
    BY <1>2, <1>10 DEF Flush, ruleVars, budgetVars
  <1>11. ASSUME NEW providers \in SUBSET Providers, HealthChanges(providers)
         PROVE  Goal
    BY <1>2, <1>11 DEF HealthChanges, ruleVars, budgetVars
  <1>12. ASSUME Tick
         PROVE  Goal
    BY <1>2, <1>12 DEF Tick, ruleVars, budgetVars
  <1>13. ASSUME NEW v \in Versions, ActivatePricing(v)
         PROVE  Goal
    BY <1>1, <1>2, <1>4, <1>13 DEF ActivatePricing, ruleVars, budgetVars
  <1>14. ASSUME NEW w \in Writers, RuleMutated(w) \/ BudgetMutated(w)
         PROVE  Goal
    BY <1>2, <1>14, LoadsStay DEF RuleMutated, BudgetMutated, ruleVars, budgetVars
  <1>15. ASSUME NEW w \in Writers, NEW p \in Replicas,
                MutateRules(w, p) \/ MutateBudgets(w, p)
         PROVE  Goal
    BY <1>2, <1>15, LoadsStay DEF MutateRules, MutateBudgets, ruleVars, budgetVars
  <1>16. ASSUME NEW p \in Replicas, Restart(p)
         PROVE  Goal
    <2>1. CASE req[q].replica = p
      BY <1>1, <1>2, <1>4, <1>16, <2>1, Markers
         DEF Restart, Rules!Restart, Budgets!Restart, Rules!NoLoad, Budgets!NoLoad
    <2>2. CASE req[q].replica # p
      BY <1>1, <1>2, <1>16, <2>2
         DEF Restart, Rules!Restart, Budgets!Restart, Rules!NoLoad, Budgets!NoLoad
    <2>3. QED
      BY <2>1, <2>2
  <1>17. ASSUME NEW r \in Requests, ReadFails(r)
         PROVE  Goal
    BY <1>1, <1>2, <1>17
       DEF ReadFails, Rules!FailLoad, Budgets!FailLoad, Rules!NoLoad, Budgets!NoLoad,
           ruleVars, budgetVars
  <1>18. ASSUME NEW r \in Requests, TakeRules(r)
         PROVE  Goal
    <2>1. q # r => req'[q] = req[q]
      BY <1>1, <1>18 DEF TakeRules, Decide
    <2>2. CASE q # r
      BY <1>1, <1>2, <1>18, <2>1, <2>2
         DEF TakeRules, Rules!StartLoad, ruleVars, budgetVars
    <2>3. CASE q = r /\ UNCHANGED ruleVars
      BY <1>2, <1>18, <2>3 DEF TakeRules, CatalogIn, ruleVars, budgetVars
    <2>4. CASE q = r /\ Rules!StartLoad(r, req[r].replica)
                 /\ req' = [req EXCEPT ![r].stage = "rules"]
      BY <1>1, <1>2, <1>4, <1>18, <2>4
         DEF TakeRules, CatalogIn, Rules!StartLoad, budgetVars
    <2>5. QED
      BY <1>18, <2>2, <2>3, <2>4 DEF TakeRules
  <1>19. ASSUME NEW r \in Requests, RulesLoaded(r)
         PROVE  Goal
    <2>1. q # r => req'[q] = req[q]
      BY <1>1, <1>19 DEF RulesLoaded, Decide
    <2>2. QED
      BY <1>1, <1>2, <1>19, <2>1
         DEF RulesLoaded, Rules!StoreLoad, Rules!NoLoad, budgetVars
  <1>20. ASSUME NEW r \in Requests, TakeBudgets(r)
         PROVE  Goal
    <2>1. q # r => req'[q] = req[q]
      BY <1>1, <1>20 DEF TakeBudgets, ApplyBudgets, Conclude
    <2>2. QED
      BY <1>1, <1>2, <1>20, <2>1
         DEF TakeBudgets, Budgets!StartLoad, ruleVars, budgetVars
  <1>21. ASSUME NEW r \in Requests, BudgetsLoaded(r)
         PROVE  Goal
    <2>1. q # r => req'[q] = req[q]
      BY <1>1, <1>21 DEF BudgetsLoaded, ApplyBudgets, Conclude
    <2>2. QED
      BY <1>1, <1>2, <1>21, <2>1
         DEF BudgetsLoaded, Budgets!StoreLoad, Budgets!NoLoad, ruleVars
  <1> HIDE DEF Goal
  <1>22. ASSUME Next
         PROVE  Goal
    BY <1>6, <1>7, <1>8, <1>9, <1>10, <1>11, <1>12, <1>13, <1>14, <1>15, <1>16, <1>17,
       <1>18, <1>19, <1>20, <1>21, <1>22 DEF Next
  <1>23. QED
    BY <1>5, <1>22 DEF Goal

-----------------------------------------------------------------------------
(* The records.                                                             *)

(* A request that was answered stays so, on the replica it was on.          *)
LEMMA AnsweredStays ==
  ASSUME IInv, [Next]_vars, NEW q \in Requests, req[q].stage = "answered"
  PROVE  req'[q].stage = "answered"
  <1>1. /\ req = [r \in Requests |-> req[r]] /\ req[q] = [n \in LocalNames |-> req[q][n]]
        /\ "stage" \in LocalNames
    BY LoadsTyped DEF LocalNames
  <1>2. /\ ruleLoad[q].replica = NoReplica /\ budgetLoad[q].replica = NoReplica
    BY DEF IInv, LoadsBelong
  <1>3. CASE UNCHANGED req
    BY <1>3
  <1>4. ASSUME NEW r \in Requests, NEW p \in Replicas, NEW kind \in Kind, Arrive(r, p, kind)
        PROVE  req'[q].stage = "answered"
    BY <1>1, <1>4 DEF Arrive
  <1>5. ASSUME NEW r \in Requests,
               ReadActiveVersion(r) \/ ReadEntries(r) \/ ReadHealthyProviders(r) \/ Execute(r)
        PROVE  req'[q].stage = "answered"
    BY <1>1, <1>5 DEF ReadActiveVersion, ReadEntries, ReadHealthyProviders, Execute
  <1>6. ASSUME NEW r \in Requests, TakeRules(r)
        PROVE  req'[q].stage = "answered"
    <2>1. q # r
      BY <1>6 DEF TakeRules, CatalogIn
    <2>2. QED
      BY <1>1, <1>6, <2>1 DEF TakeRules, Decide
  <1>7. ASSUME NEW r \in Requests, RulesLoaded(r)
        PROVE  req'[q].stage = "answered"
    <2>1. q # r
      BY <1>2, <1>7 DEF RulesLoaded, Rules!StoreLoad
    <2>2. QED
      BY <1>1, <1>7, <2>1 DEF RulesLoaded, Decide
  <1>8. ASSUME NEW r \in Requests, TakeBudgets(r)
        PROVE  req'[q].stage = "answered"
    <2>1. q # r
      BY <1>8 DEF TakeBudgets
    <2>2. QED
      BY <1>1, <1>8, <2>1 DEF TakeBudgets, ApplyBudgets, Conclude
  <1>9. ASSUME NEW r \in Requests, BudgetsLoaded(r)
        PROVE  req'[q].stage = "answered"
    <2>1. q # r
      BY <1>2, <1>9 DEF BudgetsLoaded, Budgets!StoreLoad
    <2>2. QED
      BY <1>1, <1>9, <2>1 DEF BudgetsLoaded, ApplyBudgets, Conclude
  <1>10. ASSUME NEW r \in Requests, ReadSpend(r)
         PROVE  req'[q].stage = "answered"
    <2>1. q # r
      BY <1>10 DEF ReadSpend
    <2>2. QED
      BY <1>1, <1>10, <2>1 DEF ReadSpend, Conclude
  <1>11. ASSUME NEW r \in Requests, ReadFails(r)
         PROVE  req'[q].stage = "answered"
    BY <1>1, <1>11 DEF ReadFails, Answer
  <1>12. ASSUME NEW v \in Versions, ActivatePricing(v)
         PROVE  req'[q].stage = "answered"
    BY <1>12 DEF ActivatePricing
  <1>13. ASSUME NEW p \in Replicas, Restart(p)
         PROVE  req'[q].stage = "answered"
    BY <1>1, <1>13 DEF Restart, Answer
  <1>14. CASE Next
    BY <1>3, <1>4, <1>5, <1>6, <1>7, <1>8, <1>9, <1>10, <1>11, <1>12, <1>13, <1>14
       DEF Next, ReadRules, ReadBudgets, Flush, RuleMutated, BudgetMutated,
           MutateRules, MutateBudgets, HealthChanges, Tick
  <1>15. QED
    BY <1>3, <1>14 DEF vars

(* Records are of answered requests, finitely many, each in one place.      *)
LEMMA RecordsPreserved ==
  ASSUME IInv, [Next]_vars
  PROVE  RecordsSound'
  <1>1. RecordsSound
    BY DEF IInv
  <1>2. \A q \in Requests : req[q].stage = "answered" => req'[q].stage = "answered"
    BY AnsweredStays
  <1>3. CASE UNCHANGED telemetryVars
    BY <1>1, <1>2, <1>3 DEF RecordsSound, telemetryVars
  <1>4. ASSUME NEW r \in Requests, Execute(r)
        PROVE  RecordsSound'
    <2>1. PICK charge \in Charges :
            /\ req' = [req EXCEPT ![r].stage = "answered", ![r].charge = charge]
            /\ buffered' = buffered \union
                 {[ eventId |-> r, receivedAt |-> req[r].receivedAt,
                    clientId |-> RequestOf[r].clientId, costUsd |-> charge ]}
      BY <1>4 DEF Execute
    <2> DEFINE record == [ eventId |-> r, receivedAt |-> req[r].receivedAt,
                           clientId |-> RequestOf[r].clientId, costUsd |-> charge ]
    <2>2. events' = events /\ req[r].stage = "running"
      BY <1>4 DEF Execute
    <2>3. req[r].receivedAt \in FirstInstant..LastInstant
      BY <2>2 DEF IInv, RequestsSound, LocalsSound, LocalsTyped
    <2>4. req'[r].stage = "answered"
      BY <2>1, LoadsTyped DEF LocalNames
    <2>5. record.eventId = r /\ record.costUsd = charge /\ record.receivedAt = req[r].receivedAt
      OBVIOUS
    <2>6. buffered' = buffered \union {record}
      BY <2>1
    <2> HIDE DEF record
    <2>7. IsFiniteSet(buffered')
      BY <1>1, <2>6, FS_AddElement DEF RecordsSound
    <2>8. record \notin events
      BY <1>1, <2>2, <2>5 DEF RecordsSound
    <2>9. QED
      BY <1>1, <1>2, <2>2, <2>3, <2>4, <2>5, <2>6, <2>7, <2>8 DEF RecordsSound
  <1>5. ASSUME NEW p \in Replicas, Flush(p)
        PROVE  RecordsSound'
    <2>1. OnReplica(p) \subseteq buffered
      BY DEF OnReplica
    <2>2. IsFiniteSet(OnReplica(p)) /\ IsFiniteSet(buffered \ OnReplica(p))
      BY <1>1, <2>1, FS_Subset DEF RecordsSound
    <2>3. IsFiniteSet(events \union OnReplica(p))
      BY <1>1, <2>2, FS_Union DEF RecordsSound
    <2>4. /\ buffered' = buffered \ OnReplica(p) /\ req' = req
          /\ events' = events \/ events' = events \union OnReplica(p)
      BY <1>5 DEF Flush
    <2>5. IsFiniteSet(buffered') /\ IsFiniteSet(events')
      BY <1>1, <2>2, <2>3, <2>4 DEF RecordsSound
    <2>6. buffered' \union events' \subseteq buffered \union events
      BY <2>1, <2>4
    <2>7. buffered' \intersect events' = {}
      BY <1>1, <2>1, <2>4 DEF RecordsSound
    <2>8. QED
      BY <1>1, <2>4, <2>5, <2>6, <2>7 DEF RecordsSound
  <1>6. ASSUME NEW p \in Replicas, Restart(p)
        PROVE  RecordsSound'
    <2>1. buffered' = buffered \ OnReplica(p) /\ events' = events
      BY <1>6 DEF Restart
    <2>2. IsFiniteSet(buffered')
      BY <1>1, <2>1, FS_Subset DEF RecordsSound
    <2>3. QED
      BY <1>1, <1>2, <2>1, <2>2 DEF RecordsSound
  <1>7. CASE Next
    BY <1>3, <1>4, <1>5, <1>6, <1>7
       DEF Next, Arrive, ReadActiveVersion, ReadEntries, ReadHealthyProviders,
           TakeRules, ReadRules, RulesLoaded, TakeBudgets, ReadBudgets, BudgetsLoaded,
           ReadSpend, ReadFails, RuleMutated, BudgetMutated, MutateRules,
           MutateBudgets, ActivatePricing, HealthChanges, Tick
  <1>8. QED
    BY <1>3, <1>7 DEF vars

-----------------------------------------------------------------------------
(* The locals of one handler, operation by operation.                       *)

(* What an operation makes of a handler's locals l.                         *)
Arrived(l, p, kind, at, v) ==
  [l EXCEPT !.stage = "catalog", !.kind = kind, !.replica = p, !.receivedAt = at,
            !.active = {v}]

Decided(l, outcome) == [l EXCEPT !.stage = "budgets", !.decision = outcome]

Evaluating(l, applicable, at, stored) ==
  [l EXCEPT !.stage = "spend", !.budgets = applicable, !.evaluatedAt = at,
            !.known = stored]

SpendAfter(l, b, stored) ==
  [ id \in {c.budgetId : c \in {c \in l.budgets : SpendGroup(c) = SpendGroup(b)}}
              \union DOMAIN l.spend |->
      IF id \in DOMAIN l.spend THEN l.spend[id] ELSE SpendOf(b, stored, l.evaluatedAt) ]

WithSpend(l, spend) == [l EXCEPT !.spend = spend]

Concluded(l, verdict) ==
  [l EXCEPT !.verdict = verdict,
            !.stage = IF l.kind = "completion" /\ verdict # "blocked"
                        THEN "running" ELSE "answered"]

Charged(l, charge) == [l EXCEPT !.stage = "answered", !.charge = charge]

(* A request arrives: nothing is read yet.                                  *)
LEMMA ArriveSound ==
  ASSUME NEW r, NEW l, LocalsSound(r, l), l.stage = "new",
         NEW p \in Replicas, NEW kind \in Kind, NEW at \in FirstInstant..LastInstant, NEW v,
         NEW m, m = Arrived(l, p, kind, at, v)
  PROVE  LocalsSound(r, m) /\ m.active = {v} /\ m.known = l.known
  <1>1. /\ m.stage = "catalog" /\ m.kind = kind /\ m.replica = p /\ m.receivedAt = at
        /\ m.active = {v} /\ m.version = l.version /\ m.entries = l.entries
        /\ m.decision = l.decision /\ m.budgets = l.budgets /\ m.spend = l.spend
        /\ m.known = l.known
        /\ m = [n \in LocalNames |-> m[n]]
    BY DEF LocalsSound, LocalsTyped, LocalNames, Arrived
  <1>2. LocalsTyped(m)
    BY <1>1, Markers DEF LocalsTyped, Stage
  <1>3. CatalogSound(m)
    BY <1>1 DEF LocalsSound, CatalogSound
  <1>4. BudgetsSound(m)
    BY <1>1 DEF LocalsSound, BudgetsSound
  <1>5. ~Given(m.decision)
    BY <1>1 DEF LocalsSound, CatalogSound
  <1>6. QED
    BY <1>1, <1>2, <1>3, <1>4, <1>5 DEF LocalsSound

(* A read of the catalog comes in.                                          *)
LEMMA CatalogReadSound ==
  ASSUME NEW r, NEW l, LocalsSound(r, l), l.stage = "catalog",
         NEW v \in l.active \intersect Versions, NEW providers, NEW m,
         \/ ~Given(l.version) /\ m = [l EXCEPT !.version = v]
         \/ Given(l.version) /\ m = [l EXCEPT !.entries = EntriesOf[l.version]]
         \/ m = [l EXCEPT !.healthy = providers]
  PROVE  /\ LocalsSound(r, m)
         /\ m.stage = l.stage /\ m.active = l.active /\ m.known = l.known
  <1>1. /\ m.stage = l.stage /\ m.kind = l.kind /\ m.replica = l.replica
        /\ m.receivedAt = l.receivedAt /\ m.active = l.active
        /\ m.decision = l.decision /\ m.budgets = l.budgets /\ m.spend = l.spend
        /\ m.known = l.known
        /\ m = [n \in LocalNames |-> m[n]]
    BY DEF LocalsSound, LocalsTyped, LocalNames
  <1>2. \/ ~Given(l.version) /\ m.version = v /\ m.entries = l.entries
        \/ Given(l.version) /\ m.version = l.version /\ m.entries = EntriesOf[l.version]
        \/ m.version = l.version /\ m.entries = l.entries
    BY DEF LocalsSound, LocalsTyped, LocalNames
  <1>3. LocalsTyped(m)
    BY <1>1 DEF LocalsSound, LocalsTyped
  <1>4. CatalogSound(m)
    BY <1>1, <1>2 DEF LocalsSound, CatalogSound
  <1>5. BudgetsSound(m)
    BY <1>1 DEF LocalsSound, BudgetsSound
  <1>6. Given(m.decision) => DecisionSound(r, m)
    BY <1>1 DEF LocalsSound, DecisionSound
  <1>7. QED
    BY <1>1, <1>3, <1>4, <1>5, <1>6 DEF LocalsSound

(* The handler waits for its rules.                                         *)
LEMMA WaitSound ==
  ASSUME NEW r, NEW l, LocalsSound(r, l), l.stage = "catalog",
         Given(l.entries), Given(l.healthy),
         NEW m, m = [l EXCEPT !.stage = "rules"]
  PROVE  LocalsSound(r, m) /\ m.stage = "rules" /\ m.known = l.known
  <1>1. /\ m.stage = "rules" /\ m.kind = l.kind /\ m.replica = l.replica
        /\ m.receivedAt = l.receivedAt /\ m.active = l.active
        /\ m.version = l.version /\ m.entries = l.entries /\ m.healthy = l.healthy
        /\ m.decision = l.decision /\ m.budgets = l.budgets /\ m.spend = l.spend
        /\ m.known = l.known
        /\ m = [n \in LocalNames |-> m[n]]
    BY DEF LocalsSound, LocalsTyped, LocalNames
  <1>2. LocalsTyped(m)
    BY <1>1 DEF LocalsSound, LocalsTyped, Stage
  <1>3. CatalogSound(m)
    BY <1>1 DEF LocalsSound, CatalogSound
  <1>4. BudgetsSound(m)
    BY <1>1 DEF LocalsSound, BudgetsSound
  <1>5. Given(m.decision) => DecisionSound(r, m)
    BY <1>1 DEF LocalsSound, DecisionSound
  <1>6. QED
    BY <1>1, <1>2, <1>3, <1>4, <1>5 DEF LocalsSound

(* The handler answers, from wherever it was.                               *)
LEMMA AnswerSound ==
  ASSUME NEW r, NEW l, LocalsSound(r, l), l.stage # "new",
         NEW m, m = [l EXCEPT !.stage = "answered"]
  PROVE  LocalsSound(r, m) /\ m.stage = "answered" /\ m.known = l.known
  <1>1. /\ m.stage = "answered" /\ m.kind = l.kind /\ m.replica = l.replica
        /\ m.receivedAt = l.receivedAt /\ m.active = l.active
        /\ m.version = l.version /\ m.entries = l.entries /\ m.healthy = l.healthy
        /\ m.decision = l.decision /\ m.budgets = l.budgets /\ m.spend = l.spend
        /\ m.known = l.known
        /\ m = [n \in LocalNames |-> m[n]]
    BY DEF LocalsSound, LocalsTyped, LocalNames
  <1>2. LocalsTyped(m)
    BY <1>1 DEF LocalsSound, LocalsTyped, Stage
  <1>3. CatalogSound(m)
    BY <1>1 DEF LocalsSound, CatalogSound
  <1>4. BudgetsSound(m)
    BY <1>1 DEF LocalsSound, BudgetsSound
  <1>5. Given(m.decision) => DecisionSound(r, m)
    BY <1>1 DEF LocalsSound, DecisionSound
  <1>6. QED
    BY <1>1, <1>2, <1>3, <1>4, <1>5 DEF LocalsSound

(* Another table becomes active while the handler reads the catalog.        *)
LEMMA ActiveGrows ==
  ASSUME NEW r, NEW l, LocalsSound(r, l), l.stage = "catalog", NEW v,
         NEW m, m = [l EXCEPT !.active = @ \union {v}]
  PROVE  /\ LocalsSound(r, m)
         /\ m.stage = l.stage /\ m.known = l.known /\ m.active = l.active \union {v}
  <1>1. /\ m.stage = l.stage /\ m.kind = l.kind /\ m.replica = l.replica
        /\ m.receivedAt = l.receivedAt /\ m.active = l.active \union {v}
        /\ m.version = l.version /\ m.entries = l.entries /\ m.healthy = l.healthy
        /\ m.decision = l.decision /\ m.budgets = l.budgets /\ m.spend = l.spend
        /\ m.known = l.known
        /\ m = [n \in LocalNames |-> m[n]]
    BY DEF LocalsSound, LocalsTyped, LocalNames
  <1>2. LocalsTyped(m)
    BY <1>1 DEF LocalsSound, LocalsTyped
  <1>3. CatalogSound(m)
    BY <1>1 DEF LocalsSound, CatalogSound
  <1>4. BudgetsSound(m)
    BY <1>1 DEF LocalsSound, BudgetsSound
  <1>5. Given(m.decision) => DecisionSound(r, m)
    BY <1>1 DEF LocalsSound, DecisionSound
  <1>6. QED
    BY <1>1, <1>2, <1>3, <1>4, <1>5 DEF LocalsSound

(* The decision is made on the catalog the handler read.                    *)
LEMMA DecideSound ==
  ASSUME NEW r \in Requests, NEW l, LocalsSound(r, l), l.stage \in {"catalog", "rules"},
         Given(l.entries), NEW rules, NEW snapshot,
         snapshot.pricingTable = [versionId |-> l.version, entries |-> l.entries],
         snapshot.models = BuildCatalog(Models, snapshot.pricingTable, l.healthy),
         NEW outcome, outcome = ResolveRoutingDecision(RequestOf[r], rules, snapshot),
         IsDecision(outcome), NEW m, m = Decided(l, outcome)
  PROVE  LocalsSound(r, m) /\ m.stage = "budgets" /\ m.known = l.known
  <1>1. /\ m.stage = "budgets" /\ m.kind = l.kind /\ m.replica = l.replica
        /\ m.receivedAt = l.receivedAt /\ m.active = l.active
        /\ m.version = l.version /\ m.entries = l.entries /\ m.healthy = l.healthy
        /\ m.decision = outcome /\ m.budgets = l.budgets /\ m.spend = l.spend
        /\ m.known = l.known
        /\ m = [n \in LocalNames |-> m[n]]
    BY DEF LocalsSound, LocalsTyped, LocalNames, Decided
  <1>2. /\ l.version \in l.active /\ l.version \in Versions
        /\ snapshot.pricingTable = TableOf(l.version)
    BY DEF LocalsSound, CatalogSound, TableOf
  <1> DEFINE table == TableOf(l.version)
             chosen == [ providerId |-> outcome.chosenProviderId,
                         modelId |-> outcome.chosenModelId ]
  <1>3. IsTable(table)
    BY <1>2, AdmissionAssumption DEF IsTable, TableOf
  <1>4. RequestOf[r].estimatedInputTokens \in Nat
    BY AdmissionAssumption
  <1>5. IsCatalog(snapshot.models, table)
    BY <1>2, BuiltCatalog, AdmissionAssumption
  <1> HIDE DEF table
  <1>6. snapshot.pricingTable = table /\ table.versionId = l.version
    BY <1>2 DEF table, TableOf
  <1>7. PICK i \in DOMAIN snapshot.models :
          Chooses(outcome, RequestOf[r], table, snapshot.models[i])
    BY <1>3, <1>4, <1>5, <1>6, DecisionIsPriced
  <1>8. /\ outcome.pricingTableVersionId = l.version
        /\ outcome.estimatedCostUsd = RequestCost(RequestOf[r], table, snapshot.models[i])
        /\ chosen.providerId = snapshot.models[i].providerId
        /\ chosen.modelId = snapshot.models[i].modelId
    BY <1>6, <1>7 DEF Chooses
  <1> HIDE DEF chosen
  <1>9. outcome.estimatedCostUsd = RequestCost(RequestOf[r], table, chosen)
    BY <1>8, CostByIdentity
  <1>10. outcome.estimatedCostUsd \in Nat
    BY <1>3, <1>4, <1>5, <1>8, CostOfPriced DEF IsCatalog
  <1>11. DecisionSound(r, m)
    BY <1>1, <1>2, <1>8, <1>9, <1>10 DEF DecisionSound, chosen, table
  <1>12. LocalsTyped(m)
    BY <1>1 DEF LocalsSound, LocalsTyped, Stage
  <1>13. CatalogSound(m)
    BY <1>1 DEF LocalsSound, CatalogSound
  <1>14. BudgetsSound(m)
    BY <1>1 DEF LocalsSound, BudgetsSound
  <1>15. QED
    BY <1>1, <1>11, <1>12, <1>13, <1>14 DEF LocalsSound

(* Budgets apply: their spend is read from this instant on.                 *)
LEMMA EvaluationStarts ==
  ASSUME NEW r, NEW l, LocalsSound(r, l), l.stage = "budgets",
         NEW table \in BudgetTables, NEW applicable \in SUBSET table, NEW stored, NEW at,
         NEW m, m = Evaluating(l, applicable, at, stored)
  PROVE  LocalsSound(r, m) /\ m.stage = "spend" /\ m.known = stored
  <1>1. /\ m.stage = "spend" /\ m.kind = l.kind /\ m.replica = l.replica
        /\ m.receivedAt = l.receivedAt /\ m.active = l.active
        /\ m.version = l.version /\ m.entries = l.entries /\ m.healthy = l.healthy
        /\ m.decision = l.decision /\ m.budgets = applicable /\ m.spend = l.spend
        /\ m.known = stored
        /\ m = [n \in LocalNames |-> m[n]]
    BY DEF LocalsSound, LocalsTyped, LocalNames, Evaluating
  <1>2. LocalsTyped(m)
    BY <1>1 DEF LocalsSound, LocalsTyped, Stage
  <1>3. CatalogSound(m)
    BY <1>1 DEF LocalsSound, CatalogSound
  <1>4. BudgetsSound(m)
    <2>1. m.spend = << >>
      BY <1>1 DEF LocalsSound, BudgetsSound
    <2>2. DOMAIN m.spend = {}
      BY <2>1
    <2>3. SpendCovers(m)
      BY <2>2 DEF SpendCovers
    <2>4. \A b, c \in m.budgets : IsBudget(b) /\ (b.budgetId = c.budgetId => b = c)
      BY <1>1, AdmissionAssumption
    <2>5. QED
      BY <1>1, <2>2, <2>3, <2>4 DEF BudgetsSound
  <1>5. DecisionSound(r, m)
    BY <1>1 DEF LocalsSound, DecisionSound
  <1>6. QED
    BY <1>1, <1>2, <1>3, <1>4, <1>5 DEF LocalsSound

(* A verdict comes in, with room wherever it does not block.                *)
LEMMA ConcludeSound ==
  ASSUME NEW r, NEW l, LocalsSound(r, l), l.stage \in {"budgets", "spend"},
         NEW verdict, verdict # "blocked" => HasRoom(l), NEW m, m = Concluded(l, verdict)
  PROVE  LocalsSound(r, m) /\ m.stage \in {"running", "answered"} /\ m.known = l.known
  <1> DEFINE s == IF l.kind = "completion" /\ verdict # "blocked"
                    THEN "running" ELSE "answered"
  <1>1. /\ s \in {"running", "answered"}
        /\ s = "running" => l.kind = "completion" /\ verdict # "blocked"
    OBVIOUS
  <1>2. m = [l EXCEPT !.verdict = verdict, !.stage = s]
    BY DEF Concluded
  <1> HIDE DEF s
  <1>3. /\ m.stage = s /\ m.kind = l.kind /\ m.replica = l.replica
        /\ m.receivedAt = l.receivedAt /\ m.active = l.active
        /\ m.version = l.version /\ m.entries = l.entries /\ m.healthy = l.healthy
        /\ m.decision = l.decision /\ m.budgets = l.budgets /\ m.spend = l.spend
        /\ m.known = l.known /\ m.evaluatedAt = l.evaluatedAt /\ m.verdict = verdict
        /\ m = [n \in LocalNames |-> m[n]]
    BY <1>2 DEF LocalsSound, LocalsTyped, LocalNames
  <1>4. LocalsTyped(m)
    BY <1>1, <1>3 DEF LocalsSound, LocalsTyped, Stage
  <1>5. CatalogSound(m)
    BY <1>1, <1>3 DEF LocalsSound, CatalogSound
  <1>6. s = "running" => HasRoom(m)
    BY <1>1, <1>3 DEF HasRoom
  <1>7. BudgetsSound(m)
    <2>1. /\ m.stage # "spend" /\ m.stage \notin {"new", "catalog", "rules", "budgets"}
          /\ m.stage = "running" =>
               m.kind = "completion" /\ m.verdict # "blocked" /\ HasRoom(m)
      BY <1>1, <1>3, <1>6
    <2>2. \A b, c \in m.budgets : IsBudget(b) /\ (b.budgetId = c.budgetId => b = c)
      BY <1>3 DEF LocalsSound, BudgetsSound
    <2>3. DOMAIN m.spend \subseteq {b.budgetId : b \in m.budgets}
      BY <1>3 DEF LocalsSound, BudgetsSound
    <2>4. QED
      BY <2>1, <2>2, <2>3 DEF BudgetsSound
  <1>8. DecisionSound(r, m)
    BY <1>3 DEF LocalsSound, DecisionSound
  <1>9. QED
    BY <1>1, <1>3, <1>4, <1>5, <1>7, <1>8 DEF LocalsSound

(* The providers have answered.                                             *)
LEMMA ChargeSound ==
  ASSUME NEW r, NEW l, LocalsSound(r, l), l.stage = "running", NEW charge,
         NEW m, m = Charged(l, charge)
  PROVE  LocalsSound(r, m) /\ m.stage = "answered" /\ m.known = l.known
  <1>1. /\ m.stage = "answered" /\ m.kind = l.kind /\ m.replica = l.replica
        /\ m.receivedAt = l.receivedAt /\ m.active = l.active
        /\ m.version = l.version /\ m.entries = l.entries /\ m.healthy = l.healthy
        /\ m.decision = l.decision /\ m.budgets = l.budgets /\ m.spend = l.spend
        /\ m.known = l.known
        /\ m = [n \in LocalNames |-> m[n]]
    BY DEF LocalsSound, LocalsTyped, LocalNames, Charged
  <1>2. LocalsTyped(m)
    BY <1>1 DEF LocalsSound, LocalsTyped, Stage
  <1>3. CatalogSound(m)
    BY <1>1 DEF LocalsSound, CatalogSound
  <1>4. BudgetsSound(m)
    BY <1>1 DEF LocalsSound, BudgetsSound
  <1>5. Given(m.decision) => DecisionSound(r, m)
    BY <1>1 DEF LocalsSound, DecisionSound
  <1>6. QED
    BY <1>1, <1>2, <1>3, <1>4, <1>5 DEF LocalsSound

(* The spend of one group of budgets is read: it covers what was on record  *)
(* when the evaluation began, which is still on record.                     *)
LEMMA SpendReadSound ==
  ASSUME NEW r, NEW l, LocalsSound(r, l), l.stage = "spend", NEW stored,
         IsFiniteSet(stored), CostsAreNumbers(stored), l.known \subseteq stored,
         NEW b \in l.budgets, NEW spend, spend = SpendAfter(l, b, stored),
         NEW m, m = WithSpend(l, spend)
  PROVE  LocalsSound(r, m) /\ m.stage = "spend" /\ m.known = l.known /\ m.spend = spend
  <1> DEFINE group == {c \in l.budgets : SpendGroup(c) = SpendGroup(b)}
             ids == {c.budgetId : c \in group}
             sum == SpendOf(b, stored, l.evaluatedAt)
  <1>1. /\ DOMAIN spend = ids \union DOMAIN l.spend
        /\ \A id \in DOMAIN l.spend : spend[id] = l.spend[id]
        /\ \A id \in ids \ DOMAIN l.spend : spend[id] = sum
    <2>1. spend = [ id \in ids \union DOMAIN l.spend |->
                      IF id \in DOMAIN l.spend THEN l.spend[id] ELSE sum ]
      BY DEF SpendAfter
    <2> HIDE DEF ids, sum
    <2>2. QED
      BY <2>1
  <1> HIDE DEF sum
  <1>2. /\ m.stage = "spend" /\ m.kind = l.kind /\ m.replica = l.replica
        /\ m.receivedAt = l.receivedAt /\ m.active = l.active
        /\ m.version = l.version /\ m.entries = l.entries /\ m.healthy = l.healthy
        /\ m.decision = l.decision /\ m.budgets = l.budgets /\ m.spend = spend
        /\ m.known = l.known /\ m.evaluatedAt = l.evaluatedAt
        /\ m = [n \in LocalNames |-> m[n]]
    BY DEF LocalsSound, LocalsTyped, LocalNames, WithSpend
  <1>3. LocalsTyped(m)
    BY <1>2 DEF LocalsSound, LocalsTyped
  <1>4. CatalogSound(m)
    BY <1>2 DEF LocalsSound, CatalogSound
  <1>5. \A c, d \in l.budgets : IsBudget(c) /\ (c.budgetId = d.budgetId => c = d)
    BY DEF LocalsSound, BudgetsSound
  <1>6. SpendCovers(l)
    BY DEF LocalsSound, BudgetsSound
  <1>7. ASSUME NEW c \in m.budgets, c.budgetId \in DOMAIN m.spend
        PROVE  /\ m.spend[c.budgetId] \in Nat
               /\ SpendOf(c, m.known, m.evaluatedAt) \in Nat
               /\ SpendOf(c, m.known, m.evaluatedAt) <= m.spend[c.budgetId]
    <2>1. CASE c.budgetId \in ids \ DOMAIN l.spend
      <3>1. PICK d \in group : c.budgetId = d.budgetId
        BY <2>1
      <3>2. c \in group
        BY <1>2, <1>5, <1>7, <3>1
      <3>3. sum = SpendOf(c, stored, l.evaluatedAt)
        BY <3>2, SpendOfGroup DEF sum
      <3>4. m.spend[c.budgetId] = SpendOf(c, stored, l.evaluatedAt)
        BY <1>1, <1>2, <2>1, <3>3
      <3>5. QED
        BY <1>2, <3>4, SpendGrows
    <2>2. CASE c.budgetId \in DOMAIN l.spend
      BY <1>1, <1>2, <1>6, <1>7, <2>2 DEF SpendCovers
    <2>3. QED
      BY <1>1, <1>2, <1>7, <2>1, <2>2
  <1>8. SpendCovers(m)
    BY <1>7 DEF SpendCovers
  <1>9. BudgetsSound(m)
    <2>1. DOMAIN l.spend \subseteq {c.budgetId : c \in l.budgets}
      BY DEF LocalsSound, BudgetsSound
    <2>2. DOMAIN m.spend \subseteq {c.budgetId : c \in m.budgets}
      BY <1>1, <1>2, <2>1
    <2>3. QED
      BY <1>2, <1>5, <1>8, <2>2 DEF BudgetsSound
  <1>10. DecisionSound(r, m)
    BY <1>2 DEF LocalsSound, DecisionSound
  <1>11. QED
    BY <1>2, <1>3, <1>4, <1>9, <1>10 DEF LocalsSound

(* With every budget's spend read, a verdict that does not block leaves     *)
(* room also by what was on record when the evaluation began.               *)
LEMMA RoomLeft ==
  ASSUME NEW r, NEW l, LocalsSound(r, l), l.stage = "spend",
         \A c \in l.budgets : c.budgetId \in DOMAIN l.spend,
         EvaluateBudgets(l.budgets, l.spend, l.decision.estimatedCostUsd).decision # "blocked"
  PROVE  HasRoom(l)
  <1> DEFINE cost == l.decision.estimatedCostUsd
  <1>1. cost \in Nat
    BY DEF LocalsSound, DecisionSound
  <1>2. SUFFICES ASSUME NEW b \in l.budgets, b.action = "block"
                 PROVE  SpendOf(b, l.known, l.evaluatedAt) + cost < b.limitUsd
    BY DEF HasRoom
  <1>3. l.spend[b.budgetId] + cost < b.limitUsd
    BY <1>2, VerdictLeavesRoom
  <1>4. b.limitUsd \in Nat
    BY DEF LocalsSound, BudgetsSound, IsBudget
  <1>5. /\ l.spend[b.budgetId] \in Nat
        /\ SpendOf(b, l.known, l.evaluatedAt) \in Nat
        /\ SpendOf(b, l.known, l.evaluatedAt) <= l.spend[b.budgetId]
    BY DEF LocalsSound, BudgetsSound, SpendCovers
  <1> HIDE DEF cost
  <1>6. \A x, y, z, w \in Nat : x <= y /\ y + z < w => x + z < w
    OBVIOUS
  <1>7. QED
    BY <1>1, <1>3, <1>4, <1>5, <1>6

-----------------------------------------------------------------------------
(* The handlers, step by step.                                              *)

(* One handler moves to sound locals, and all the others stay.              *)
LEMMA OneHandlerMoves ==
  ASSUME IInv, NEW r \in Requests,
         req' = [q \in Requests |-> IF q = r THEN req'[r] ELSE req[q]],
         UNCHANGED << events, activeVersion >>,
         LocalsSound(r, req'[r]), req'[r].known \subseteq events,
         req'[r].stage = "catalog" => activeVersion \in req'[r].active
  PROVE  RequestsSound'
  <1>1. \A q \in Requests : req'[q] = IF q = r THEN req'[r] ELSE req[q]
    OBVIOUS
  <1>2. req' = [q \in Requests |-> req'[q]]
    OBVIOUS
  <1>3. \A q \in Requests :
          LocalsSound(q, req'[q]) /\ InItsWorld(req'[q], events', activeVersion')
    BY <1>1 DEF IInv, RequestsSound, InItsWorld
  <1>4. QED
    BY <1>2, <1>3 DEF RequestsSound

(* What holds of a handler before its step.                                 *)
LEMMA HandlerSound ==
  ASSUME IInv, NEW r \in Requests
  PROVE  /\ LocalsSound(r, req[r]) /\ req[r].known \subseteq events
         /\ req[r].stage = "catalog" => activeVersion \in req[r].active
  BY DEF IInv, RequestsSound, InItsWorld

(* The handlers are a function, and their locals too.                       *)
LEMMA HandlersTyped ==
  ASSUME IInv, NEW r \in Requests
  PROVE  req = [q \in Requests |-> req[q]] /\ req[r] = [n \in LocalNames |-> req[r][n]]
  BY DEF IInv, RequestsSound, LocalsSound, LocalsTyped

(* A request arrives.                                                       *)
LEMMA ArriveKeeps ==
  ASSUME IInv, NEW r \in Requests, NEW p \in Replicas, NEW kind \in Kind,
         Arrive(r, p, kind)
  PROVE  RequestsSound'
  <1>0. LocalsSound(r, req[r])
    BY HandlerSound
  <1>1. /\ req[r].stage = "new" /\ UNCHANGED << events, activeVersion >>
        /\ req'[r] = Arrived(req[r], p, kind, now, activeVersion)
        /\ req' = [q \in Requests |-> IF q = r THEN req'[r] ELSE req[q]]
    BY HandlersTyped DEF Arrive, Arrived, worldVars, telemetryVars
  <1>2. now \in FirstInstant..LastInstant
    BY DEF IInv, WorldSound
  <1>3. /\ LocalsSound(r, req'[r]) /\ req'[r].active = {activeVersion}
        /\ req'[r].known = req[r].known
    BY <1>0, <1>1, <1>2, ArriveSound
  <1>4. QED
    BY <1>1, <1>3, HandlerSound, OneHandlerMoves

(* The handler reads the version, the entries or the healthy providers.     *)
LEMMA CatalogReadKeeps ==
  ASSUME IInv, NEW r \in Requests,
         ReadActiveVersion(r) \/ ReadEntries(r) \/ ReadHealthyProviders(r)
  PROVE  RequestsSound'
  <1>0. LocalsSound(r, req[r])
    BY HandlerSound
  <1>1. /\ req[r].stage = "catalog" /\ UNCHANGED << events, activeVersion >>
        /\ \/ /\ ~Given(req[r].version)
              /\ req'[r] = [req[r] EXCEPT !.version = activeVersion]
           \/ /\ Given(req[r].version)
              /\ req'[r] = [req[r] EXCEPT !.entries = EntriesOf[req[r].version]]
           \/ req'[r] = [req[r] EXCEPT !.healthy = healthy]
        /\ req' = [q \in Requests |-> IF q = r THEN req'[r] ELSE req[q]]
    BY HandlersTyped DEF ReadActiveVersion, ReadEntries, ReadHealthyProviders, worldVars, telemetryVars
  <1>2. activeVersion \in req[r].active \intersect Versions
    BY <1>1, HandlerSound DEF IInv, WorldSound
  <1>3. /\ LocalsSound(r, req'[r]) /\ req'[r].active = req[r].active
        /\ req'[r].known = req[r].known
    BY <1>0, <1>1, <1>2, CatalogReadSound
  <1>4. QED
    BY <1>1, <1>2, <1>3, HandlerSound, OneHandlerMoves

(* The handler decides on some rules.                                       *)
LEMMA DecideKeeps ==
  ASSUME IInv, NEW r \in Requests, req[r].stage \in {"catalog", "rules"},
         Given(req[r].entries), NEW rules, Decide(r, rules),
         UNCHANGED << events, activeVersion >>
  PROVE  RequestsSound'
  <1>0. LocalsSound(r, req[r])
    BY HandlerSound
  <1> DEFINE outcome == ResolveRoutingDecision(RequestOf[r], rules, Snapshot(r))
  <1>1. /\ req'[r] = IF IsDecision(outcome)
                       THEN Decided(req[r], outcome)
                       ELSE Answer(r)
        /\ req' = [q \in Requests |-> IF q = r THEN req'[r] ELSE req[q]]
    BY HandlersTyped DEF Decide, Decided
  <1>2. /\ Snapshot(r).pricingTable =
             [versionId |-> req[r].version, entries |-> req[r].entries]
        /\ Snapshot(r).models =
             BuildCatalog(Models, Snapshot(r).pricingTable, req[r].healthy)
    BY DEF Snapshot, PricingTable
  <1>3. CASE IsDecision(outcome)
    <2>1. outcome = ResolveRoutingDecision(RequestOf[r], rules, Snapshot(r))
      OBVIOUS
    <2> HIDE DEF outcome
    <2>2. req'[r] = Decided(req[r], outcome)
      BY <1>1, <1>3
    <2>3. /\ LocalsSound(r, req'[r]) /\ req'[r].stage = "budgets"
          /\ req'[r].known = req[r].known
      BY <1>0, <1>2, <1>3, <2>1, <2>2, DecideSound
    <2>4. QED
      BY <1>1, <2>3, HandlerSound, OneHandlerMoves
  <1>4. CASE ~IsDecision(outcome)
    <2>1. req'[r] = [req[r] EXCEPT !.stage = "answered"]
      BY <1>1, <1>4 DEF Answer
    <2>2. /\ LocalsSound(r, req'[r]) /\ req'[r].stage = "answered"
          /\ req'[r].known = req[r].known
      BY <1>0, <2>1, AnswerSound
    <2>3. QED
      BY <1>1, <2>2, HandlerSound, OneHandlerMoves
  <1>5. QED
    BY <1>3, <1>4

(* The handler takes its rules from the copy, or waits for them.            *)
LEMMA RulesKeep ==
  ASSUME IInv, NEW r \in Requests, TakeRules(r) \/ RulesLoaded(r)
  PROVE  RequestsSound'
  <1>0. LocalsSound(r, req[r])
    BY HandlerSound
  <1>1. UNCHANGED << events, activeVersion >>
    BY DEF TakeRules, RulesLoaded, worldVars, telemetryVars
  <1>2. ASSUME NEW rules, Decide(r, rules), TakeRules(r)
        PROVE  RequestsSound'
    BY <1>1, <1>2, DecideKeeps DEF TakeRules, CatalogIn
  <1>3. CASE TakeRules(r) /\ req' = [req EXCEPT ![r].stage = "rules"]
    <2>1. /\ req'[r] = [req[r] EXCEPT !.stage = "rules"]
          /\ req' = [q \in Requests |-> IF q = r THEN req'[r] ELSE req[q]]
      BY <1>3, HandlersTyped
    <2>2. /\ LocalsSound(r, req'[r]) /\ req'[r].stage = "rules"
          /\ req'[r].known = req[r].known
      BY <1>0, <1>3, <2>1, WaitSound DEF TakeRules, CatalogIn
    <2>3. QED
      BY <1>1, <2>1, <2>2, HandlerSound, OneHandlerMoves
  <1>4. CASE RulesLoaded(r)
    <2>1. ruleLoad[r].replica # NoReplica /\ Decide(r, ruleLoad[r].rows)
      BY <1>4 DEF RulesLoaded, Rules!StoreLoad
    <2>2. req[r].stage = "rules"
      BY <2>1 DEF IInv, LoadsBelong
    <2>3. Given(req[r].entries)
      BY <1>0, <2>2 DEF LocalsSound, CatalogSound
    <2>4. QED
      BY <1>1, <2>1, <2>2, <2>3, DecideKeeps
  <1>5. QED
    BY <1>2, <1>3, <1>4 DEF TakeRules

(* The handler has its budgets: none applies, or their spend is to be read. *)
LEMMA ApplyKeeps ==
  ASSUME IInv, NEW r \in Requests, req[r].stage = "budgets",
         NEW table \in BudgetTables, ApplyBudgets(r, table),
         UNCHANGED << events, activeVersion >>
  PROVE  RequestsSound'
  <1>0. LocalsSound(r, req[r])
    BY HandlerSound
  <1> DEFINE applicable == Applicable(table, RequestOf[r].clientId)
  <1>1. CASE applicable = {}
    <2>1. Conclude(r, req[r], "no_budget")
      BY <1>1 DEF ApplyBudgets
    <2>2. /\ req'[r] = Concluded(req[r], "no_budget")
          /\ req' = [q \in Requests |-> IF q = r THEN req'[r] ELSE req[q]]
      BY <2>1, HandlersTyped DEF Conclude, Concluded
    <2>3. HasRoom(req[r])
      BY <1>0 DEF HasRoom, LocalsSound, BudgetsSound
    <2>4. /\ LocalsSound(r, req'[r]) /\ req'[r].stage \in {"running", "answered"}
          /\ req'[r].known = req[r].known
      BY <1>0, <2>2, <2>3, ConcludeSound
    <2>5. QED
      BY <2>2, <2>4, HandlerSound, OneHandlerMoves
  <1>2. CASE applicable # {}
    <2>1. /\ req'[r] = Evaluating(req[r], applicable, now, events)
          /\ req' = [q \in Requests |-> IF q = r THEN req'[r] ELSE req[q]]
      BY <1>2, HandlersTyped DEF ApplyBudgets, Evaluating
    <2>2. applicable \in SUBSET table
      BY DEF Applicable
    <2> HIDE DEF applicable
    <2>3. /\ LocalsSound(r, req'[r]) /\ req'[r].stage = "spend"
          /\ req'[r].known = events
      BY <1>0, <2>1, <2>2, EvaluationStarts
    <2>4. QED
      BY <2>1, <2>3, HandlerSound, OneHandlerMoves
  <1>3. QED
    BY <1>1, <1>2

(* The handler takes its budgets from the copy, or waits for them.          *)
LEMMA BudgetsKeep ==
  ASSUME IInv, NEW r \in Requests, TakeBudgets(r) \/ BudgetsLoaded(r)
  PROVE  RequestsSound'
  <1>1. UNCHANGED << events, activeVersion >>
    BY DEF TakeBudgets, BudgetsLoaded, worldVars, telemetryVars
  <1>2. /\ budgetCache \in [Replicas -> BudgetTables \union {NotLoaded}]
        /\ budgetLoad[r].rows \in BudgetTables \union {NotLoaded}
    BY DEF IInv, CachesSound, BP!CacheIInv, BP!CacheTypeOK
  <1>3. CASE TakeBudgets(r) /\ req' = req
    BY <1>1, <1>3 DEF IInv, RequestsSound, InItsWorld
  <1>4. ASSUME TakeBudgets(r), ApplyBudgets(r, budgetCache[req[r].replica]),
               budgetCache[req[r].replica] # NotLoaded
        PROVE  RequestsSound'
    <2>1. req[r].stage = "budgets" /\ req[r].replica \in Replicas
      BY <1>4, OnAReplica DEF TakeBudgets
    <2>2. budgetCache[req[r].replica] \in BudgetTables
      BY <1>2, <1>4, <2>1
    <2>3. QED
      BY <1>1, <1>4, <2>1, <2>2, ApplyKeeps
  <1>5. CASE BudgetsLoaded(r)
    <2>1. /\ budgetLoad[r].replica # NoReplica /\ budgetLoad[r].rows # NotLoaded
          /\ ApplyBudgets(r, budgetLoad[r].rows)
      BY <1>5 DEF BudgetsLoaded, Budgets!StoreLoad
    <2>2. req[r].stage = "budgets"
      BY <2>1 DEF IInv, LoadsBelong
    <2>3. QED
      BY <1>1, <1>2, <2>1, <2>2, ApplyKeeps
  <1>6. QED
    BY <1>3, <1>4, <1>5 DEF TakeBudgets

(* A group's spend is read; the last one brings the verdict.                *)
LEMMA ReadSpendKeeps ==
  ASSUME IInv, NEW r \in Requests, ReadSpend(r)
  PROVE  RequestsSound'
  <1>0. LocalsSound(r, req[r])
    BY HandlerSound
  <1>1. PICK b \in Unread(r) :
          LET group == {c \in req[r].budgets : SpendGroup(c) = SpendGroup(b)}
              read == req[r].spend
              spend == [ id \in {c.budgetId : c \in group} \union DOMAIN read |->
                           IF id \in DOMAIN read THEN read[id] ELSE Spent(r, b) ]
              locals == [req[r] EXCEPT !.spend = spend]
          IN  IF \A c \in req[r].budgets : c.budgetId \in DOMAIN spend
                THEN Conclude(r, locals, Judge(r, spend))
                ELSE req' = [req EXCEPT ![r] = locals]
    BY DEF ReadSpend
  <1> DEFINE spend == SpendAfter(req[r], b, events)
             locals == WithSpend(req[r], spend)
             verdict == Judge(r, spend)
  <1>2. /\ b \in req[r].budgets /\ req[r].stage = "spend"
        /\ UNCHANGED << events, activeVersion >>
    BY DEF Unread, ReadSpend, worldVars, telemetryVars
  <1>3. IF \A c \in req[r].budgets : c.budgetId \in DOMAIN spend
          THEN Conclude(r, locals, verdict)
          ELSE req' = [req EXCEPT ![r] = locals]
    BY <1>1 DEF Spent, SpendAfter, WithSpend
  <1>4. IsFiniteSet(events) /\ CostsAreNumbers(events)
    BY AdmissionAssumption DEF IInv, RecordsSound, CostsAreNumbers
  <1>5. /\ LocalsSound(r, locals) /\ locals.stage = "spend"
        /\ locals.known = req[r].known /\ locals.spend = spend
    <2>1. req[r].known \subseteq events
      BY HandlerSound
    <2>2. spend = SpendAfter(req[r], b, events) /\ locals = WithSpend(req[r], spend)
      OBVIOUS
    <2> HIDE DEF spend, locals
    <2>3. QED
      BY <1>0, <1>2, <1>4, <2>1, <2>2, SpendReadSound
  <1>6. locals.budgets = req[r].budgets /\ locals.decision = req[r].decision
    BY HandlersTyped DEF LocalNames, WithSpend
  <1>7. verdict = EvaluateBudgets(locals.budgets, locals.spend,
                                  locals.decision.estimatedCostUsd).decision
    BY <1>5, <1>6 DEF Judge
  <1> HIDE DEF spend, locals, verdict
  <1>8. CASE \A c \in req[r].budgets : c.budgetId \in DOMAIN spend
    <2>1. /\ req'[r] = Concluded(locals, verdict)
          /\ req' = [q \in Requests |-> IF q = r THEN req'[r] ELSE req[q]]
      BY <1>3, <1>8, HandlersTyped DEF Conclude, Concluded
    <2>2. verdict # "blocked" => HasRoom(locals)
      BY <1>5, <1>6, <1>7, <1>8, RoomLeft
    <2>3. /\ LocalsSound(r, req'[r]) /\ req'[r].stage \in {"running", "answered"}
          /\ req'[r].known = req[r].known
      BY <1>0, <1>5, <2>1, <2>2, ConcludeSound
    <2>4. QED
      BY <1>2, <2>1, <2>3, HandlerSound, OneHandlerMoves
  <1>9. CASE ~\A c \in req[r].budgets : c.budgetId \in DOMAIN spend
    <2>1. /\ req'[r] = locals
          /\ req' = [q \in Requests |-> IF q = r THEN req'[r] ELSE req[q]]
      BY <1>3, <1>9, HandlersTyped
    <2>2. QED
      BY <1>2, <1>5, <2>1, HandlerSound, OneHandlerMoves
  <1>10. QED
    BY <1>8, <1>9

(* A handler's read fails, or its providers have answered.                  *)
LEMMA AnsweredKeeps ==
  ASSUME IInv, NEW r \in Requests, ReadFails(r) \/ Execute(r)
  PROVE  RequestsSound'
  <1>0. LocalsSound(r, req[r])
    BY HandlerSound
  <1>1. CASE ReadFails(r)
    <2>1. /\ req[r].stage # "new" /\ UNCHANGED << events, activeVersion >>
          /\ req'[r] = [req[r] EXCEPT !.stage = "answered"]
          /\ req' = [q \in Requests |-> IF q = r THEN req'[r] ELSE req[q]]
      BY <1>1, HandlersTyped DEF ReadFails, Answer, worldVars, telemetryVars
    <2>2. /\ LocalsSound(r, req'[r]) /\ req'[r].stage = "answered"
          /\ req'[r].known = req[r].known
      BY <1>0, <2>1, AnswerSound
    <2>3. QED
      BY <2>1, <2>2, HandlerSound, OneHandlerMoves
  <1>2. CASE Execute(r)
    <2>1. PICK charge \in Charges :
            req' = [req EXCEPT ![r].stage = "answered", ![r].charge = charge]
      BY <1>2 DEF Execute
    <2>2. /\ req[r].stage = "running" /\ UNCHANGED << events, activeVersion >>
          /\ req'[r] = Charged(req[r], charge)
          /\ req' = [q \in Requests |-> IF q = r THEN req'[r] ELSE req[q]]
      BY <1>2, <2>1, HandlersTyped DEF Execute, Charged, worldVars
    <2>3. /\ LocalsSound(r, req'[r]) /\ req'[r].stage = "answered"
          /\ req'[r].known = req[r].known
      BY <1>0, <2>2, ChargeSound
    <2>4. QED
      BY <2>2, <2>3, HandlerSound, OneHandlerMoves
  <1>3. QED
    BY <1>1, <1>2

(* Another pricing table becomes active.                                    *)
LEMMA ActivateKeeps ==
  ASSUME IInv, NEW v \in Versions, ActivatePricing(v)
  PROVE  RequestsSound'
  <1>1. /\ events' = events /\ activeVersion' = v
        /\ req' = [r \in Requests |->
             IF req[r].stage = "catalog" THEN [req[r] EXCEPT !.active = @ \union {v}]
                                         ELSE req[r]]
    BY DEF ActivatePricing, telemetryVars
  <1>2. ASSUME NEW r \in Requests
        PROVE  LocalsSound(r, req'[r]) /\ InItsWorld(req'[r], events', activeVersion')
    <2>0. LocalsSound(r, req[r])
      BY HandlerSound
    <2>1. CASE req[r].stage = "catalog"
      <3>1. req'[r] = [req[r] EXCEPT !.active = @ \union {v}]
        BY <1>1, <2>1
      <3>2. /\ LocalsSound(r, req'[r]) /\ req'[r].known = req[r].known
            /\ req'[r].active = req[r].active \union {v}
        BY <2>0, <2>1, <3>1, ActiveGrows
      <3>3. QED
        BY <1>1, <2>1, <3>2, HandlerSound DEF InItsWorld
    <2>2. CASE req[r].stage # "catalog"
      BY <1>1, <2>2, HandlerSound DEF InItsWorld
    <2>3. QED
      BY <2>1, <2>2
  <1>3. req' = [r \in Requests |-> req'[r]]
    BY <1>1
  <1>4. QED
    BY <1>2, <1>3 DEF RequestsSound

(* A replica restarts.                                                      *)
LEMMA RestartKeeps ==
  ASSUME IInv, NEW p \in Replicas, Restart(p)
  PROVE  RequestsSound'
  <1>1. /\ UNCHANGED << events, activeVersion >>
        /\ req' = [r \in Requests |-> IF req[r].replica = p THEN Answer(r) ELSE req[r]]
    BY DEF Restart
  <1>2. ASSUME NEW r \in Requests
        PROVE  LocalsSound(r, req'[r]) /\ InItsWorld(req'[r], events', activeVersion')
    <2>0. LocalsSound(r, req[r])
      BY HandlerSound
    <2>1. CASE req[r].replica = p
      <3>1. req'[r] = [req[r] EXCEPT !.stage = "answered"]
        BY <1>1, <2>1 DEF Answer
      <3>2. req[r].stage # "new"
        BY <2>0, <2>1, Markers DEF LocalsSound, LocalsTyped
      <3>3. /\ LocalsSound(r, req'[r]) /\ req'[r].stage = "answered"
            /\ req'[r].known = req[r].known
        BY <2>0, <3>1, <3>2, AnswerSound
      <3>4. QED
        BY <1>1, <3>3, HandlerSound DEF InItsWorld
    <2>2. CASE req[r].replica # p
      BY <1>1, <2>2, HandlerSound DEF InItsWorld
    <2>3. QED
      BY <2>1, <2>2
  <1>3. req' = [r \in Requests |-> req'[r]]
    BY <1>1
  <1>4. QED
    BY <1>2, <1>3 DEF RequestsSound

(* Every step keeps the handlers' locals sound.                             *)
LEMMA RequestsPreserved ==
  ASSUME IInv, [Next]_vars
  PROVE  RequestsSound'
  <1>1. CASE UNCHANGED << req, events, activeVersion >>
    BY <1>1 DEF IInv, RequestsSound, InItsWorld
  <1>2. CASE UNCHANGED vars
    BY <1>1, <1>2 DEF vars, worldVars, telemetryVars
  <1>3. ASSUME NEW p \in Replicas, Flush(p)
        PROVE  RequestsSound'
    <2>1. events \subseteq events' /\ req' = req /\ activeVersion' = activeVersion
      BY <1>3 DEF Flush, worldVars
    <2>2. QED
      BY <2>1 DEF IInv, RequestsSound, InItsWorld
  <1>4. ASSUME NEW r \in Requests, ReadRules(r) \/ ReadBudgets(r)
        PROVE  RequestsSound'
    BY <1>1, <1>4 DEF ReadRules, ReadBudgets, worldVars, telemetryVars
  <1>5. ASSUME NEW w \in Writers, RuleMutated(w) \/ BudgetMutated(w)
        PROVE  RequestsSound'
    BY <1>1, <1>5 DEF RuleMutated, BudgetMutated, worldVars, telemetryVars
  <1>6. ASSUME NEW w \in Writers, NEW p \in Replicas,
               MutateRules(w, p) \/ MutateBudgets(w, p)
        PROVE  RequestsSound'
    BY <1>1, <1>6 DEF MutateRules, MutateBudgets, telemetryVars
  <1>7. ASSUME NEW providers \in SUBSET Providers, HealthChanges(providers)
        PROVE  RequestsSound'
    BY <1>1, <1>7 DEF HealthChanges, telemetryVars
  <1>8. CASE Tick
    BY <1>1, <1>8 DEF Tick, telemetryVars
  <1>9. CASE Next
    BY <1>3, <1>4, <1>5, <1>6, <1>7, <1>8, <1>9, ArriveKeeps, CatalogReadKeeps, RulesKeep,
       BudgetsKeep, ReadSpendKeeps, AnsweredKeeps, ActivateKeeps, RestartKeeps DEF Next
  <1>10. QED
    BY <1>2, <1>9

-----------------------------------------------------------------------------
(* At the start nothing is loaded, read or recorded.                        *)
LEMMA InitSound ==
  ASSUME Init
  PROVE  IInv
  <1>1. RP!CacheInit /\ BP!CacheInit
    BY DEF Init, Rules!CacheInit, RP!CacheInit, Rules!NoLoad, RP!NoLoad,
           Budgets!CacheInit, BP!CacheInit, Budgets!NoLoad, BP!NoLoad
  <1>2. CachesSound
    BY <1>1, RP!CacheInitIInv, BP!CacheInitIInv DEF CachesSound
  <1>3. WorldSound
    BY AdmissionAssumption DEF Init, WorldSound
  <1>4. RecordsSound
    BY FS_EmptySet DEF Init, RecordsSound
  <1>5. LoadsBelong
    BY DEF Init, LoadsBelong, Rules!CacheInit, Rules!NoLoad,
           Budgets!CacheInit, Budgets!NoLoad
  <1>6. ASSUME NEW r \in Requests
        PROVE  LocalsSound(r, Fresh) /\ InItsWorld(Fresh, events, activeVersion)
    <2>1. LocalsTyped(Fresh)
      BY DEF LocalsTyped, Fresh, LocalNames, Stage, Kind
    <2>2. CatalogSound(Fresh)
      BY DEF CatalogSound, Fresh, Given
    <2>3. DOMAIN Fresh.spend = {} /\ Fresh.budgets = {} /\ Fresh.spend = << >>
      BY DEF Fresh
    <2>4. BudgetsSound(Fresh)
      BY <2>3 DEF BudgetsSound, Fresh
    <2>5. QED
      BY <2>1, <2>2, <2>4 DEF LocalsSound, InItsWorld, Fresh, Given
  <1>7. RequestsSound
    BY <1>6 DEF Init, RequestsSound
  <1>8. QED
    BY <1>2, <1>3, <1>4, <1>5, <1>7 DEF IInv

(* The inductive invariant: caches with explained copies, loads that belong *)
(* to the handlers that await them, records of answered requests, and locals*)
(* that agree with the catalog and the records they were read from.         *)
THEOREM Invariant == Spec => []IInv
  <1>1. Init => IInv
    BY InitSound
  <1>2. IInv /\ [Next]_vars => IInv'
    BY CachesPreserved, WorldPreserved, RecordsPreserved, LoadsPreserved, RequestsPreserved
       DEF IInv
  <1>3. QED
    BY <1>1, <1>2, PTL DEF Spec

(* The handlers' locals, the caches and the records have their types, and   *)
(* only a completion that was not blocked runs (wiring.ts, completions.ts). *)
THEOREM LocalsHaveTypes == Spec => []TypeOK
  <1>1. IInv => TypeOK
    <2>1. ASSUME IInv
          PROVE  Rules!CacheTypeOK /\ Budgets!CacheTypeOK
      BY <2>1 DEF IInv, CachesSound, RP!CacheIInv, BP!CacheIInv, RP!CacheTypeOK,
                  BP!CacheTypeOK, Rules!CacheTypeOK, Budgets!CacheTypeOK,
                  RP!Reason, BP!Reason, Rules!Reason, Budgets!Reason
    <2>2. ASSUME IInv, NEW r \in Requests
          PROVE  /\ req[r].stage \in Stage /\ req[r].kind \in Kind
                 /\ req[r].replica = NoReplica <=> req[r].stage = "new"
                 /\ req[r].stage \in {"budgets", "spend", "running"} =>
                      IsDecision(req[r].decision)
                 /\ req[r].stage \in {"spend", "running"} =>
                      DOMAIN req[r].spend \subseteq {b.budgetId : b \in req[r].budgets}
                 /\ req[r].stage = "running" =>
                      req[r].kind = "completion" /\ req[r].verdict # "blocked"
      <3>1. LocalsSound(r, req[r])
        BY <2>2, HandlerSound
      <3>2. QED
        BY <3>1 DEF LocalsSound, LocalsTyped, BudgetsSound, DecisionSound
    <2>3. QED
      BY <2>1, <2>2 DEF TypeOK, IInv, WorldSound, RecordsSound
  <1>2. QED
    BY <1>1, Invariant, PTL

(* A replica that decides on old rules or budgets does so for a named cause:*)
(* a mutation that has not returned, a load it overtook, a lost answer or   *)
(* another replica (overrides/store.ts, budgets/store.ts).                  *)
THEOREM ChangesReach == Spec => []ChangesReachDecisions
  <1>1. IInv => ChangesReachDecisions
    BY DEF IInv, CachesSound, RP!CacheIInv, BP!CacheIInv, ChangesReachDecisions,
           RP!StaleHasCause, Rules!StaleHasCause, BP!StaleHasCause, Budgets!StaleHasCause,
           RP!Pending, Rules!Pending, BP!Pending, Budgets!Pending
  <1>2. QED
    BY <1>1, Invariant, PTL

(* Whatever is stored, charged or changed while a completion is on its way, *)
(* it runs only with room in every blocking budget for what was on record   *)
(* when its evaluation began and its own estimate (evaluate-request-budgets,*)
(* spend.ts, evaluate.ts).                                                  *)
THEOREM AdmittedHadRoom == Spec => []AdmittedWithinBudget
  <1>1. IInv => AdmittedWithinBudget
    BY HandlerSound DEF LocalsSound, BudgetsSound, HasRoom, AdmittedWithinBudget
  <1>2. QED
    BY <1>1, Invariant, PTL

(* A decision is priced by one table, which was active while the handler    *)
(* read its catalog, and its estimate is the chosen model's cost by it      *)
(* (pricing/store.ts: loadActivePricing, routing/decide.ts).                *)
THEOREM PricingIsPinned == Spec => []PricingPinned
  <1>1. IInv => PricingPinned
    BY HandlerSound DEF LocalsSound, DecisionSound, TableOf, PricingPinned
  <1>2. QED
    BY <1>1, Invariant, PTL
=============================================================================
