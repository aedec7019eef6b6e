----------------------------- MODULE ReadSideProofs -----------------------------
(***************************************************************************)
(* Machine-checked proofs about what is read from Atlas.                   *)
(*                                                                         *)
(* TitleCheck over Search: for every catalog, request and interleaving of  *)
(* commits, a search is exact about what is left alone and honest about    *)
(* having nothing, and a verification passes exactly the healthy titles.   *)
(* The algorithm comes first: AnswersAreRight says what an answer is,      *)
(* without an algorithm; TitleInv carries it through the SELECTs.          *)
(*                                                                         *)
(* Delivery, in the second part, for every size of object and of chunk:    *)
(* bodies are what was asked for, headers are proven, nothing is held when *)
(* an exchange is over.                                                    *)
(***************************************************************************)
EXTENDS TitleCheck, Delivery, FiniteSetTheorems, FunctionTheorems, TLAPS

---------------------------------------------------------------------------------
(* The algorithm.                                                          *)

(* Evidence of the shape that rows have.                                   *)
Shaped(e) == DOMAIN e.over \subseteq Kinds

(* The keys of a request are fields, but for the two that are looked for in *)
(* several places.                                                         *)
LEMMA KeysAre ==
  /\ TextFields \subseteq Fields /\ {"people", "negative_use_cases"} \subseteq Fields
  /\ TermKeys \ {"semantic_terms", "people_presentations"} \subseteq TextFields
  /\ {"semantic_terms", "people_presentations"} \subseteq TermKeys
  /\ "rendition" \notin TermKeys /\ "people_count" \notin TermKeys
  BY DEF TextFields, Fields, TermKeys

(* The value of a field is what the rows say in the rendition.             *)
LEMMA ValuesSay ==
  ASSUME NEW e, NEW k, NEW f \in Fields
  PROVE  Values(e, k)[f] = Says(e, k, f)
  BY DEF Values, Says

(* The limits: a title that fits into an answer fits into the pool.        *)
LEMMA LimitsAre ==
  SearchLimit \in Nat \ {0} /\ PoolLimit \in Nat \ {0} /\ SearchLimit <= PoolLimit
  BY TitleAssumption

(* The words of a term are tokens.                                         *)
LEMMA WordsAre == \A t \in Terms : TokensOf[t] \subseteq Tokens
  BY TitleAssumption

(* Requested words are tokens.                                             *)
LEMMA AskedTokens ==
  ASSUME NEW q, Requestable(q), NEW key \in TermKeys
  PROVE  Asked(q.terms[key]) \subseteq Tokens
  BY WordsAre DEF Requestable, Asked

(* What establishes a word under a key.                                    *)
Shown(e, k, key, w) ==
  IF key = "people_presentations" THEN w \in Says(e, k, "people").words
  ELSE \E f \in IF key = "semantic_terms" THEN TextFields ELSE {key} : w \in Says(e, k, f)

(* Stored words are those that establish.                                  *)
LEMMA StoredShows ==
  ASSUME NEW e, NEW k, NEW key \in TermKeys, NEW w
  PROVE  w \in Stored(Values(e, k), key) <=> Shown(e, k, key, w)
<1>1. CASE key = "semantic_terms"
  <2>1. Stored(Values(e, k), key) = UNION {Values(e, k)[f] : f \in TextFields}
    BY <1>1 DEF Stored
  <2>2. \A f \in TextFields : Values(e, k)[f] = Says(e, k, f)
    BY KeysAre, ValuesSay
  <2>3. Shown(e, k, key, w) <=> \E f \in TextFields : w \in Says(e, k, f)
    BY <1>1 DEF Shown
  <2> QED  BY <2>1, <2>2, <2>3
<1>2. CASE key = "people_presentations"
  BY <1>2, KeysAre, ValuesSay DEF Stored, Shown
<1>3. CASE key \notin {"semantic_terms", "people_presentations"}
  <2>1. key \in Fields
    BY <1>3, KeysAre
  <2> QED  BY <1>3, <2>1, ValuesSay DEF Stored, Shown
<1> QED  BY <1>1, <1>2, <1>3

(* The three states of a requirement.                                      *)
LEMMA StatesAre ==
  ASSUME NEW terms, NEW stored, NEW negatives
  PROVE  LET state == StateForTerms(terms, stored, negatives)
         IN  /\ state = "MISMATCH" <=> Asked(terms) \cap negatives # {}
             /\ state = "MATCH" <=> Asked(terms) \cap negatives = {} /\ Asked(terms) \subseteq stored
             /\ state \in {"MATCH", "MISMATCH", "UNKNOWN"}
  BY DEF StateForTerms

(* The states of the number of people.                                     *)
LEMMA CountStatesAre ==
  ASSUME NEW q, NEW n
  PROVE  LET state == PeopleCountState(q, n)
         IN  /\ state = "MISMATCH" <=> n # None /\ (\/ q.count_min # None /\ n < q.count_min
                                                    \/ q.count_max # None /\ n > q.count_max)
             /\ state = "UNKNOWN" <=> n = None
             /\ state \in {"MATCH", "MISMATCH", "UNKNOWN"}
  BY DEF PeopleCountState

Counted(q) == q.count_min # None \/ q.count_max # None

(* The keys of a request.                                                  *)
LEMMA HardKeys ==
  ASSUME NEW q
  PROVE  /\ "rendition" \in RequestedHardKeys(q)
         /\ "people_count" \in RequestedHardKeys(q) <=> Counted(q)
         /\ \A key \in TermKeys : key \in RequestedHardKeys(q) <=> q.terms[key] # {}
         /\ RequestedHardKeys(q) \subseteq {"rendition", "people_count"} \cup TermKeys
  BY KeysAre DEF RequestedHardKeys, Counted

(* The states that decide.                                                 *)
LEMMA MatchesAre ==
  ASSUME NEW e, NEW k, NEW q
  PROVE  LET v == Values(e, k)
             states == Matches(q, v)
             negatives == Says(e, k, "negative_use_cases")
         IN  /\ DOMAIN states = RequestedHardKeys(q)
             /\ states["rendition"] = "MATCH"
             /\ Counted(q) => states["people_count"] = PeopleCountState(q, Says(e, k, "people").count)
             /\ \A key \in TermKeys : q.terms[key] # {} =>
                  states[key] = StateForTerms(q.terms[key], Stored(v, key), negatives)
<1> DEFINE v == Values(e, k)
<1>1. v["negative_use_cases"] = Says(e, k, "negative_use_cases") /\ v["people"] = Says(e, k, "people")
  BY KeysAre, ValuesSay
<1> HIDE DEF v
<1>2. ASSUME NEW key \in TermKeys, q.terms[key] # {}
      PROVE  Matches(q, v)[key] = StateForTerms(q.terms[key], Stored(v, key), v["negative_use_cases"])
  <2>1. key \in RequestedHardKeys(q) /\ key # "rendition" /\ key # "people_count"
    BY <1>2, HardKeys, KeysAre
  <2> QED  BY <2>1 DEF Matches
<1>3. Matches(q, v)["rendition"] = "MATCH"
  BY HardKeys DEF Matches
<1>4. Counted(q) => Matches(q, v)["people_count"] = PeopleCountState(q, v["people"].count)
  BY HardKeys DEF Matches
<1>5. DOMAIN Matches(q, v) = RequestedHardKeys(q)
  BY DEF Matches
<1> QED  BY <1>1, <1>2, <1>3, <1>4, <1>5 DEF v

NoTerm(q, key) == q.terms[key] = {}

(* What nobody asks for asks for no word.                                  *)
LEMMA NothingAsked ==
  ASSUME NEW q, NEW key, NoTerm(q, key)
  PROVE  Asked(q.terms[key]) = {}
  BY DEF NoTerm, Asked

(* A requirement is a mismatch exactly when the rows contradict it.        *)
LEMMA MismatchContradicts ==
  ASSUME NEW e, NEW k, NEW q, Requestable(q)
  PROVE  LET states == Matches(q, Values(e, k))
         IN  Contradicted(e, k, q) <=> \E key \in DOMAIN states : states[key] = "MISMATCH"
<1> DEFINE states == Matches(q, Values(e, k))
           negatives == Says(e, k, "negative_use_cases")
           n == Says(e, k, "people").count
           Outside == n # None /\ (\/ q.count_min # None /\ n < q.count_min
                                   \/ q.count_max # None /\ n > q.count_max)
<1>1. ASSUME NEW key \in TermKeys
      PROVE  (key \in DOMAIN states /\ states[key] = "MISMATCH")
               <=> Asked(q.terms[key]) \cap negatives # {}
  <2>1. CASE q.terms[key] = {}
    <3>1. key \notin DOMAIN states
      BY <2>1, HardKeys, MatchesAre
    <3> QED  BY <2>1, <3>1, NothingAsked DEF NoTerm
  <2>2. CASE q.terms[key] # {}
    <3>1. key \in DOMAIN states
          /\ states[key] = StateForTerms(q.terms[key], Stored(Values(e, k), key), negatives)
      BY <2>2, HardKeys, MatchesAre
    <3> QED  BY <3>1, StatesAre
  <2> QED  BY <2>1, <2>2
<1>2. ("people_count" \in DOMAIN states /\ states["people_count"] = "MISMATCH") <=> Outside
  <2>1. Counted(q) => states["people_count"] = PeopleCountState(q, n)
    BY MatchesAre
  <2>2. "people_count" \in DOMAIN states <=> Counted(q)
    BY MatchesAre, HardKeys
  <2>3. Outside => Counted(q)
    BY DEF Counted
  <2>4. PeopleCountState(q, n) = "MISMATCH" <=> Outside
    BY CountStatesAre
  <2> HIDE DEF states, Outside
  <2> QED  BY <2>1, <2>2, <2>3, <2>4
<1>3. states["rendition"] # "MISMATCH"
  BY MatchesAre
<1>4. DOMAIN states \subseteq {"rendition", "people_count"} \cup TermKeys
  BY MatchesAre, HardKeys
<1>5. Contradicted(e, k, q) <=> Outside \/ \E key \in TermKeys : Asked(q.terms[key]) \cap negatives # {}
  BY AskedTokens DEF Contradicted
<1> HIDE DEF states, Outside, negatives
<1>6. (\E key \in DOMAIN states : states[key] = "MISMATCH")
        <=> Outside \/ \E key \in TermKeys : Asked(q.terms[key]) \cap negatives # {}
  BY <1>1, <1>2, <1>3, <1>4
<1> QED  BY <1>5, <1>6 DEF states

(* Where nothing is contradicted, no requirement is unknown exactly when   *)
(* all are established.                                                    *)
LEMMA UnknownIsUnestablished ==
  ASSUME NEW e, NEW k, NEW q, Requestable(q), ~Contradicted(e, k, q)
  PROVE  LET states == Matches(q, Values(e, k))
         IN  Established(e, k, q) <=> ~ \E key \in DOMAIN states : states[key] = "UNKNOWN"
<1> DEFINE states == Matches(q, Values(e, k))
           negatives == Says(e, k, "negative_use_cases")
           n == Says(e, k, "people").count
           Backed(key) == Asked(q.terms[key]) \subseteq Stored(Values(e, k), key)
<1>1. ASSUME NEW key \in TermKeys
      PROVE  (key \in DOMAIN states /\ states[key] = "UNKNOWN") <=> ~Backed(key)
  <2>0. Asked(q.terms[key]) \cap negatives = {}
    BY AskedTokens DEF Contradicted
  <2>1. CASE q.terms[key] = {}
    <3>1. key \notin DOMAIN states
      BY <2>1, HardKeys, MatchesAre
    <3> QED  BY <2>1, <3>1, NothingAsked DEF NoTerm
  <2>2. CASE q.terms[key] # {}
    <3>1. key \in DOMAIN states
          /\ states[key] = StateForTerms(q.terms[key], Stored(Values(e, k), key), negatives)
      BY <2>2, HardKeys, MatchesAre
    <3>2. /\ states[key] = "MATCH" <=> Backed(key)
          /\ states[key] # "MISMATCH"
          /\ states[key] \in {"MATCH", "MISMATCH", "UNKNOWN"}
      BY <2>0, <3>1, StatesAre
    <3> HIDE DEF states, Backed
    <3> QED  BY <3>1, <3>2
  <2> QED  BY <2>1, <2>2
<1>2. ("people_count" \in DOMAIN states /\ states["people_count"] = "UNKNOWN")
        <=> Counted(q) /\ n = None
  <2>1. Counted(q) => states["people_count"] = PeopleCountState(q, n)
    BY MatchesAre
  <2>2. "people_count" \in DOMAIN states <=> Counted(q)
    BY MatchesAre, HardKeys
  <2>4. PeopleCountState(q, n) = "UNKNOWN" <=> n = None
    BY CountStatesAre
  <2> HIDE DEF states
  <2> QED  BY <2>1, <2>2, <2>4
<1>3. states["rendition"] # "UNKNOWN"
  BY MatchesAre
<1>4. DOMAIN states \subseteq {"rendition", "people_count"} \cup TermKeys
  BY MatchesAre, HardKeys
<1>5. ASSUME NEW key \in TermKeys
      PROVE  Backed(key) <=> \A w \in Asked(q.terms[key]) : Shown(e, k, key, w)
  BY StoredShows
<1>6. Established(e, k, q) <=> /\ \A key \in TermKeys : \A w \in Asked(q.terms[key]) : Shown(e, k, key, w)
                               /\ Counted(q) => n # None
  BY DEF Established, Counted, Shown
<1> HIDE DEF states, Backed, n
<1>7. (\E key \in DOMAIN states : states[key] = "UNKNOWN")
        <=> (Counted(q) /\ n = None) \/ \E key \in TermKeys : ~Backed(key)
  BY <1>1, <1>2, <1>3, <1>4
<1>8. (\A key \in TermKeys : Backed(key)) <=>
         \A key \in TermKeys : \A w \in Asked(q.terms[key]) : Shown(e, k, key, w)
  BY <1>5
<1> QED  BY <1>6, <1>7, <1>8 DEF states

(* A request has finitely many keys, and more than one exactly when it     *)
(* requires something.                                                     *)
LEMMA KeysCounted ==
  ASSUME NEW q
  PROVE  LET hard == RequestedHardKeys(q)
         IN  /\ IsFiniteSet(hard) /\ Cardinality(hard) \in Nat
             /\ Cardinality(hard) > 1 <=> Requires(q)
<1> DEFINE hard == RequestedHardKeys(q)
<1>1. IsFiniteSet(hard)
  <2>1. ASSUME NEW x, NEW y PROVE IsFiniteSet({x, y})
    <3>1. {x, y} = {x} \cup {y}
      OBVIOUS
    <3>2. IsFiniteSet({x}) /\ IsFiniteSet({y})
      BY FS_Singleton
    <3> QED  BY <3>1, <3>2, FS_Union
  <2>2. ASSUME NEW x, NEW y, NEW z, NEW u PROVE IsFiniteSet({x, y, z, u})
    <3>1. {x, y, z, u} = {x, y} \cup {z, u}
      OBVIOUS
    <3>2. IsFiniteSet({x, y}) /\ IsFiniteSet({z, u})
      BY <2>1
    <3> QED  BY <3>1, <3>2, FS_Union
  <2>3. IsFiniteSet({"relationships", "visible_emotions", "setting", "subjects"})
    BY <2>2, Zenon
  <2>4. IsFiniteSet({"objects", "actions", "semantic_terms", "people_presentations"})
    BY <2>2, Zenon
  <2>5. IsFiniteSet({"rendition", "people_count"})
    BY <2>1, Zenon
  <2>6. TermKeys = {"relationships", "visible_emotions", "setting", "subjects"}
                     \cup {"objects", "actions", "semantic_terms", "people_presentations"}
    BY DEF TermKeys
  <2>7. IsFiniteSet(TermKeys)
    BY <2>3, <2>4, <2>6, FS_Union
  <2>8. IsFiniteSet({"rendition", "people_count"} \cup TermKeys)
    BY <2>5, <2>7, FS_Union
  <2> QED  BY <2>8, HardKeys, FS_Subset
<1>2. Cardinality(hard) \in Nat
  BY <1>1, FS_CardinalityType
<1>3. "rendition" \in hard
  BY HardKeys
<1>4. IsFiniteSet(hard \ {"rendition"}) /\ Cardinality(hard \ {"rendition"}) = Cardinality(hard) - 1
  BY <1>1, <1>3, FS_RemoveElement
<1>5. Cardinality(hard \ {"rendition"}) = 0 <=> hard \ {"rendition"} = {}
  BY <1>4, FS_EmptySet
<1>6. hard \ {"rendition"} = {} <=> ~Requires(q)
  BY HardKeys, KeysAre DEF Requires, Counted
<1> HIDE DEF hard
<1>7. Cardinality(hard) > 1 <=> Cardinality(hard \ {"rendition"}) # 0
  <2>1. Cardinality(hard) # 0
    BY <1>1, <1>3, FS_EmptySet
  <2> QED  BY <1>2, <1>4, <2>1
<1> QED  BY <1>1, <1>2, <1>5, <1>6, <1>7 DEF hard

(* A query meets the rows exactly when one of its words is in a field.     *)
LEMMA OverlapMeets ==
  ASSUME NEW e, NEW k, NEW q, Requestable(q)
  PROVE  LET n == Overlap(q, Values(e, k))
         IN  n \in Nat /\ (n > 0 <=> \E f \in TextFields : q.query \cap Says(e, k, f) # {})
<1> DEFINE Hits(f) == Cardinality(q.query \cap Values(e, k)[f])
<1>1. ASSUME NEW f \in TextFields
      PROVE  Hits(f) \in Nat /\ (Hits(f) > 0 <=> q.query \cap Says(e, k, f) # {})
  <2>1. Values(e, k)[f] = Says(e, k, f)
    BY KeysAre, ValuesSay
  <2>2. IsFiniteSet(q.query \cap Says(e, k, f))
    BY FS_Subset DEF Requestable
  <2> QED  BY <2>1, <2>2, FS_CardinalityType, FS_EmptySet
<1>2. Overlap(q, Values(e, k)) =
        5 * Hits("visual_summary") + 4 * (Hits("search_terms") + Hits("standalone_meaning"))
          + 3 * (Hits("keywords") + Hits("subjects") + Hits("objects") + Hits("actions"))
          + 2 * (Hits("setting") + Hits("visible_emotions") + Hits("relationships"))
  BY DEF Overlap
<1> HIDE DEF Hits
<1>3. \A f \in TextFields : Hits(f) \in Nat
  BY <1>1
<1>4. Overlap(q, Values(e, k)) \in Nat
      /\ (Overlap(q, Values(e, k)) > 0 <=> \E f \in TextFields : Hits(f) > 0)
  BY <1>2, <1>3 DEF TextFields
<1> QED  BY <1>1, <1>4

(* Scores are integers.                                                    *)
LEMMA ScoreType ==
  ASSUME NEW e, NEW k, NEW q, Requestable(q)
  PROVE  Score(q, Values(e, k), k) \in Int
<1> DEFINE v == Values(e, k)
           states == Matches(q, v)
           hard == Cardinality(DOMAIN states)
           words == IF q.query = {} THEN 1 ELSE Cardinality(q.query)
           matched == Cardinality({key \in DOMAIN states : states[key] = "MATCH"})
           preference == IF k = Preferred(q) THEN 5 ELSE 0
           editorial == IF v["standalone_meaning"] \cup v["search_terms"] # {} THEN 2 ELSE 0
<1>1. Score(q, v, k) = 200 * hard * Overlap(q, v) + 80 * words * matched
                         + (preference + editorial) * words * hard
  BY DEF Score
<1>2. IsFiniteSet(DOMAIN states) /\ hard \in Nat
  BY MatchesAre, KeysCounted
<1>3. matched \in Nat
  BY <1>2, FS_Subset, FS_CardinalityType
<1>4. words \in Nat
  BY FS_CardinalityType DEF Requestable
<1>5. preference + editorial \in Nat
  OBVIOUS
<1>6. Overlap(q, v) \in Nat
  BY OverlapMeets
<1> HIDE DEF hard, words, matched, preference, editorial, v
<1>7. \A a, b \in Nat : a * b \in Nat
  OBVIOUS
<1>8. 200 * hard * Overlap(q, v) \in Nat
  <2>1. 200 * hard \in Nat
    BY <1>2
  <2> QED  BY <1>6, <1>7, <2>1
<1>9. 80 * words * matched \in Nat
  <2>1. 80 * words \in Nat
    BY <1>4
  <2> QED  BY <1>3, <1>7, <2>1
<1>10. (preference + editorial) * words * hard \in Nat
  BY <1>2, <1>4, <1>5, <1>7
<1>11. Score(q, v, k) \in Int
  <2> DEFINE a == 200 * hard * Overlap(q, v)
             b == 80 * words * matched
             c == (preference + editorial) * words * hard
  <2>1. a \in Nat /\ b \in Nat /\ c \in Nat /\ Score(q, v, k) = a + b + c
    BY <1>1, <1>8, <1>9, <1>10
  <2> HIDE DEF a, b, c
  <2> QED  BY <2>1
<1> QED  BY <1>11 DEF v

(* The renditions that search looks at are the acceptable ones.            *)
LEMMA AllowedAcceptable ==
  ASSUME NEW e, NEW q, Requestable(q)
  PROVE  AllowedRenditions(e, q) = Acceptable(e, q)
<1>1. q.required => Preferred(q) = q.preferred
  BY DEF Requestable, Preferred
<1>2. ASSUME NEW k
      PROVE  k \in {q.acceptable[i] : i \in DOMAIN q.acceptable}
               <=> \E i \in DOMAIN q.acceptable : q.acceptable[i] = k
  OBVIOUS
<1> QED  BY <1>1, <1>2 DEF AllowedRenditions, Acceptable

(* What search works out about an asset in one rendition is what its rows  *)
(* mean.                                                                   *)
LEMMA CandidateMeans ==
  ASSUME NEW u, NEW e, NEW q, Requestable(q), NEW k \in AllowedRenditions(e, q)
  PROVE  LET c == Candidate(u, e, q, k)
         IN  /\ c.uid = u /\ c.kind = k /\ c.score \in Int
             /\ c.high \in BOOLEAN /\ c.eligible \in BOOLEAN
             /\ c.eligible <=> k \in Eligible(e, q)
             /\ c.eligible => (c.high <=> k \in Confident(e, q))
<1> DEFINE v == Values(e, k)
           states == Matches(q, v)
           unknown == \E key \in DOMAIN states : states[key] = "UNKNOWN"
           mismatch == \E key \in DOMAIN states : states[key] = "MISMATCH"
           c == Candidate(u, e, q, k)
           meets == \/ q.query = {} \/ Overlap(q, v) > 0
                    \/ Cardinality(DOMAIN states) > 1
<1>1. /\ c.uid = u /\ c.kind = k /\ c.score = Score(q, v, k)
      /\ c.high = (~unknown /\ meets)
      /\ c.eligible = ((\A key \in DOMAIN states : states[key] # "MISMATCH")
                         /\ (q.allow_unknown \/ ~unknown))
  BY DEF Candidate
<1>2. c.score \in Int
  BY <1>1, ScoreType
<1>3. Contradicted(e, k, q) <=> mismatch
  BY MismatchContradicts
<1>4. ~Contradicted(e, k, q) => (Established(e, k, q) <=> ~unknown)
  BY UnknownIsUnestablished
<1>5. meets <=> q.query = {} \/ Requires(q)
                  \/ \E f \in TextFields : q.query \cap Says(e, k, f) # {}
  BY OverlapMeets, KeysCounted, MatchesAre
<1>6. k \in Acceptable(e, q)
  BY AllowedAcceptable
<1>7. (\A key \in DOMAIN states : states[key] # "MISMATCH") <=> ~mismatch
  OBVIOUS
<1> HIDE DEF c, unknown, mismatch, meets
<1>8. c.eligible <=> ~mismatch /\ (q.allow_unknown \/ ~unknown)
  BY <1>1, <1>7
<1>9. k \in Eligible(e, q) <=> ~Contradicted(e, k, q) /\ (q.allow_unknown \/ Established(e, k, q))
  BY <1>6 DEF Eligible
<1>10. c.eligible <=> k \in Eligible(e, q)
  BY <1>3, <1>4, <1>8, <1>9
<1>11. k \in Confident(e, q) <=> k \in Eligible(e, q) /\ Established(e, k, q) /\ meets
  BY <1>5 DEF Confident
<1>12. c.eligible => (c.high <=> k \in Confident(e, q))
  BY <1>1, <1>4, <1>9, <1>10, <1>11
<1>13. c.high \in BOOLEAN /\ c.eligible \in BOOLEAN
  BY <1>1
<1> QED  BY <1>1, <1>2, <1>10, <1>12, <1>13 DEF c

(* No two renditions of an asset are in the same place of the order.       *)
LEMMA OrdersDiffer ==
  ASSUME NEW e, NEW q, Requestable(q)
  PROVE  \A k, l \in AllowedRenditions(e, q) :
           /\ RenditionOrder(q, k) \in Nat
           /\ k # l => RenditionOrder(q, k) # RenditionOrder(q, l)
<1> DEFINE place(k) == CHOOSE i \in DOMAIN q.acceptable : q.acceptable[i] = k
<1>1. ASSUME NEW k \in AllowedRenditions(e, q)
      PROVE  place(k) \in Nat \ {0} /\ q.acceptable[place(k)] = k
  <2>1. \E i \in DOMAIN q.acceptable : q.acceptable[i] = k
    BY AllowedAcceptable DEF Acceptable
  <2>2. DOMAIN q.acceptable = 1..Len(q.acceptable) /\ Len(q.acceptable) \in Nat
    BY DEF Requestable
  <2>3. place(k) \in DOMAIN q.acceptable /\ q.acceptable[place(k)] = k
    BY <2>1
  <2> HIDE DEF place
  <2> QED  BY <2>2, <2>3
<1>2. \A k : RenditionOrder(q, k) = IF k = Preferred(q) THEN 0 ELSE place(k)
  BY DEF RenditionOrder
<1> HIDE DEF place
<1> QED  BY <1>1, <1>2

(* The best of an asset's eligible renditions is one of them, and it is    *)
(* confident if one of them is.                                            *)
LEMMA BestIs ==
  ASSUME NEW u, NEW e, Shaped(e), NEW q, Requestable(q), Choices(u, e, q) # {}
  PROVE  LET best == Best(Choices(u, e, q), q)
         IN  best \in Choices(u, e, q) /\ \A c \in Choices(u, e, q) : c.high => best.high
<1> DEFINE C == Choices(u, e, q)
<1>1. ASSUME NEW c \in C, NEW d \in C, c # d
      PROVE  Better(c, d, q) \/ Better(d, c, q)
  <2>1. PICK k \in AllowedRenditions(e, q) : c = Candidate(u, e, q, k)
    BY DEF Choices
  <2>2. PICK l \in AllowedRenditions(e, q) : d = Candidate(u, e, q, l)
    BY DEF Choices
  <2>3. /\ c.score \in Int /\ d.score \in Int /\ c.high \in BOOLEAN /\ d.high \in BOOLEAN
        /\ c.kind = k /\ d.kind = l
    BY <2>1, <2>2, CandidateMeans
  <2>4. k # l
    BY <1>1, <2>1, <2>2
  <2>5. /\ RenditionOrder(q, c.kind) \in Nat /\ RenditionOrder(q, d.kind) \in Nat
        /\ RenditionOrder(q, c.kind) # RenditionOrder(q, d.kind)
    BY <2>3, <2>4, OrdersDiffer
  <2> QED  BY <2>3, <2>5 DEF Better
<1>2. C \subseteq {Candidate(u, e, q, "horizontal"), Candidate(u, e, q, "vertical")}
  BY DEF Choices, AllowedRenditions, Shaped, Kinds
<1>3. \E c \in C : \A d \in C \ {c} : Better(c, d, q)
  <2> HIDE DEF C
  <2>1. PICK x \in C : TRUE
    BY DEF C
  <2>2. CASE \A d \in C : d = x
    BY <2>1, <2>2
  <2>3. CASE \E y \in C : y # x
    <3>1. PICK y \in C : y # x
      BY <2>3
    <3>2. \A d \in C : d = x \/ d = y
      BY <1>2, <2>1, <3>1
    <3> QED  BY <1>1, <2>1, <3>1, <3>2
  <2> QED  BY <2>2, <2>3
<1>4. Best(C, q) \in C /\ \A d \in C \ {Best(C, q)} : Better(Best(C, q), d, q)
  BY <1>3 DEF Best
<1>5. ASSUME NEW c \in C, c.high PROVE Best(C, q).high
  BY <1>4, <1>5 DEF Better
<1> QED  BY <1>4, <1>5

(* The best of an asset's renditions is one that may be offered.           *)
LEMMA BestIsOffered ==
  ASSUME NEW u, NEW e, Shaped(e), NEW q, Requestable(q)
  PROVE  LET best == Best(Choices(u, e, q), q)
         IN  /\ Choices(u, e, q) # {} <=> Eligible(e, q) # {}
             /\ Choices(u, e, q) # {} =>
                  /\ best.uid = u /\ best.score \in Int /\ best.kind \in Eligible(e, q)
                  /\ best.high <=> Confident(e, q) # {}
                  /\ best.high => best.kind \in Confident(e, q)
<1> DEFINE C == Choices(u, e, q)
           best == Best(C, q)
<1>1. \A k \in Eligible(e, q) : k \in AllowedRenditions(e, q) /\ Candidate(u, e, q, k) \in C
  <2> TAKE k \in Eligible(e, q)
  <2>1. k \in AllowedRenditions(e, q)
    BY AllowedAcceptable DEF Eligible
  <2>2. Candidate(u, e, q, k).eligible
    BY <2>1, CandidateMeans
  <2> QED  BY <2>1, <2>2 DEF Choices
<1>2. ASSUME NEW c \in C
      PROVE  /\ c.uid = u /\ c.score \in Int /\ c.kind \in Eligible(e, q)
             /\ c.high <=> c.kind \in Confident(e, q)
  <2>1. PICK k \in AllowedRenditions(e, q) : c = Candidate(u, e, q, k) /\ c.eligible
    BY DEF Choices
  <2> QED  BY <2>1, CandidateMeans
<1>3. C # {} <=> Eligible(e, q) # {}
  BY <1>1, <1>2
<1>4. ASSUME C # {}
      PROVE  /\ best.uid = u /\ best.score \in Int /\ best.kind \in Eligible(e, q)
             /\ best.high <=> Confident(e, q) # {}
             /\ best.high => best.kind \in Confident(e, q)
  <2>1. best \in C /\ \A c \in C : c.high => best.high
    BY <1>4, BestIs
  <2>2. ASSUME NEW k \in Confident(e, q) PROVE best.high
    <3>1. k \in Eligible(e, q)
      BY DEF Confident
    <3>2. Candidate(u, e, q, k) \in C /\ Candidate(u, e, q, k).kind = k
      BY <1>1, <3>1, CandidateMeans
    <3>3. Candidate(u, e, q, k).high
      BY <1>2, <3>2
    <3> QED  BY <2>1, <3>2, <3>3
  <2> HIDE DEF best, C
  <2> QED  BY <1>2, <2>1, <2>2
<1> QED  BY <1>3, <1>4

----------------------------------------------------------------------------------
(* Candidates that can be ranked: finitely many, one per asset.            *)
Rankable(cs) ==
  /\ IsFiniteSet(cs)
  /\ \A c \in cs : c.uid \in Nat /\ c.score \in Int
  /\ \A c, d \in cs : c.uid = d.uid => c = d

(* Every candidate has a rank of its own.                                  *)
LEMMA RanksAre ==
  ASSUME NEW cs, Rankable(cs)
  PROVE  /\ Cardinality(cs) \in Nat
         /\ \A c \in cs : Rank(c, cs) \in 1..Cardinality(cs)
         /\ \A c, d \in cs : Rank(c, cs) = Rank(d, cs) => c = d
         /\ \A i \in 1..Cardinality(cs) : \E c \in cs : Rank(c, cs) = i
<1> DEFINE above(c) == {d \in cs : Ahead(d, c)}
           N == Cardinality(cs)
<1>1. N \in Nat
  BY FS_CardinalityType DEF Rankable
<1>2. ASSUME NEW c \in cs
      PROVE  IsFiniteSet(above(c)) /\ Cardinality(above(c)) \in Nat /\ Cardinality(above(c)) < N
  <2>1. c \notin above(c)
    BY DEF Ahead, Rankable
  <2>2. above(c) \in SUBSET cs /\ above(c) # cs
    BY <2>1
  <2>3. IsFiniteSet(above(c)) /\ Cardinality(above(c)) <= N
        /\ (N = Cardinality(above(c)) => cs = above(c))
    BY <2>2, FS_Subset DEF Rankable
  <2>4. Cardinality(above(c)) \in Nat
    BY <2>3, FS_CardinalityType
  <2> QED  BY <1>1, <2>2, <2>3, <2>4
<1>3. ASSUME NEW c \in cs, NEW d \in cs, Ahead(c, d)
      PROVE  Cardinality(above(c)) < Cardinality(above(d))
  <2>1. above(c) \subseteq above(d)
    BY <1>3 DEF Ahead, Rankable
  <2>2. c \in above(d) /\ c \notin above(c)
    BY <1>3 DEF Ahead, Rankable
  <2>3. above(c) \in SUBSET above(d) /\ above(c) # above(d)
    BY <2>1, <2>2
  <2>4. Cardinality(above(c)) <= Cardinality(above(d))
        /\ (Cardinality(above(d)) = Cardinality(above(c)) => above(d) = above(c))
    BY <1>2, <2>3, FS_Subset
  <2> QED  BY <1>2, <2>3, <2>4
<1>4. \A c \in cs : Rank(c, cs) = 1 + Cardinality(above(c))
  BY DEF Rank
<1>5. \A c, d \in cs : c # d => Ahead(c, d) \/ Ahead(d, c)
  BY DEF Ahead, Rankable
<1> HIDE DEF above, N
<1>6. \A c \in cs : Rank(c, cs) \in 1..N
  BY <1>1, <1>2, <1>4
<1>7. \A c, d \in cs : Rank(c, cs) = Rank(d, cs) => c = d
  BY <1>2, <1>3, <1>4, <1>5
<1> DEFINE f == [c \in cs |-> Rank(c, cs)]
<1>8. f \in Injection(cs, 1..N)
  BY <1>6, <1>7, Fun_IsInj
<1>9. IsFiniteSet(1..N) /\ Cardinality(1..N) = N
  BY <1>1, FS_Interval
<1>10. f \in Surjection(cs, 1..N)
  <2> HIDE DEF f
  <2> QED  BY <1>8, <1>9, FS_Injection DEF N
<1>11. \A i \in 1..N : \E c \in cs : f[c] = i
  <2> HIDE DEF f
  <2> QED  BY <1>10, Fun_SurjectionProperties
<1> QED  BY <1>1, <1>6, <1>7, <1>11 DEF N

(* The ranking holds candidates, none twice, and all of them if there is   *)
(* room.                                                                   *)
LEMMA RankedIs ==
  ASSUME NEW cs, Rankable(cs), NEW limit \in Nat
  PROVE  LET list == Ranked(cs, limit)
             n == IF Cardinality(cs) < limit THEN Cardinality(cs) ELSE limit
         IN  /\ n \in Nat /\ list \in [1..n -> cs] /\ Len(list) = n
             /\ \A i, j \in 1..n : list[i] = list[j] => i = j
             /\ Cardinality(cs) <= limit => \A c \in cs : \E i \in 1..n : list[i] = c
<1> DEFINE N == Cardinality(cs)
           n == IF N < limit THEN N ELSE limit
           f == Ranked(cs, limit)
           at(i) == CHOOSE c \in cs : Rank(c, cs) = i
<1>1. N \in Nat /\ n \in Nat /\ 1..n \subseteq 1..N
  BY RanksAre
<1>2. f = [i \in 1..n |-> at(i)]
  BY DEF Ranked
<1>3. ASSUME NEW i \in 1..n PROVE at(i) \in cs /\ Rank(at(i), cs) = i
  <2>1. \E c \in cs : Rank(c, cs) = i
    BY <1>1, RanksAre
  <2> QED  BY <2>1
<1> HIDE DEF at, f, n, N
<1>4. f \in [1..n -> cs]
  BY <1>2, <1>3
<1>5. Len(f) = n
  <2>1. f \in Seq(cs)
    BY <1>1, <1>4 DEF n
  <2> QED  BY <1>1, <1>4, <2>1
<1>6. \A i, j \in 1..n : f[i] = f[j] => i = j
  BY <1>2, <1>3
<1>7. ASSUME N <= limit, NEW c \in cs PROVE \E i \in 1..n : f[i] = c
  <2>1. n = N
    BY <1>1, <1>7 DEF n
  <2>2. Rank(c, cs) \in 1..n
    BY <2>1, RanksAre DEF N
  <2>3. f[Rank(c, cs)] = c
    BY <1>2, <1>3, <2>2, RanksAre
  <2> QED  BY <2>2, <2>3
<1> QED  BY <1>1, <1>4, <1>5, <1>6, <1>7 DEF f, n, N

(* A pool: finitely many assets with evidence.                             *)
Poolable(p) ==
  IsFiniteSet(DOMAIN p) /\ DOMAIN p \subseteq Nat /\ \A u \in DOMAIN p : Shaped(p[u])

(* What an answer to q from pool p has to be.                              *)
ReadyIn(p, q) == {u \in DOMAIN p : Acceptable(p[u], q) # {}}
RaisedBy(p, q) == \E u \in DOMAIN p : Acceptable(p[u], q) \cap p[u].misfit # {}
OfferedFrom(p, q) == {u \in DOMAIN p : Offers(p[u], q) # {}}

FoundRight(list, p, q) ==
  /\ Len(list) \in Nat \ {0} /\ Len(list) <= q.limit /\ DOMAIN list = 1..Len(list)
  /\ \A i \in DOMAIN list :
       /\ list[i].uid \in OfferedFrom(p, q)
       /\ list[i].kind \in Offers(p[list[i].uid], q)
       /\ list[i].high <=> Confident(p[list[i].uid], q) # {}
  /\ \A i, j \in DOMAIN list : list[i].uid = list[j].uid => i = j
  /\ (Len(list) < q.limit \/ Cardinality(DOMAIN p) <= q.limit) =>
       \A u \in OfferedFrom(p, q) : \E i \in DOMAIN list : list[i].uid = u

AnswerRight(a, p, q) ==
  /\ a.reason \in {None} \cup Reasons
  /\ a.reason = "no_candidates_in_scope" <=> DOMAIN p = {}
  /\ a.reason = "no_acceptable_rendition" <=> DOMAIN p # {} /\ ReadyIn(p, q) = {}
  /\ a.reason = "raised" <=> RaisedBy(p, q)
  /\ a.reason = "no_requirement_match" => \A u \in DOMAIN p : Eligible(p[u], q) = {}
  /\ a.reason = "no_high_confidence_match" =>
       /\ \E u \in DOMAIN p : Eligible(p[u], q) # {}
       /\ \A u \in DOMAIN p : Confident(p[u], q) = {}
  /\ a.reason = None <=> ~RaisedBy(p, q) /\ OfferedFrom(p, q) # {}
  /\ a.reason # None => a.found = <<>>
  /\ a.reason = None => FoundRight(a.found, p, q)

(* The candidates of a pool, one of each asset that may be offered.        *)
SelectedFrom(p, q) == {Best(Choices(u, p[u], q), q) : u \in OfferedFrom(p, q)}

(* Their ranking is what is to be found.                                   *)
LEMMA SelectedFound ==
  ASSUME NEW p, Poolable(p), NEW q, Requestable(q), OfferedFrom(p, q) # {}
  PROVE  FoundRight(Ranked(SelectedFrom(p, q), q.limit), p, q)
<1> DEFINE best(u) == Best(Choices(u, p[u], q), q)
           O == OfferedFrom(p, q)
           S == SelectedFrom(p, q)
           list == Ranked(S, q.limit)
<1>1. ASSUME NEW u \in O
      PROVE  /\ best(u).uid = u /\ best(u).score \in Int
             /\ best(u).kind \in Offers(p[u], q)
             /\ best(u).high <=> Confident(p[u], q) # {}
             /\ best(u) \in S /\ u \in DOMAIN p /\ u \in Nat
  <2>1. u \in DOMAIN p /\ Shaped(p[u]) /\ Offers(p[u], q) # {} /\ u \in Nat
    BY DEF OfferedFrom, Poolable
  <2>2. Eligible(p[u], q) # {}
    BY <2>1 DEF Offers, Confident
  <2>3. best(u) \in S
    BY DEF SelectedFrom
  <2>4. /\ best(u).uid = u /\ best(u).score \in Int /\ best(u).kind \in Eligible(p[u], q)
        /\ best(u).high <=> Confident(p[u], q) # {}
        /\ best(u).high => best(u).kind \in Confident(p[u], q)
    BY <2>1, <2>2, BestIsOffered
  <2> HIDE DEF best
  <2> QED  BY <2>1, <2>3, <2>4 DEF Offers
<1>2. S = {best(u) : u \in O}
  BY DEF SelectedFrom
<1>3. IsFiniteSet(O) /\ Cardinality(O) <= Cardinality(DOMAIN p)
  BY FS_Subset DEF OfferedFrom, Poolable
<1> HIDE DEF best, O, S
<1>4. IsFiniteSet(S) /\ Cardinality(S) <= Cardinality(O)
  <2> DEFINE f == [u \in O |-> best(u)]
  <2>1. f \in Surjection(O, S)
    BY <1>2, Fun_IsSurj
  <2> HIDE DEF f
  <2> QED  BY <1>3, <2>1, FS_Surjection
<1>5. Rankable(S)
  BY <1>1, <1>2, <1>4 DEF Rankable
<1>6. q.limit \in Nat \ {0}
  BY DEF Requestable
<1> DEFINE n == IF Cardinality(S) < q.limit THEN Cardinality(S) ELSE q.limit
<1>7. /\ n \in Nat /\ list \in [1..n -> S] /\ Len(list) = n
      /\ \A i, j \in 1..n : list[i] = list[j] => i = j
      /\ Cardinality(S) <= q.limit => \A c \in S : \E i \in 1..n : list[i] = c
  BY <1>5, <1>6, RankedIs
<1>8. Cardinality(S) \in Nat \ {0}
  <2>1. S # {}
    BY <1>2 DEF O
  <2> QED  BY <1>4, <2>1, FS_EmptySet, FS_CardinalityType
<1>9. /\ Cardinality(O) \in Nat /\ Cardinality(DOMAIN p) \in Nat
      /\ Cardinality(S) \in Nat /\ n = IF Cardinality(S) < q.limit THEN Cardinality(S) ELSE q.limit
  BY <1>3, <1>8, FS_CardinalityType DEF Poolable
<1> HIDE DEF n, list
<1>10. ASSUME NEW i \in 1..n
       PROVE  /\ list[i].uid \in O /\ list[i] = best(list[i].uid)
  <2>1. PICK u \in O : list[i] = best(u)
    BY <1>2, <1>7
  <2> QED  BY <1>1, <2>1
<1>11. \A i \in 1..n : /\ list[i].uid \in O
                       /\ list[i].kind \in Offers(p[list[i].uid], q)
                       /\ list[i].high <=> Confident(p[list[i].uid], q) # {}
  BY <1>1, <1>10
<1>12. \A i, j \in 1..n : list[i].uid = list[j].uid => i = j
  BY <1>7, <1>10
<1>13. ASSUME n < q.limit \/ Cardinality(DOMAIN p) <= q.limit, NEW u \in O
       PROVE  \E i \in 1..n : list[i].uid = u
  <2>1. Cardinality(S) <= q.limit
    BY <1>3, <1>4, <1>6, <1>9, <1>13
  <2> QED  BY <1>1, <1>7, <2>1
<1>14. n \in Nat \ {0} /\ n <= q.limit /\ DOMAIN list = 1..n /\ Len(list) = n
  BY <1>6, <1>7, <1>8, <1>9
<1> QED  BY <1>11, <1>12, <1>13, <1>14 DEF FoundRight, O, list, S

(* search_assets is right about every pool and request.                    *)
LEMMA AnswersAreRight ==
  ASSUME NEW p, Poolable(p), NEW q, Requestable(q)
  PROVE  AnswerRight(Answer(p, q), p, q)
<1> DEFINE ready == {u \in DOMAIN p : AllowedRenditions(p[u], q) # {}}
           misfit == \E u \in ready : AllowedRenditions(p[u], q) \cap p[u].misfit # {}
           W == {w \in ready : Choices(w, p[w], q) # {}}
           eligible == {Best(Choices(u, p[u], q), q) : u \in W}
           selected == {c \in eligible : q.any_confidence \/ c.high}
           a == Answer(p, q)
<1>1. ready = ReadyIn(p, q) /\ (misfit <=> RaisedBy(p, q))
  BY AllowedAcceptable DEF ReadyIn, RaisedBy
<1>2. W = {u \in DOMAIN p : Eligible(p[u], q) # {}}
  <2>1. \A u \in DOMAIN p : Choices(u, p[u], q) # {} <=> Eligible(p[u], q) # {}
    BY BestIsOffered DEF Poolable
  <2>2. \A u \in DOMAIN p : Eligible(p[u], q) # {} => u \in ready
    BY AllowedAcceptable DEF Eligible
  <2> HIDE DEF ready
  <2>3. ready \subseteq DOMAIN p
    BY DEF ready
  <2> QED  BY <2>1, <2>2, <2>3
<1>3. eligible = {} <=> \A u \in DOMAIN p : Eligible(p[u], q) = {}
  BY <1>2
<1>4. selected = SelectedFrom(p, q)
  <2>1. \A u \in W : LET b == Best(Choices(u, p[u], q), q) IN b.high <=> Confident(p[u], q) # {}
    BY <1>2, BestIsOffered DEF Poolable
  <2>2. \A u \in DOMAIN p : u \in OfferedFrom(p, q) <=>
          u \in W /\ (q.any_confidence \/ Confident(p[u], q) # {})
    BY <1>2 DEF OfferedFrom, Offers, Confident
  <2>3. W \subseteq DOMAIN p /\ OfferedFrom(p, q) \subseteq DOMAIN p
    BY <1>2 DEF OfferedFrom
  <2> DEFINE best(u) == Best(Choices(u, p[u], q), q)
  <2>4. \A u \in W : best(u).high <=> Confident(p[u], q) # {}
    BY <2>1
  <2>5. eligible = {best(u) : u \in W} /\ SelectedFrom(p, q) = {best(u) : u \in OfferedFrom(p, q)}
    BY DEF SelectedFrom
  <2> HIDE DEF W, best, eligible
  <2>6. \A c : c \in selected <=> \E u \in W : c = best(u) /\ (q.any_confidence \/ c.high)
    BY <2>5
  <2>7. \A c : c \in SelectedFrom(p, q) <=> \E u \in OfferedFrom(p, q) : c = best(u)
    BY <2>5
  <2>8. \A c : c \in selected <=> c \in SelectedFrom(p, q)
    BY <2>2, <2>3, <2>4, <2>6, <2>7
  <2> HIDE DEF selected
  <2> QED  BY <2>8
<1>5. a = IF DOMAIN p = {} THEN NoAnswer("no_candidates_in_scope")
          ELSE IF ready = {} THEN NoAnswer("no_acceptable_rendition")
          ELSE IF misfit THEN NoAnswer("raised")
          ELSE IF eligible = {} THEN NoAnswer("no_requirement_match")
          ELSE IF selected = {} THEN NoAnswer("no_high_confidence_match")
          ELSE [found |-> Ranked(selected, q.limit), reason |-> None]
  BY DEF Answer
<1>6. \A reason : NoAnswer(reason).found = <<>> /\ NoAnswer(reason).reason = reason
  BY DEF NoAnswer
<1>7. None \notin Reasons
  BY TitleAssumption
<1>8. ready # {} => DOMAIN p # {}
  OBVIOUS
<1>9. eligible # {} => ready # {}
  BY <1>2
<1>10. selected = {} <=> OfferedFrom(p, q) = {}
  BY <1>4 DEF SelectedFrom
<1>11. selected # {} => eligible # {}
  OBVIOUS
<1>12. selected # {} => FoundRight(Ranked(selected, q.limit), p, q)
  BY <1>4, <1>10, SelectedFound
<1>13. RaisedBy(p, q) => ReadyIn(p, q) # {}
  BY DEF RaisedBy, ReadyIn
<1>14. selected = {} => \A u \in DOMAIN p : Confident(p[u], q) = {}
  <2>1. \A u \in DOMAIN p : Confident(p[u], q) # {} => u \in OfferedFrom(p, q)
    BY DEF OfferedFrom, Offers
  <2> QED  BY <1>10, <2>1
<1> SUFFICES AnswerRight(a, p, q)
  OBVIOUS
<1> HIDE DEF ready, misfit, eligible, selected, a, W
<1>15. CASE DOMAIN p = {}
  <2>1. a = NoAnswer("no_candidates_in_scope")
    BY <1>5, <1>8, <1>15
  <2>2. a.reason = "no_candidates_in_scope" /\ a.found = <<>>
    BY <1>6, <2>1
  <2>3. a.reason # None /\ a.reason \in Reasons
    BY <1>7, <2>2 DEF Reasons
  <2> HIDE DEF a
  <2> QED  BY <1>1, <1>8, <1>9, <1>10, <1>11, <1>13, <1>15, <2>2, <2>3 DEF AnswerRight
<1>16. CASE DOMAIN p # {} /\ ready = {}
  <2>1. a = NoAnswer("no_acceptable_rendition")
    BY <1>5, <1>8, <1>16
  <2>2. a.reason = "no_acceptable_rendition" /\ a.found = <<>>
    BY <1>6, <2>1
  <2>3. a.reason # None /\ a.reason \in Reasons
    BY <1>7, <2>2 DEF Reasons
  <2> HIDE DEF a
  <2> QED  BY <1>1, <1>9, <1>10, <1>11, <1>13, <1>16, <2>2, <2>3 DEF AnswerRight
<1>17. CASE ready # {} /\ misfit
  <2>1. a = NoAnswer("raised")
    BY <1>5, <1>8, <1>17
  <2>2. a.reason = "raised" /\ a.found = <<>>
    BY <1>6, <2>1
  <2>3. a.reason # None /\ a.reason \in Reasons
    BY <1>7, <2>2 DEF Reasons
  <2> HIDE DEF a
  <2> QED  BY <1>1, <1>8, <1>17, <2>2, <2>3 DEF AnswerRight
<1>18. CASE ready # {} /\ ~misfit /\ eligible = {}
  <2>1. a = NoAnswer("no_requirement_match")
    BY <1>5, <1>8, <1>18
  <2>2. a.reason = "no_requirement_match" /\ a.found = <<>>
    BY <1>6, <2>1
  <2>3. a.reason # None /\ a.reason \in Reasons
    BY <1>7, <2>2 DEF Reasons
  <2> HIDE DEF a
  <2> QED  BY <1>1, <1>3, <1>8, <1>10, <1>11, <1>18, <2>2, <2>3 DEF AnswerRight
<1>19. CASE ready # {} /\ ~misfit /\ eligible # {} /\ selected = {}
  <2>1. a = NoAnswer("no_high_confidence_match")
    BY <1>5, <1>8, <1>19
  <2>2. a.reason = "no_high_confidence_match" /\ a.found = <<>>
    BY <1>6, <2>1
  <2>3. a.reason # None /\ a.reason \in Reasons
    BY <1>7, <2>2 DEF Reasons
  <2> HIDE DEF a
  <2> QED  BY <1>1, <1>3, <1>8, <1>10, <1>14, <1>19, <2>2, <2>3 DEF AnswerRight
<1>20. CASE ready # {} /\ ~misfit /\ selected # {}
  <2>1. a = [found |-> Ranked(selected, q.limit), reason |-> None]
    BY <1>5, <1>8, <1>11, <1>20
  <2>2. a.reason = None /\ a.found = Ranked(selected, q.limit)
    BY <2>1
  <2>3. \A reason \in Reasons : a.reason # reason
    BY <1>7, <2>2
  <2>4. a.reason \notin {"no_candidates_in_scope", "no_acceptable_rendition", "raised",
                         "no_requirement_match", "no_high_confidence_match"}
    BY <2>3 DEF Reasons
  <2> HIDE DEF a
  <2> QED  BY <1>1, <1>8, <1>10, <1>12, <1>20, <2>2, <2>4 DEF AnswerRight
<1> QED  BY <1>15, <1>16, <1>17, <1>18, <1>19, <1>20

----------------------------------------------------------------------------------
(* What a session holds of an asset that is left alone is what is stored.  *)
Holds(held) ==
  \A a \in Assets \ touched : held[a] # None => db[a] # NoRow /\ held[a] = db[a].rev

(* The pool of the last SELECT, for assets that are left alone.            *)
FreshPool(scope) ==
  /\ \A a \in pool : db[a] # NoRow
  /\ \A a \in Assets \ touched : a \in pool <=> a \in ActiveIn(scope)
  /\ Cardinality(pool) <= PoolLimit

Loaded(held, assets) == \A a \in assets : held[a] # None

(* A client's search: its pool, the rows it holds, its answer.             *)
ClientInv ==
  LET ended == pc = "done" /\ result # "over capacity"
  IN  task # Verify =>
        /\ Requestable(task) /\ pc \in {"select", "semantics", "renditions", "rank", "done"}
        /\ pc \in {"semantics", "renditions", "rank"} \/ ended => FreshPool(task.scope)
        /\ pc \in {"renditions", "rank"} \/ ended => Loaded(sem, pool)
        /\ pc = "rank" \/ ended => Loaded(rend, pool)
        /\ ended => AnswerRight([found |-> found, reason |-> result], Evidence(sem, rend), task)
        /\ pc = "done" /\ ~ended /\ touched = {} =>
             Cardinality(ActiveIn(task.scope)) > PoolLimit

(* A verification: where it is, the title's assets, the rows it holds.     *)
Course ==
  /\ pc # "rank" /\ (pc \in {"renditions", "semantics"} => pool = expected)
  /\ pc = "select" => samples = {} /\ \A a \in Assets : sem[a] = None /\ rend[a] = None
  /\ pc \in {"select", "renditions", "semantics"} => turn = 0
  /\ pc \in {"search", "answer"} => turn < 5
  /\ pc \in {"rows", "sample"} => turn = 2
  /\ pc = "staging" => turn = 5
  /\ pc # "select" => /\ \A a \in expected : db[a] # NoRow
                      /\ \A a \in Assets \ touched : a \in expected <=> a \in Placed(TitleScope)
  /\ pc \notin {"select", "renditions"} => Loaded(rend, expected)
  /\ pc \notin {"select", "renditions", "semantics"} => Loaded(sem, expected)
  /\ pc = "answer" => FreshPool(TitleScope)
  /\ pc = "sample" => samples \subseteq Sampled(expected)

(* What is true of a title as long as verification has nothing to report.  *)
Going == pc # "done" \/ result = "PASS"
Checked ==
  \/ pc \in {"sample", "staging"} \/ (pc \in {"search", "answer"} /\ turn >= 2)
  \/ pc = "done" /\ result = "PASS"

SoundSoFar ==
  ~faulty /\ Going =>
    /\ pc # "select" =>
         expected # {} /\ \A a, b \in expected : ProducerId[a] = ProducerId[b] => a = b
    /\ turn >= 1 => /\ Cardinality(expected) <= SearchLimit
                    /\ \A a \in expected \ touched : db[a].active
    /\ Checked => \A a \in expected : /\ DOMAIN RevisionOf[rend[a]].over = Kinds
                                      /\ RevisionOf[rend[a]].sound /\ RevisionOf[sem[a]].sound
    /\ Checked => \A a \in Sampled(expected) \ touched :
                    (a \in samples /\ pc = "sample") \/ <<a, rend[a]>> \notin damaged
    /\ turn >= 3 => \A a \in expected \ touched : RevisionOf[rend[a]].misfit = {}

(* How a verification ends.                                                *)
Ended ==
  pc = "done" =>
    /\ result = "PASS" => ~faulty /\ ~staged /\ turn = 5
    /\ touched = {} /\ result = "over capacity" => Cardinality(ActiveIn(TitleScope)) > PoolLimit
    /\ touched = {} /\ result = "raised" =>
         \E a \in Placed(TitleScope) : RowsOf(a).misfit # {}

VerifyInv == task = Verify => Course /\ SoundSoFar /\ Ended

(* A healthy title among whole revisions has nothing that is reported.     *)
Calm == tame /\ Healthy /\ (touched = {} \/ damaged = {})
CalmInv ==
  task = Verify /\ Calm =>
    /\ pc # "select" => expected = Placed(TitleScope)
    /\ pc = "answer" => pool = expected
    /\ \A a \in expected : /\ rend[a] # None => Whole(rend[a])
                           /\ sem[a] # None => Whole(sem[a])
    /\ ~faulty
    /\ pc = "done" => result = "PASS"

TitleInv == TypeOK /\ Holds(sem) /\ Holds(rend) /\ ClientInv /\ VerifyInv /\ CalmInv

----------------------------------------------------------------------------------
(* Rows mean the same wherever they are kept.                              *)
LEMMA SameMeaning ==
  ASSUME NEW e, NEW r, e.base = r.base, e.over = r.over, NEW q
  PROVE  /\ Acceptable(e, q) = Acceptable(r, q) /\ Eligible(e, q) = Eligible(r, q)
         /\ Confident(e, q) = Confident(r, q) /\ Offers(e, q) = Offers(r, q)
<1>1. \A k, f : Says(e, k, f) = Says(r, k, f)
  BY DEF Says
<1>2. Acceptable(e, q) = Acceptable(r, q)
  BY DEF Acceptable
<1>3. \A k : Contradicted(e, k, q) <=> Contradicted(r, k, q)
  BY <1>1 DEF Contradicted
<1>4. \A k : Established(e, k, q) <=> Established(r, k, q)
  BY <1>1 DEF Established
<1>5. Eligible(e, q) = Eligible(r, q)
  BY <1>2, <1>3, <1>4 DEF Eligible
<1>6. Confident(e, q) = Confident(r, q)
  <2>1. \A k : (\E f \in TextFields : q.query \cap Says(e, k, f) # {})
                 <=> \E f \in TextFields : q.query \cap Says(r, k, f) # {}
    BY <1>1
  <2>2. \A k : k \in Confident(e, q) <=> k \in Confident(r, q)
    BY <1>4, <1>5, <2>1 DEF Confident
  <2> QED  BY <2>2 DEF Confident
<1> QED  BY <1>2, <1>5, <1>6 DEF Offers

Sessions == [Assets -> Revisions \cup {None}]

(* Rows that have been read are a pool.                                    *)
LEMMA EvidenceIs ==
  ASSUME pool \subseteq Assets, NEW s \in Sessions, NEW r \in Sessions,
         Loaded(s, pool), Loaded(r, pool)
  PROVE  /\ Poolable(Evidence(s, r)) /\ DOMAIN Evidence(s, r) = pool
         /\ \A a \in pool : /\ s[a] \in Revisions /\ r[a] \in Revisions
                            /\ Evidence(s, r)[a].base = RevisionOf[s[a]].base
                            /\ Evidence(s, r)[a].over = RevisionOf[r[a]].over
                            /\ Evidence(s, r)[a].misfit = RevisionOf[r[a]].misfit
<1>1. DOMAIN Evidence(s, r) = pool
  BY DEF Evidence
<1>2. \A a \in pool : s[a] \in Revisions /\ r[a] \in Revisions
  BY DEF Sessions, Loaded
<1>3. \A a \in pool : /\ Evidence(s, r)[a].base = RevisionOf[s[a]].base
                      /\ Evidence(s, r)[a].over = RevisionOf[r[a]].over
                      /\ Evidence(s, r)[a].misfit = RevisionOf[r[a]].misfit
  BY DEF Evidence
<1>4. \A a \in pool : Shaped(Evidence(s, r)[a])
  BY <1>2, <1>3, TitleAssumption DEF Shaped
<1>5. IsFiniteSet(pool) /\ pool \subseteq Nat
  BY FS_Subset, TitleAssumption
<1> QED  BY <1>1, <1>2, <1>3, <1>4, <1>5 DEF Poolable

(* A SELECT adds rows to the session and replaces none.                    *)
LEMMA LoadIs ==
  ASSUME TypeOK, NEW held \in Sessions, Holds(held), NEW assets \in SUBSET Assets,
         \A a \in assets : db[a] # NoRow
  PROVE  /\ Load(held, assets) \in Sessions /\ Holds(Load(held, assets))
         /\ Loaded(Load(held, assets), assets)
         /\ \A a \in Assets : held[a] # None => Load(held, assets)[a] = held[a]
         /\ \A a \in Assets : held[a] = None /\ Load(held, assets)[a] # None =>
              a \in assets /\ Load(held, assets)[a] = db[a].rev
<1>1. \A a \in assets : db[a].rev \in Revisions /\ db[a].rev # None
  BY TitleAssumption DEF TypeOK, Rows
<1>2. \A a \in Assets : Load(held, assets)[a] =
        IF a \in assets /\ held[a] = None THEN db[a].rev ELSE held[a]
  BY DEF Load
<1>3. Load(held, assets) \in Sessions
  BY <1>1, <1>2 DEF Load, Sessions
<1>4. Holds(Load(held, assets))
  BY <1>1, <1>2 DEF Holds
<1>5. Loaded(Load(held, assets), assets)
  BY <1>1, <1>2 DEF Loaded
<1> QED  BY <1>2, <1>3, <1>4, <1>5

(* Verification's searches offer every asset that has the rendition.       *)
LEMMA SearchRequestOffers ==
  ASSUME NEW kind \in Kinds \cup {None}, NEW e
  PROVE  LET q == SearchRequest(kind)
         IN  /\ Requestable(q) /\ q.limit = SearchLimit
             /\ Acceptable(e, q) = DOMAIN e.over \cap (IF kind = None THEN Kinds ELSE {kind})
             /\ Offers(e, q) # {} <=> Acceptable(e, q) # {}
<1> DEFINE q == SearchRequest(kind)
<1>1. None \notin Kinds
  BY TitleAssumption
<1>2. /\ q.query = {} /\ q.terms = [key \in TermKeys |-> {}]
      /\ q.count_min = None /\ q.count_max = None
      /\ q.acceptable = (IF kind = None THEN <<"horizontal", "vertical">> ELSE <<kind>>)
      /\ q.preferred = kind /\ q.required = (kind # None)
      /\ q.allow_unknown = TRUE /\ q.any_confidence = TRUE /\ q.limit = SearchLimit
  BY DEF SearchRequest
<1> HIDE DEF q
<1>3. \A k : (\E i \in DOMAIN q.acceptable : q.acceptable[i] = k)
               <=> k \in (IF kind = None THEN Kinds ELSE {kind})
  BY <1>2 DEF Kinds
<1>4. Requestable(q)
  <2>1. IsFiniteSet(q.query) /\ q.limit \in Nat \ {0}
    BY <1>2, FS_EmptySet, TitleAssumption
  <2>2. \A key \in TermKeys : q.terms[key] \subseteq Terms
    BY <1>2
  <2>3. q.acceptable \in Seq(Kinds)
    <3>1. <<"horizontal", "vertical">> \in Seq(Kinds)
      BY DEF Kinds
    <3>2. \A k \in Kinds : <<k>> \in Seq(Kinds)
      OBVIOUS
    <3> QED  BY <1>2, <3>1, <3>2
  <2>4. q.preferred # None => \E i \in DOMAIN q.acceptable : q.acceptable[i] = q.preferred
    BY <1>2, <1>3
  <2>5. q.required => q.preferred # None
    BY <1>2
  <2> QED  BY <2>1, <2>2, <2>3, <2>4, <2>5 DEF Requestable
<1>5. Acceptable(e, q) = DOMAIN e.over \cap (IF kind = None THEN Kinds ELSE {kind})
  BY <1>2, <1>3 DEF Acceptable
<1>6. \A k : ~Contradicted(e, k, q)
  BY <1>2 DEF Contradicted, Asked
<1>7. Eligible(e, q) = Acceptable(e, q)
  BY <1>2, <1>6 DEF Eligible, Acceptable
<1>8. Confident(e, q) \subseteq Eligible(e, q)
  BY DEF Confident
<1>9. Offers(e, q) # {} <=> Acceptable(e, q) # {}
  BY <1>2, <1>7, <1>8 DEF Offers
<1> QED  BY <1>2, <1>4, <1>5, <1>9 DEF q

----------------------------------------------------------------------------------
(* The initial states.                                                     *)
LEMMA InitInv == Init => TitleInv
<1> SUFFICES ASSUME Init PROVE TitleInv
  OBVIOUS
<1>1. /\ db \in [Assets -> Rows \cup {NoRow}] /\ damaged \subseteq Assets \X Revisions
      /\ staged \in BOOLEAN /\ events \in Nat /\ (task = Verify \/ Requestable(task))
  BY TitleAssumption DEF Init
<1>2. /\ pc = "select" /\ pool = {} /\ expected = {} /\ turn = 0 /\ samples = {}
      /\ sem = [a \in Assets |-> None] /\ rend = [a \in Assets |-> None]
      /\ faulty = FALSE /\ touched = {} /\ tame = TRUE
  BY DEF Init
<1>3. TypeOK
  <2>1. sem \in [Assets -> Revisions \cup {None}] /\ rend \in [Assets -> Revisions \cup {None}]
    BY <1>2
  <2>2. pc \in Steps
    BY <1>2 DEF Steps
  <2>4. faulty \in BOOLEAN /\ tame \in BOOLEAN
    BY <1>2
  <2>5. turn \in 0..5
    BY <1>2
  <2>3. pool \subseteq Assets /\ expected \subseteq Assets /\ samples \subseteq expected
        /\ touched \subseteq Assets
    BY <1>2
  <2> QED  BY <1>1, <2>1, <2>2, <2>3, <2>4, <2>5 DEF TypeOK
<1>4. Holds(sem) /\ Holds(rend)
  BY <1>2 DEF Holds
<1>5. ClientInv
  BY <1>1, <1>2 DEF ClientInv
<1>6. VerifyInv
  BY <1>2 DEF VerifyInv, Course, SoundSoFar, Ended, Checked
<1>7. CalmInv
  BY <1>2 DEF CalmInv
<1> QED  BY <1>3, <1>4, <1>5, <1>6, <1>7 DEF TitleInv

(* A commit elsewhere concerns only assets that count as touched.          *)
Elsewhere ==
  /\ UNCHANGED call /\ pc # "done" /\ TypeOK' /\ touched \subseteq touched'
  /\ \A a \in Assets \ touched' : db'[a] = db[a]
  /\ \A a \in Assets : db[a] # NoRow => db'[a] # NoRow
  /\ \A a \in Assets \ touched', r \in Revisions : <<a, r>> \in damaged' <=> <<a, r>> \in damaged
  /\ Calm' => Calm /\ Placed(TitleScope)' = Placed(TitleScope)

(* Such a commit keeps the invariant.                                      *)
LEMMA ElsewhereKeeps ==
  ASSUME TitleInv, Elsewhere
  PROVE  TitleInv'
<1>1. /\ UNCHANGED call /\ pc # "done" /\ TypeOK /\ TypeOK' /\ touched \subseteq touched'
      /\ \A a \in Assets \ touched' : db'[a] = db[a]
      /\ \A a \in Assets : db[a] # NoRow => db'[a] # NoRow
      /\ \A a \in Assets \ touched', r \in Revisions : <<a, r>> \in damaged' <=> <<a, r>> \in damaged
  BY DEF Elsewhere, TitleInv
<1>2. /\ task' = task /\ pc' = pc /\ pool' = pool /\ sem' = sem /\ rend' = rend
      /\ expected' = expected /\ turn' = turn /\ samples' = samples /\ faulty' = faulty
      /\ found' = found /\ result' = result
  BY <1>1 DEF call
<1>3. Holds(sem)' /\ Holds(rend)'
  BY <1>1, <1>2 DEF TitleInv, Holds
<1>4. ASSUME NEW scope, NEW a \in Assets \ touched'
      PROVE  /\ a \in Placed(scope)' <=> a \in Placed(scope)
             /\ a \in ActiveIn(scope)' <=> a \in ActiveIn(scope)
  BY <1>1 DEF Placed, ActiveIn
<1>5. ASSUME NEW scope, FreshPool(scope)
      PROVE  FreshPool(scope)'
  <2>1. \A a \in pool' : db'[a] # NoRow
    BY <1>1, <1>2, <1>5 DEF FreshPool, TypeOK
  <2>2. \A a \in Assets \ touched' : a \in pool' <=> a \in ActiveIn(scope)'
    BY <1>1, <1>2, <1>4, <1>5 DEF FreshPool
  <2> QED  BY <1>2, <1>5, <2>1, <2>2 DEF FreshPool
<1>6. Loaded(sem, pool)' = Loaded(sem, pool) /\ Loaded(rend, pool)' = Loaded(rend, pool)
      /\ Loaded(sem, expected)' = Loaded(sem, expected)
      /\ Loaded(rend, expected)' = Loaded(rend, expected)
      /\ Sampled(expected)' = Sampled(expected)
  BY <1>2 DEF Loaded, Sampled
<1>7. ClientInv'
  BY <1>1, <1>2, <1>5, <1>6 DEF TitleInv, ClientInv
<1>8. ASSUME task = Verify
      PROVE  Course' /\ SoundSoFar' /\ Ended'
  <2>1. Course /\ SoundSoFar
    BY <1>8 DEF TitleInv, VerifyInv
  <2>2. expected \subseteq Assets
    BY <1>1 DEF TypeOK
  <2>3. pc # "select" =>
          /\ \A a \in expected' : db'[a] # NoRow
          /\ \A a \in Assets \ touched' : a \in expected' <=> a \in Placed(TitleScope)'
    BY <1>1, <1>2, <1>4, <2>1, <2>2 DEF Course
  <2>4. Course'
    BY <1>2, <1>5, <1>6, <2>1, <2>3 DEF Course
  <2>5. Checked' = Checked
    BY <1>2 DEF Checked
  <2>6. \A a \in expected \ touched' : a \in expected \ touched /\ db'[a] = db[a]
    BY <1>1, <2>2
  <2>7. ASSUME Checked
        PROVE  \A a \in Sampled(expected) \ touched' :
                 <<a, rend[a]>> \in damaged' <=> <<a, rend[a]>> \in damaged
    <3>1. pc \notin {"select", "renditions"}
      BY <2>7, <1>1 DEF Checked
    <3>2. Sampled(expected) \subseteq expected
      BY DEF Sampled
    <3>3. \A a \in expected : rend[a] \in Revisions
      BY <1>1, <2>1, <2>2, <3>1 DEF Course, Loaded, TypeOK
    <3> QED  BY <1>1, <2>2, <3>2, <3>3
  <2>8. Sampled(expected) \ touched' \subseteq Sampled(expected) \ touched
    BY <1>1
  <2>9. SoundSoFar'
    BY <1>1, <1>2, <1>6, <2>1, <2>5, <2>6, <2>7, <2>8 DEF SoundSoFar, Going
  <2>10. Ended'
    BY <1>1, <1>2 DEF Ended
  <2> QED  BY <2>4, <2>9, <2>10
<1>9. VerifyInv'
  BY <1>2, <1>8 DEF VerifyInv
<1>10. CalmInv'
  <2>1. Calm' => Calm /\ Placed(TitleScope)' = Placed(TitleScope)
    BY DEF Elsewhere
  <2>2. CalmInv
    BY DEF TitleInv
  <2> QED  BY <1>1, <1>2, <2>1, <2>2 DEF CalmInv
<1> QED  BY <1>1, <1>3, <1>7, <1>9, <1>10 DEF TitleInv

(* What happens meanwhile is elsewhere.                                    *)
LEMMA MeanwhileElsewhere ==
  ASSUME TitleInv,
         \/ \E a \in Assets : Deactivate(a) \/ DamageObjects(a)
         \/ \E a \in Assets, r \in Revisions : CatalogRevision(a, r)
         \/ ChangeStaging
  PROVE  Elsewhere
<1>1. TypeOK
  BY DEF TitleInv
<1>2. ASSUME NEW a \in Assets, Deactivate(a) PROVE Elsewhere
  <2>1. db[a] \in Rows
    BY <1>1, <1>2 DEF Deactivate, TypeOK
  <2>2. db' = [db EXCEPT ![a] = [rev |-> db[a].rev, active |-> FALSE]]
    BY <1>2 DEF Deactivate
  <2>3. [rev |-> db[a].rev, active |-> FALSE] \in Rows
    BY <2>1 DEF Rows
  <2>4. TypeOK'
    <3>1. db' \in [Assets -> Rows \cup {NoRow}]
      BY <1>1, <2>2, <2>3 DEF TypeOK
    <3>2. Happens({a}, FALSE) /\ damaged' = damaged /\ staged' = staged
      BY <1>2 DEF Deactivate
    <3> QED  BY <1>1, <3>1, <3>2 DEF Happens, TypeOK, call
  <2> QED  BY <1>1, <1>2, <2>2, <2>3, <2>4, TitleAssumption
           DEF Deactivate, Happens, Elsewhere, Calm, TypeOK
<1>3. ASSUME NEW a \in Assets, DamageObjects(a) PROVE Elsewhere
  <2>1. db[a].rev \in Revisions
    BY <1>1, <1>3 DEF DamageObjects, TypeOK, Rows
  <2>2. TypeOK'
    BY <1>1, <1>3, <2>1 DEF DamageObjects, Happens, TypeOK, call
  <2> QED  BY <1>1, <1>3, <2>2 DEF DamageObjects, Happens, Elsewhere, Calm
<1>4. ASSUME NEW a \in Assets, NEW r \in Revisions, CatalogRevision(a, r) PROVE Elsewhere
  <2>1. [rev |-> r, active |-> TRUE] \in Rows
    BY DEF Rows
  <2>2. db' = [db EXCEPT ![a] = [rev |-> r, active |-> TRUE]]
    BY <1>4 DEF CatalogRevision
  <2>3. /\ \A x \in Assets \ {a} : db'[x] = db[x]
        /\ db'[a] = [rev |-> r, active |-> TRUE] /\ db'[a] # NoRow
    BY <1>1, <2>1, <2>2, TitleAssumption DEF TypeOK
  <2>4. TypeOK'
    BY <1>1, <1>4, <2>1, <2>2 DEF CatalogRevision, Happens, TypeOK, call
  <2>5. ASSUME Calm' PROVE Calm /\ Placed(TitleScope)' = Placed(TitleScope)
    <3>1. /\ tame /\ db[a] # NoRow /\ db[a].active /\ Whole(db[a].rev)
          /\ touched' # {} /\ damaged' = damaged /\ staged' = staged
      BY <1>4, <2>5 DEF Calm, CatalogRevision, Happens
    <3>2. damaged = {}
      BY <2>5, <3>1 DEF Calm
    <3>3. Placed(TitleScope)' = Placed(TitleScope)
      BY <2>3, <3>1 DEF Placed
    <3>4. Healthy'
      BY <2>5 DEF Calm
    <3>5. \A x \in Placed(TitleScope) : db[x].active /\ Whole(db[x].rev)
      <4>1. \A x \in Placed(TitleScope) : db'[x].active /\ Whole(db'[x].rev)
        BY <3>3, <3>4 DEF Healthy, Whole
      <4> QED  BY <2>3, <3>1, <4>1 DEF Placed
    <3>6. Healthy
      <4> DEFINE title == Placed(TitleScope)
      <4>1. title' = title
        BY <3>3
      <4> HIDE DEF title
      <4>2. /\ title # {} /\ Cardinality(title) <= SearchLimit /\ ~staged
            /\ \A x, y \in title : ProducerId[x] = ProducerId[y] => x = y
        BY <3>1, <3>4, <4>1 DEF Healthy, title
      <4> QED  BY <3>2, <3>5, <4>2 DEF Healthy, title
    <3> QED  BY <3>1, <3>2, <3>3, <3>6 DEF Calm
  <2> QED  BY <1>1, <1>4, <2>3, <2>4, <2>5 DEF CatalogRevision, Happens, Elsewhere
<1>5. ASSUME ChangeStaging PROVE Elsewhere
  <2>1. TypeOK'
    BY <1>1, <1>5 DEF ChangeStaging, Happens, TypeOK, call
  <2> QED  BY <1>1, <1>5, <2>1 DEF ChangeStaging, Happens, Elsewhere, Calm
<1> QED  BY <1>2, <1>3, <1>4, <1>5

----------------------------------------------------------------------------------
(* A SELECT of a scope's active assets.                                    *)
LEMMA FetchIs ==
  ASSUME TypeOK, UNCHANGED catalog, UNCHANGED history, NEW scope, NEW next,
         FetchCandidates(scope, next)
  PROVE  /\ pool' = ActiveIn(scope) /\ pool' \subseteq Assets /\ ActiveIn(scope)' = ActiveIn(scope)
         /\ \/ pc' = "done" /\ result' = "over capacity" /\ Cardinality(ActiveIn(scope)) > PoolLimit
            \/ pc' = next /\ result' = result /\ FreshPool(scope)'
<1>1. pool' = ActiveIn(scope) /\ db' = db /\ touched' = touched
  BY DEF FetchCandidates, catalog, history
<1>2. ActiveIn(scope) \subseteq Assets /\ (\A a \in ActiveIn(scope) : db[a] # NoRow)
      /\ ActiveIn(scope)' = ActiveIn(scope)
  BY <1>1 DEF ActiveIn, Placed
<1>3. Cardinality(ActiveIn(scope)) \in Nat
  BY <1>2, FS_Subset, FS_CardinalityType, TitleAssumption
<1>4. \/ pc' = "done" /\ result' = "over capacity" /\ Cardinality(ActiveIn(scope)) > PoolLimit
      \/ pc' = next /\ result' = result /\ ~ (Cardinality(ActiveIn(scope)) > PoolLimit)
  BY <1>1 DEF FetchCandidates
<1>5. ASSUME ~ (Cardinality(ActiveIn(scope)) > PoolLimit) PROVE FreshPool(scope)'
  <2>1. Cardinality(pool') <= PoolLimit
    BY <1>1, <1>3, <1>5, LimitsAre
  <2> QED  BY <1>1, <1>2, <2>1 DEF FreshPool
<1> QED  BY <1>1, <1>2, <1>4, <1>5

(* A client's search keeps the invariant.                                  *)
LEMMA ClientReads ==
  ASSUME TitleInv, task # Verify, Read, UNCHANGED catalog, UNCHANGED history
  PROVE  TitleInv'
<1>1. TypeOK /\ Holds(sem) /\ Holds(rend) /\ ClientInv
  BY DEF TitleInv
<1>2. db' = db /\ damaged' = damaged /\ staged' = staged /\ touched' = touched
      /\ tame' = tame /\ events' = events
  BY DEF catalog, history
<1>3. Requestable(task) /\ pc \in {"select", "semantics", "renditions", "rank", "done"}
  BY <1>1 DEF ClientInv
<1>4. sem \in Sessions /\ rend \in Sessions /\ pool \in SUBSET Assets
  BY <1>1 DEF TypeOK, Sessions
<1>5. ASSUME task' = task PROVE VerifyInv' /\ CalmInv'
  BY <1>5 DEF VerifyInv, CalmInv
<1>6. CASE SelectCandidates
  <2>1. /\ FetchCandidates(task.scope, "semantics") /\ pc = "select"
        /\ UNCHANGED <<task, sem, rend, expected, turn, samples, faulty, found>>
    BY <1>6 DEF SelectCandidates
  <2>2. /\ pool' \subseteq Assets /\ ActiveIn(task.scope)' = ActiveIn(task.scope)
        /\ \/ /\ pc' = "done" /\ result' = "over capacity"
              /\ Cardinality(ActiveIn(task.scope)) > PoolLimit
           \/ pc' = "semantics" /\ result' = result /\ FreshPool(task.scope)'
    BY <1>1, <2>1, FetchIs
  <2>3. TypeOK'
    BY <1>1, <1>2, <2>1, <2>2 DEF TypeOK, Steps
  <2>4. Holds(sem)' /\ Holds(rend)'
    BY <1>1, <1>2, <2>1 DEF Holds
  <2>5. ClientInv'
    BY <1>3, <2>1, <2>2 DEF ClientInv
  <2> QED  BY <1>5, <2>1, <2>3, <2>4, <2>5 DEF TitleInv
<1>7. CASE SelectSemantics
  <2>1. /\ pc = "semantics" /\ pc' = "renditions" /\ sem' = Load(sem, pool)
        /\ UNCHANGED <<task, pool, rend, expected, turn, samples, faulty, result, found>>
    BY <1>7 DEF SelectSemantics
  <2>2. FreshPool(task.scope)
    BY <1>1, <2>1 DEF ClientInv
  <2>3. sem' \in Sessions /\ Holds(sem') /\ Loaded(sem', pool)
    BY <1>1, <1>4, <2>1, <2>2, LoadIs DEF FreshPool
  <2>4. TypeOK'
    BY <1>1, <1>2, <2>1, <2>3 DEF TypeOK, Steps, Sessions
  <2>5. Holds(sem)' /\ Holds(rend)'
    BY <1>1, <1>2, <2>1, <2>3 DEF Holds
  <2>6. FreshPool(task.scope)' /\ Loaded(sem, pool)'
    BY <1>2, <2>1, <2>2, <2>3 DEF FreshPool, Loaded, ActiveIn, Placed
  <2>7. ClientInv'
    BY <1>3, <2>1, <2>6 DEF ClientInv
  <2> QED  BY <1>5, <2>1, <2>4, <2>5, <2>7 DEF TitleInv
<1>8. CASE SelectRenditions
  <2>1. /\ pc = "renditions" /\ pc' = "rank" /\ rend' = Load(rend, pool)
        /\ UNCHANGED <<task, pool, sem, expected, turn, samples, faulty, result, found>>
    BY <1>8 DEF SelectRenditions
  <2>2. FreshPool(task.scope) /\ Loaded(sem, pool)
    BY <1>1, <2>1 DEF ClientInv
  <2>3. rend' \in Sessions /\ Holds(rend') /\ Loaded(rend', pool)
    BY <1>1, <1>4, <2>1, <2>2, LoadIs DEF FreshPool
  <2>4. TypeOK'
    BY <1>1, <1>2, <2>1, <2>3 DEF TypeOK, Steps, Sessions
  <2>5. Holds(sem)' /\ Holds(rend)'
    BY <1>1, <1>2, <2>1, <2>3 DEF Holds
  <2>6. FreshPool(task.scope)' /\ Loaded(sem, pool)' /\ Loaded(rend, pool)'
    BY <1>2, <2>1, <2>2, <2>3 DEF FreshPool, Loaded, ActiveIn, Placed
  <2>7. ClientInv'
    BY <1>3, <2>1, <2>6 DEF ClientInv
  <2> QED  BY <1>5, <2>1, <2>4, <2>5, <2>7 DEF TitleInv
<1>9. CASE RankCandidates
  <2> DEFINE a == Answer(Evidence(sem, rend), task)
  <2>1. /\ pc = "rank" /\ pc' = "done" /\ found' = a.found /\ result' = a.reason
        /\ UNCHANGED <<task, pool, sem, rend, expected, turn, samples, faulty>>
    BY <1>9 DEF RankCandidates
  <2>2. FreshPool(task.scope) /\ Loaded(sem, pool) /\ Loaded(rend, pool)
    BY <1>1, <2>1 DEF ClientInv
  <2>3. AnswerRight(a, Evidence(sem, rend), task)
    BY <1>3, <1>4, <2>2, EvidenceIs, AnswersAreRight
  <2> HIDE DEF a
  <2>4. Evidence(sem, rend)' = Evidence(sem, rend)
    BY <2>1 DEF Evidence
  <2>5. AnswerRight([found |-> found', reason |-> result'], Evidence(sem, rend), task)
    BY <2>1, <2>3 DEF AnswerRight
  <2>6. result' # "over capacity"
    <3>1. result' \in {None} \cup Reasons
      BY <2>1, <2>3 DEF AnswerRight
    <3> QED  BY <3>1, TitleAssumption DEF Reasons
  <2>7. TypeOK'
    BY <1>1, <1>2, <2>1 DEF TypeOK, Steps
  <2>8. Holds(sem)' /\ Holds(rend)'
    BY <1>1, <1>2, <2>1 DEF Holds
  <2>9. FreshPool(task.scope)' /\ Loaded(sem, pool)' /\ Loaded(rend, pool)'
    BY <1>2, <2>1, <2>2 DEF FreshPool, Loaded, ActiveIn, Placed
  <2>10. AnswerRight([found |-> found, reason |-> result], Evidence(sem, rend), task)'
    BY <2>1, <2>4, <2>5
  <2>11. ClientInv'
    BY <1>3, <2>1, <2>6, <2>9, <2>10 DEF ClientInv
  <2> QED  BY <1>5, <2>1, <2>7, <2>8, <2>11 DEF TitleInv
<1>10. SelectCandidates \/ SelectSemantics \/ SelectRenditions \/ RankCandidates
  BY <1>3 DEF Read, SelectTitle, SearchTitle, CompareAnswer, CheckRows, SampleObjects
<1> QED  BY <1>6, <1>7, <1>8, <1>9, <1>10

(* What a step that only reads leaves as it is.                            *)
LEMMA QuietIs ==
  ASSUME UNCHANGED catalog, UNCHANGED history
  PROVE  /\ db' = db /\ damaged' = damaged /\ staged' = staged
         /\ touched' = touched /\ tame' = tame /\ events' = events
         /\ Calm' = Calm /\ Healthy' = Healthy
         /\ Placed(TitleScope)' = Placed(TitleScope) /\ ActiveIn(TitleScope)' = ActiveIn(TitleScope)
<1>1. /\ db' = db /\ damaged' = damaged /\ staged' = staged
      /\ touched' = touched /\ tame' = tame /\ events' = events
  BY DEF catalog, history
<1>2. Placed(TitleScope)' = Placed(TitleScope) /\ ActiveIn(TitleScope)' = ActiveIn(TitleScope)
  BY <1>1 DEF Placed, ActiveIn
<1>3. Healthy' = Healthy
  BY <1>1, <1>2 DEF Healthy
<1> QED  BY <1>1, <1>2, <1>3 DEF Calm

(* A healthy title is within the limits, and all of it is active.          *)
LEMMA HealthyIs ==
  ASSUME TypeOK, Healthy
  PROVE  /\ ActiveIn(TitleScope) = Placed(TitleScope) /\ Placed(TitleScope) # {}
         /\ Cardinality(Placed(TitleScope)) \in Nat
         /\ Cardinality(Placed(TitleScope)) <= SearchLimit
         /\ Cardinality(Placed(TitleScope)) <= PoolLimit
         /\ \A a \in Placed(TitleScope) : Whole(db[a].rev)
<1>1. /\ Placed(TitleScope) # {} /\ Cardinality(Placed(TitleScope)) <= SearchLimit
      /\ \A a \in Placed(TitleScope) : db[a].active /\ Whole(db[a].rev)
  BY DEF Healthy
<1>2. ActiveIn(TitleScope) = Placed(TitleScope)
  BY <1>1 DEF ActiveIn
<1>3. Cardinality(Placed(TitleScope)) \in Nat
  BY FS_Subset, FS_CardinalityType, TitleAssumption DEF Placed
<1>4. Cardinality(Placed(TitleScope)) <= PoolLimit
  BY <1>1, <1>3, LimitsAre
<1> QED  BY <1>1, <1>2, <1>3, <1>4

(* The title's assets are read.                                            *)
LEMMA SelectTitleKeeps ==
  ASSUME TitleInv, task = Verify, SelectTitle, UNCHANGED catalog, UNCHANGED history
  PROVE  TitleInv'
<1>1. TypeOK /\ Holds(sem) /\ Holds(rend) /\ Course
  BY DEF TitleInv, VerifyInv
<1>2. /\ pc = "select" /\ pc' = "renditions" /\ expected' = Placed(TitleScope)
      /\ pool' = Placed(TitleScope)
      /\ faulty' = (\/ Placed(TitleScope) = {}
                    \/ \E a, b \in Placed(TitleScope) : a # b /\ ProducerId[a] = ProducerId[b])
      /\ UNCHANGED <<task, sem, rend, turn, samples, result, found>>
  BY DEF SelectTitle
<1>3. Placed(TitleScope) \subseteq Assets /\ \A a \in Placed(TitleScope) : db[a] # NoRow
  BY DEF Placed
<1>4. turn = 0 /\ \A a \in Assets : sem[a] = None /\ rend[a] = None
  BY <1>1, <1>2 DEF Course
<1>5. faulty' \in BOOLEAN
  BY <1>2
<1>6. TypeOK'
  <2>1. samples = {}
    BY <1>1, <1>2 DEF Course
  <2> QED  BY <1>1, <1>2, <1>3, <1>5, <2>1, QuietIs DEF TypeOK, Steps
<1>7. Holds(sem)' /\ Holds(rend)'
  BY <1>1, <1>2, QuietIs DEF Holds
<1>8. Course'
  BY <1>2, <1>3, <1>4, QuietIs DEF Course
<1>9. SoundSoFar'
  BY <1>2, <1>4 DEF SoundSoFar, Checked
<1>10. Ended' /\ ClientInv'
  BY <1>2 DEF Ended, ClientInv
<1>11. CalmInv'
  <2>1. ASSUME Calm PROVE ~faulty'
    BY <1>2, <2>1 DEF Calm, Healthy
  <2> QED  BY <1>2, <1>3, <1>4, <2>1, QuietIs DEF CalmInv
<1> QED  BY <1>6, <1>7, <1>8, <1>9, <1>10, <1>11 DEF TitleInv, VerifyInv

(* Its renditions are read.                                                *)
LEMMA SelectRenditionsKeeps ==
  ASSUME TitleInv, task = Verify, SelectRenditions, UNCHANGED catalog, UNCHANGED history
  PROVE  TitleInv'
<1>1. TypeOK /\ Holds(sem) /\ Holds(rend) /\ Course /\ SoundSoFar /\ CalmInv
  BY DEF TitleInv, VerifyInv
<1>2. /\ pc = "renditions" /\ pc' = "semantics" /\ rend' = Load(rend, pool)
      /\ UNCHANGED <<task, pool, sem, expected, turn, samples, faulty, result, found>>
  BY DEF SelectRenditions
<1>3. pool = expected /\ expected \in SUBSET Assets /\ (\A a \in pool : db[a] # NoRow) /\ turn = 0
  BY <1>1, <1>2 DEF Course, TypeOK
<1>4. sem \in Sessions /\ rend \in Sessions
  BY <1>1 DEF TypeOK, Sessions
<1>5. /\ rend' \in Sessions /\ Holds(rend') /\ Loaded(rend', expected)
      /\ \A a \in Assets : rend[a] # None => rend'[a] = rend[a]
      /\ \A a \in Assets : rend[a] = None /\ rend'[a] # None => rend'[a] = db[a].rev
  BY <1>1, <1>2, <1>3, <1>4, LoadIs
<1>6. TypeOK'
  BY <1>1, <1>2, <1>5, QuietIs DEF TypeOK, Steps, Sessions
<1>7. Holds(sem)' /\ Holds(rend)'
  BY <1>1, <1>2, <1>5, QuietIs DEF Holds
<1>8. Course'
  BY <1>1, <1>2, <1>3, <1>5, QuietIs DEF Course, Loaded
<1>9. SoundSoFar'
  BY <1>1, <1>2, <1>3 DEF SoundSoFar, Checked, Going
<1>10. Ended' /\ ClientInv'
  BY <1>2 DEF Ended, ClientInv
<1>11. CalmInv'
  <2>1. ASSUME Calm
        PROVE  /\ expected = Placed(TitleScope) /\ ~faulty
               /\ \A a \in expected : /\ rend'[a] # None => Whole(rend'[a])
                                      /\ sem[a] # None => Whole(sem[a])
    <3>1. /\ expected = Placed(TitleScope) /\ ~faulty
          /\ \A a \in expected : /\ rend[a] # None => Whole(rend[a])
                                 /\ sem[a] # None => Whole(sem[a])
      BY <1>1, <1>2, <2>1 DEF CalmInv
    <3>2. \A a \in expected : Whole(db[a].rev)
      BY <1>1, <2>1, <3>1, HealthyIs DEF Calm
    <3> QED  BY <1>3, <1>5, <3>1, <3>2
  <2> QED  BY <1>2, <2>1, QuietIs DEF CalmInv, Whole
<1> QED  BY <1>6, <1>7, <1>8, <1>9, <1>10, <1>11 DEF TitleInv, VerifyInv

(* Its semantics are read.                                                 *)
LEMMA SelectSemanticsKeeps ==
  ASSUME TitleInv, task = Verify, SelectSemantics, UNCHANGED catalog, UNCHANGED history
  PROVE  TitleInv'
<1>1. TypeOK /\ Holds(sem) /\ Holds(rend) /\ Course /\ SoundSoFar /\ CalmInv
  BY DEF TitleInv, VerifyInv
<1>2. /\ pc = "semantics" /\ pc' = "search" /\ sem' = Load(sem, pool)
      /\ UNCHANGED <<task, pool, rend, expected, turn, samples, faulty, result, found>>
  BY DEF SelectSemantics
<1>3. pool = expected /\ expected \in SUBSET Assets /\ (\A a \in pool : db[a] # NoRow) /\ turn = 0
  BY <1>1, <1>2 DEF Course, TypeOK
<1>4. sem \in Sessions /\ rend \in Sessions
  BY <1>1 DEF TypeOK, Sessions
<1>5. /\ sem' \in Sessions /\ Holds(sem') /\ Loaded(sem', expected)
      /\ \A a \in Assets : sem[a] # None => sem'[a] = sem[a]
      /\ \A a \in Assets : sem[a] = None /\ sem'[a] # None => sem'[a] = db[a].rev
  BY <1>1, <1>2, <1>3, <1>4, LoadIs
<1>6. TypeOK'
  BY <1>1, <1>2, <1>5, QuietIs DEF TypeOK, Steps, Sessions
<1>7. Holds(sem)' /\ Holds(rend)'
  BY <1>1, <1>2, <1>5, QuietIs DEF Holds
<1>8. Course'
  BY <1>1, <1>2, <1>3, <1>5, QuietIs DEF Course, Loaded
<1>9. SoundSoFar'
  BY <1>1, <1>2, <1>3 DEF SoundSoFar, Checked, Going
<1>10. Ended' /\ ClientInv'
  BY <1>2 DEF Ended, ClientInv
<1>11. CalmInv'
  <2>1. ASSUME Calm
        PROVE  /\ expected = Placed(TitleScope) /\ ~faulty
               /\ \A a \in expected : /\ rend[a] # None => Whole(rend[a])
                                      /\ sem'[a] # None => Whole(sem'[a])
    <3>1. /\ expected = Placed(TitleScope) /\ ~faulty
          /\ \A a \in expected : /\ rend[a] # None => Whole(rend[a])
                                 /\ sem[a] # None => Whole(sem[a])
      BY <1>1, <1>2, <2>1 DEF CalmInv
    <3>2. \A a \in expected : Whole(db[a].rev)
      BY <1>1, <2>1, <3>1, HealthyIs DEF Calm
    <3> QED  BY <1>3, <1>5, <3>1, <3>2
  <2> QED  BY <1>2, <2>1, QuietIs DEF CalmInv, Whole
<1> QED  BY <1>6, <1>7, <1>8, <1>9, <1>10, <1>11 DEF TitleInv, VerifyInv

(* One of its searches reads the pool.                                     *)
LEMMA SearchTitleKeeps ==
  ASSUME TitleInv, task = Verify, SearchTitle, UNCHANGED catalog, UNCHANGED history
  PROVE  TitleInv'
<1>1. TypeOK /\ Holds(sem) /\ Holds(rend) /\ Course /\ SoundSoFar /\ CalmInv
  BY DEF TitleInv, VerifyInv
<1>2. /\ pc = "search" /\ FetchCandidates(TitleScope, "answer")
      /\ UNCHANGED <<task, sem, rend, expected, turn, samples, faulty, found>>
  BY DEF SearchTitle
<1>3. /\ pool' = ActiveIn(TitleScope) /\ pool' \subseteq Assets
      /\ \/ /\ pc' = "done" /\ result' = "over capacity"
            /\ Cardinality(ActiveIn(TitleScope)) > PoolLimit
         \/ pc' = "answer" /\ result' = result /\ FreshPool(TitleScope)'
  BY <1>1, <1>2, FetchIs
<1>4. TypeOK'
  BY <1>1, <1>2, <1>3, QuietIs DEF TypeOK, Steps
<1>5. Holds(sem)' /\ Holds(rend)'
  BY <1>1, <1>2, QuietIs DEF Holds
<1>6. Course'
  BY <1>1, <1>2, <1>3, QuietIs DEF Course, Loaded
<1>7. SoundSoFar'
  <2>1. Sampled(expected)' = Sampled(expected)
    BY <1>2 DEF Sampled
  <2>2. CASE pc' = "done"
    BY <1>3, <2>2 DEF SoundSoFar, Going
  <2>3. CASE pc' = "answer"
    <3>1. Checked' => Checked
      BY <1>2, <2>3 DEF Checked
    <3> QED  BY <1>1, <1>2, <2>1, <2>3, <3>1, QuietIs DEF SoundSoFar, Going
  <2> QED  BY <1>3, <2>2, <2>3
<1>8. Ended' /\ ClientInv'
  <2>1. ActiveIn(TitleScope)' = ActiveIn(TitleScope)
    BY QuietIs
  <2> QED  BY <1>2, <1>3, <2>1 DEF Ended, ClientInv
<1>9. CalmInv'
  <2>1. ASSUME Calm PROVE pc' = "answer" /\ pool' = expected
    <3>1. expected = Placed(TitleScope)
      BY <1>1, <1>2, <2>1 DEF CalmInv
    <3>2. /\ ActiveIn(TitleScope) = Placed(TitleScope)
          /\ Cardinality(Placed(TitleScope)) \in Nat
          /\ Cardinality(Placed(TitleScope)) <= PoolLimit
      BY <1>1, <2>1, HealthyIs DEF Calm
    <3>3. ~ (Cardinality(ActiveIn(TitleScope)) > PoolLimit)
      BY <3>2, LimitsAre
    <3> QED  BY <1>3, <3>1, <3>2, <3>3
  <2>2. Calm' = Calm /\ Placed(TitleScope)' = Placed(TitleScope)
    BY QuietIs
  <2> QED  BY <1>1, <1>2, <2>1, <2>2 DEF CalmInv, Whole
<1> QED  BY <1>4, <1>5, <1>6, <1>7, <1>8, <1>9 DEF TitleInv, VerifyInv

(* The renditions that verification's searches require.                    *)
LEMMA RequiredAre ==
  ASSUME NEW n \in 1..5
  PROVE  /\ Required[n] \in Kinds \cup {None}
         /\ n <= 2 => Required[n] \in Kinds
         /\ n = 3 => Required[n] = None
<1>1. n = 1 \/ n = 2 \/ n = 3 \/ n = 4 \/ n = 5
  OBVIOUS
<1> QED  BY <1>1 DEF Required, Kinds

(* What the answer to one of verification's searches says: unless it is an *)
(* error, the renditions it may offer are as the response can hold them;   *)
(* it names assets of the pool only, no more than fit; and it names all of *)
(* a pool that fits and of which every asset has the rendition.            *)
LEMMA ComparedIs ==
  ASSUME NEW e, Poolable(e), NEW kind \in Kinds \cup {None}
  PROVE  LET answer == Answer(e, SearchRequest(kind))
             uids == {answer.found[i].uid : i \in DOMAIN answer.found}
             Offered(u) == DOMAIN e[u].over \cap (IF kind = None THEN Kinds ELSE {kind})
         IN  /\ answer.reason = "raised" <=>
                   \E u \in DOMAIN e : Offered(u) \cap e[u].misfit # {}
             /\ answer.reason # "raised" =>
                  /\ uids \subseteq DOMAIN e /\ Cardinality(uids) \in Nat
                  /\ Cardinality(uids) <= SearchLimit
                  /\ Cardinality(DOMAIN e) <= SearchLimit /\ (\A u \in DOMAIN e : Offered(u) # {})
                       => uids = DOMAIN e
<1> DEFINE q == SearchRequest(kind)
           answer == Answer(e, q)
           uids == {answer.found[i].uid : i \in DOMAIN answer.found}
           Offered(u) == DOMAIN e[u].over \cap (IF kind = None THEN Kinds ELSE {kind})
<1> SUFFICES /\ answer.reason = "raised" <=> \E u \in DOMAIN e : Offered(u) \cap e[u].misfit # {}
             /\ answer.reason # "raised" =>
                  /\ uids \subseteq DOMAIN e /\ Cardinality(uids) \in Nat
                  /\ Cardinality(uids) <= SearchLimit
                  /\ Cardinality(DOMAIN e) <= SearchLimit /\ (\A u \in DOMAIN e : Offered(u) # {})
                       => uids = DOMAIN e
  OBVIOUS
<1>1. Requestable(q) /\ q.limit = SearchLimit
  BY SearchRequestOffers
<1>2. \A u \in DOMAIN e : /\ Acceptable(e[u], q) = Offered(u)
                          /\ Offers(e[u], q) # {} <=> Offered(u) # {}
  BY SearchRequestOffers
<1>3. AnswerRight(answer, e, q)
  BY <1>1, AnswersAreRight
<1> HIDE DEF q, answer, Offered
<1>4. answer.reason = "raised" <=> \E u \in DOMAIN e : Offered(u) \cap e[u].misfit # {}
  <2>1. RaisedBy(e, q) <=> \E u \in DOMAIN e : Offered(u) \cap e[u].misfit # {}
    BY <1>2 DEF RaisedBy, ReadyIn
  <2> QED  BY <1>3, <2>1 DEF AnswerRight
<1>5. OfferedFrom(e, q) = {u \in DOMAIN e : Offered(u) # {}}
  BY <1>2 DEF OfferedFrom
<1>6. ASSUME answer.reason # "raised", answer.reason # None
      PROVE  uids = {} /\ \A u \in DOMAIN e : Offered(u) = {}
  <2>1. answer.found = <<>>
    BY <1>3, <1>6 DEF AnswerRight
  <2>2. OfferedFrom(e, q) = {}
    BY <1>3, <1>6 DEF AnswerRight
  <2> QED  BY <1>5, <2>1, <2>2
<1>7. ASSUME answer.reason = None
      PROVE  /\ uids \subseteq OfferedFrom(e, q) /\ Cardinality(uids) \in Nat
             /\ Cardinality(uids) <= SearchLimit
             /\ Cardinality(DOMAIN e) <= SearchLimit => OfferedFrom(e, q) \subseteq uids
  <2>1. FoundRight(answer.found, e, q)
    BY <1>3, <1>7 DEF AnswerRight
  <2>2. uids \subseteq OfferedFrom(e, q)
    BY <2>1 DEF FoundRight
  <2>3. Cardinality(DOMAIN e) <= SearchLimit => OfferedFrom(e, q) \subseteq uids
    BY <1>1, <2>1 DEF FoundRight
  <2>4. Cardinality(uids) \in Nat /\ Cardinality(uids) <= SearchLimit
    <3>1. PICK n \in Nat : n <= SearchLimit /\ DOMAIN answer.found = 1..n
      BY <1>1, <2>1 DEF FoundRight
    <3> DEFINE f == [i \in 1..n |-> answer.found[i].uid]
    <3>2. f \in Surjection(1..n, uids)
      BY <3>1, Fun_IsSurj
    <3> HIDE DEF f
    <3>3. IsFiniteSet(1..n) /\ Cardinality(1..n) = n
      BY FS_Interval
    <3>4. IsFiniteSet(uids) /\ Cardinality(uids) <= n
      BY <3>2, <3>3, FS_Surjection
    <3> HIDE DEF uids
    <3>5. Cardinality(uids) \in Nat
      BY <3>4, FS_CardinalityType
    <3> QED  BY <3>1, <3>4, <3>5, LimitsAre
  <2> QED  BY <2>2, <2>3, <2>4
<1>8. ASSUME answer.reason # "raised"
      PROVE  /\ uids \subseteq DOMAIN e /\ Cardinality(uids) \in Nat
             /\ Cardinality(uids) <= SearchLimit
             /\ Cardinality(DOMAIN e) <= SearchLimit /\ (\A u \in DOMAIN e : Offered(u) # {})
                  => uids = DOMAIN e
  <2> HIDE DEF uids
  <2>1. CASE answer.reason = None
    BY <1>5, <1>7, <2>1
  <2>2. CASE answer.reason # None
    BY <1>6, <1>8, <2>2, FS_EmptySet, LimitsAre
  <2> QED  BY <2>1, <2>2
<1> QED  BY <1>4, <1>8

(* A search of verification is compared with the title's assets.           *)
LEMMA CompareAnswerKeeps ==
  ASSUME TitleInv, task = Verify, CompareAnswer, UNCHANGED catalog, UNCHANGED history
  PROVE  TitleInv'
<1> DEFINE kind == Required[turn']
           e == Evidence(sem', rend')
           answer == Answer(e, SearchRequest(kind))
           uids == {answer.found[i].uid : i \in DOMAIN answer.found}
           Offered(u) == DOMAIN e[u].over \cap (IF kind = None THEN Kinds ELSE {kind})
<1>1. TypeOK /\ Holds(sem) /\ Holds(rend) /\ Course /\ SoundSoFar /\ CalmInv
  BY DEF TitleInv, VerifyInv
<1>2. /\ pc = "answer" /\ sem' = Load(sem, pool) /\ rend' = Load(rend, pool) /\ turn' = turn + 1
      /\ UNCHANGED <<task, pool, expected, samples, found>>
  BY DEF CompareAnswer
<1>3. \/ answer.reason = "raised" /\ pc' = "done" /\ result' = "raised" /\ faulty' = faulty
      \/ /\ answer.reason # "raised" /\ result' = result
         /\ pc' = CASE turn' = 2 -> "rows" [] turn' = 5 -> "staging" [] OTHER -> "search"
         /\ faulty' = (faulty \/ (turn' <= 2 /\ uids # expected))
  BY DEF CompareAnswer
<1>4. /\ FreshPool(TitleScope) /\ Loaded(rend, expected) /\ Loaded(sem, expected)
      /\ pool \in SUBSET Assets /\ expected \in SUBSET Assets
      /\ sem \in Sessions /\ rend \in Sessions
      /\ turn \in 0..4 /\ turn' \in 1..5
      /\ \A a \in pool : db[a] # NoRow
  BY <1>1, <1>2 DEF Course, TypeOK, Sessions, FreshPool
<1>5. /\ rend' \in Sessions /\ Holds(rend') /\ Loaded(rend', pool)
      /\ \A a \in Assets : rend[a] # None => rend'[a] = rend[a]
      /\ \A a \in Assets : rend[a] = None /\ rend'[a] # None => rend'[a] = db[a].rev
  BY <1>1, <1>2, <1>4, LoadIs
<1>6. /\ sem' \in Sessions /\ Holds(sem') /\ Loaded(sem', pool)
      /\ \A a \in Assets : sem[a] # None => sem'[a] = sem[a]
      /\ \A a \in Assets : sem[a] = None /\ sem'[a] # None => sem'[a] = db[a].rev
  BY <1>1, <1>2, <1>4, LoadIs
<1>7. \A a \in expected : rend'[a] = rend[a] /\ sem'[a] = sem[a]
                          /\ rend'[a] # None /\ sem'[a] # None
  BY <1>4, <1>5, <1>6 DEF Loaded
<1>8. /\ Poolable(e) /\ DOMAIN e = pool
      /\ \A a \in pool : /\ rend'[a] \in Revisions /\ e[a].over = RevisionOf[rend'[a]].over
                         /\ e[a].misfit = RevisionOf[rend'[a]].misfit
  BY <1>4, <1>5, <1>6, EvidenceIs
<1>9. kind \in Kinds \cup {None} /\ (turn' <= 2 => kind \in Kinds) /\ (turn' = 3 => kind = None)
  BY <1>4, RequiredAre
<1> HIDE DEF kind, e
<1>10. /\ answer.reason = "raised" <=> \E u \in pool : Offered(u) \cap e[u].misfit # {}
       /\ answer.reason # "raised" =>
            /\ uids \subseteq pool /\ Cardinality(uids) \in Nat /\ Cardinality(uids) <= SearchLimit
            /\ Cardinality(pool) <= SearchLimit /\ (\A u \in pool : Offered(u) # {}) => uids = pool
  BY <1>8, <1>9, ComparedIs
<1> HIDE DEF answer, uids, Offered
<1>11. pc' \in {"rows", "staging", "search", "done"} /\ faulty' \in BOOLEAN
       /\ (faulty => faulty')
  BY <1>1, <1>3 DEF TypeOK
<1>12. TypeOK'
  BY <1>1, <1>2, <1>4, <1>5, <1>6, <1>11, QuietIs DEF TypeOK, Steps, Sessions
<1>13. Holds(sem)' /\ Holds(rend)'
  BY <1>1, <1>2, <1>5, <1>6, QuietIs DEF Holds
<1>14. Course'
  BY <1>1, <1>2, <1>3, <1>4, <1>7, QuietIs DEF Course, Loaded
<1>15. \A a \in Assets \ touched : a \in pool <=> a \in ActiveIn(TitleScope)
  BY <1>4 DEF FreshPool
<1>16. SoundSoFar'
  <2>1. CASE answer.reason = "raised"
    BY <1>3, <2>1 DEF SoundSoFar, Going
  <2>2. CASE answer.reason # "raised" /\ faulty'
    BY <2>2 DEF SoundSoFar
  <2>3. CASE answer.reason # "raised" /\ ~faulty'
    <3>1. /\ pc' = CASE turn' = 2 -> "rows" [] turn' = 5 -> "staging" [] OTHER -> "search"
          /\ ~faulty /\ (turn' <= 2 => uids = expected)
      BY <1>3, <2>3
    <3>2. /\ expected # {} /\ \A a, b \in expected : ProducerId[a] = ProducerId[b] => a = b
          /\ turn >= 1 => /\ Cardinality(expected) <= SearchLimit
                          /\ \A a \in expected \ touched : db[a].active
          /\ Checked => \A a \in expected : /\ DOMAIN RevisionOf[rend[a]].over = Kinds
                                            /\ RevisionOf[rend[a]].sound /\ RevisionOf[sem[a]].sound
          /\ Checked => \A a \in Sampled(expected) \ touched :
                          (a \in samples /\ pc = "sample") \/ <<a, rend[a]>> \notin damaged
          /\ turn >= 3 => \A a \in expected \ touched : RevisionOf[rend[a]].misfit = {}
      BY <1>1, <1>2, <3>1 DEF SoundSoFar, Going
    <3>3. /\ Cardinality(expected) <= SearchLimit
          /\ \A a \in expected \ touched : db[a].active
      <4>1. CASE turn >= 1
        BY <3>2, <4>1
      <4>2. CASE turn = 0
        <5>1. uids = expected
          BY <1>2, <3>1, <4>2
        <5>2. \A a \in expected \ touched : a \in ActiveIn(TitleScope)
          BY <1>4, <1>10, <1>15, <2>3, <5>1
        <5> QED  BY <1>10, <2>3, <5>1, <5>2 DEF ActiveIn
      <4> QED  BY <1>4, <4>1, <4>2
    <3>4. Checked' => Checked
      BY <1>2, <1>4, <3>1 DEF Checked
    <3>5. ASSUME turn' >= 3, NEW a \in expected \ touched
          PROVE  RevisionOf[rend'[a]].misfit = {}
      <4>1. CASE turn >= 3
        BY <1>7, <3>2, <4>1
      <4>2. CASE turn = 2
        <5>1. kind = None
          BY <1>2, <1>9, <4>2
        <5>2. a \in Placed(TitleScope)
          BY <1>1, <1>2, <1>4 DEF Course
        <5>3. a \in pool
          BY <1>4, <1>15, <3>3, <5>2 DEF ActiveIn
        <5>4. Offered(a) = DOMAIN e[a].over \cap Kinds
          BY <5>1 DEF Offered
        <5>5. DOMAIN e[a].over \subseteq Kinds
          BY <1>8, <5>3 DEF Poolable, Shaped
        <5>6. e[a].misfit \subseteq DOMAIN e[a].over
          BY <1>8, <5>3, TitleAssumption
        <5>7. Offered(a) \cap e[a].misfit = {}
          BY <1>10, <2>3, <5>3
        <5> QED  BY <1>8, <5>3, <5>4, <5>5, <5>6, <5>7
      <4> QED  BY <1>2, <1>4, <3>5, <4>1, <4>2
    <3>6. Sampled(expected)' = Sampled(expected) /\ Sampled(expected) \subseteq expected
      BY <1>2 DEF Sampled
    <3>7. pc = "answer" /\ pc' # "sample"
      BY <1>2, <3>1
    <3> QED  BY <1>2, <1>7, <3>2, <3>3, <3>4, <3>5, <3>6, <3>7, QuietIs DEF SoundSoFar
  <2> QED  BY <2>1, <2>2, <2>3
<1>17. Ended' /\ ClientInv'
  <2>1. ASSUME touched = {}, answer.reason = "raised"
        PROVE  \E a \in Placed(TitleScope) : RevisionOf[db[a].rev].misfit # {}
    <3>1. PICK u \in pool : e[u].misfit # {}
      BY <1>10, <2>1
    <3>2. u \in Placed(TitleScope)
      BY <1>4, <1>15, <2>1, <3>1 DEF ActiveIn
    <3>3. rend'[u] = db[u].rev
      BY <1>4, <1>5, <2>1, <3>1 DEF Holds, Loaded
    <3> QED  BY <1>8, <3>1, <3>2, <3>3
  <2>2. Placed(TitleScope)' = Placed(TitleScope) /\ db' = db /\ touched' = touched
    BY QuietIs
  <2>3. Ended'
    BY <1>3, <1>11, <2>1, <2>2 DEF Ended, RowsOf
  <2> QED  BY <1>2, <2>3 DEF ClientInv
<1>18. CalmInv'
  <2>1. ASSUME Calm
        PROVE  /\ expected = Placed(TitleScope) /\ ~faulty' /\ pc' # "done" /\ pc' # "answer"
               /\ \A a \in expected : Whole(rend'[a]) /\ Whole(sem'[a])
    <3>1. /\ expected = Placed(TitleScope) /\ pool = expected /\ ~faulty
          /\ \A a \in expected : /\ rend[a] # None => Whole(rend[a])
                                 /\ sem[a] # None => Whole(sem[a])
      BY <1>1, <1>2, <2>1 DEF CalmInv
    <3>2. \A a \in expected : Whole(rend'[a]) /\ Whole(sem'[a])
      BY <1>7, <3>1
    <3>3. \A u \in pool : e[u].misfit = {} /\ DOMAIN e[u].over = Kinds
      BY <1>8, <3>1, <3>2 DEF Whole
    <3>4. answer.reason # "raised"
      BY <1>10, <3>3
    <3>5. turn' <= 2 => \A u \in pool : Offered(u) # {}
      BY <1>9, <3>3 DEF Offered
    <3>6. turn' <= 2 => uids = expected
      BY <1>1, <1>10, <2>1, <3>1, <3>4, <3>5, HealthyIs DEF Calm
    <3>7. ~faulty'
      BY <1>3, <3>1, <3>4, <3>6
    <3>8. pc' # "done" /\ pc' # "answer"
      BY <1>3, <3>4
    <3> QED  BY <3>1, <3>2, <3>7, <3>8
  <2>2. Calm' = Calm /\ Placed(TitleScope)' = Placed(TitleScope)
    BY QuietIs
  <2> QED  BY <1>2, <2>1, <2>2 DEF CalmInv, Whole
<1> QED  BY <1>12, <1>13, <1>14, <1>16, <1>17, <1>18 DEF TitleInv, VerifyInv

(* The rows that the session holds are checked.                            *)
LEMMA CheckRowsKeeps ==
  ASSUME TitleInv, task = Verify, CheckRows, UNCHANGED catalog, UNCHANGED history
  PROVE  TitleInv'
<1> DEFINE Missed(a) == \/ DOMAIN RevisionOf[rend[a]].over # Kinds
                        \/ ~RevisionOf[rend[a]].sound \/ ~RevisionOf[sem[a]].sound
<1>1. TypeOK /\ Holds(sem) /\ Holds(rend) /\ Course /\ SoundSoFar /\ CalmInv
  BY DEF TitleInv, VerifyInv
<1>2. /\ pc = "rows" /\ pc' = "sample" /\ samples' = Sampled(expected)
      /\ faulty' = (faulty \/ \E a \in expected : Missed(a))
      /\ UNCHANGED <<task, pool, sem, rend, expected, turn, result, found>>
  BY DEF CheckRows
<1>3. turn = 2 /\ Loaded(rend, expected) /\ Loaded(sem, expected) /\ Sampled(expected) \subseteq expected
  BY <1>1, <1>2 DEF Course, Sampled
<1>4. faulty' \in BOOLEAN /\ (faulty => faulty')
  BY <1>1, <1>2 DEF TypeOK
<1>5. TypeOK'
  BY <1>1, <1>2, <1>3, <1>4, QuietIs DEF TypeOK, Steps
<1>6. Holds(sem)' /\ Holds(rend)'
  BY <1>1, <1>2, QuietIs DEF Holds
<1>7. Sampled(expected)' = Sampled(expected)
  BY <1>2 DEF Sampled
<1>8. Course'
  BY <1>1, <1>2, <1>3, <1>7, QuietIs DEF Course, Loaded
<1>9. SoundSoFar'
  <2>1. CASE faulty'
    BY <2>1 DEF SoundSoFar
  <2>2. CASE ~faulty'
    BY <1>1, <1>2, <1>3, <1>7, <2>2, QuietIs DEF SoundSoFar, Going
  <2> QED  BY <2>1, <2>2
<1>10. Ended' /\ ClientInv'
  BY <1>2 DEF Ended, ClientInv
<1>11. CalmInv'
  <2>1. ASSUME Calm
        PROVE  /\ expected = Placed(TitleScope) /\ ~faulty'
               /\ \A a \in expected : Whole(rend[a]) /\ Whole(sem[a])
    <3>1. /\ expected = Placed(TitleScope) /\ ~faulty
          /\ \A a \in expected : Whole(rend[a]) /\ Whole(sem[a])
      BY <1>1, <1>2, <1>3, <2>1 DEF CalmInv, Loaded
    <3>2. \A a \in expected : ~Missed(a)
      BY <3>1 DEF Whole
    <3> QED  BY <1>2, <3>1, <3>2
  <2> QED  BY <1>2, <2>1, QuietIs DEF CalmInv, Whole
<1> QED  BY <1>5, <1>6, <1>8, <1>9, <1>10, <1>11 DEF TitleInv, VerifyInv

(* A sampled asset's objects are read.                                     *)
LEMMA SampleObjectsKeeps ==
  ASSUME TitleInv, task = Verify, SampleObjects, UNCHANGED catalog, UNCHANGED history
  PROVE  TitleInv'
<1>1. TypeOK /\ Holds(sem) /\ Holds(rend) /\ Course /\ SoundSoFar /\ CalmInv
  BY DEF TitleInv, VerifyInv
<1>2. /\ pc = "sample" /\ UNCHANGED <<task, pool, sem, rend, expected, turn, result, found>>
  BY DEF SampleObjects
<1>3. \/ samples = {} /\ pc' = "search" /\ samples' = samples /\ faulty' = faulty
      \/ \E a \in samples : /\ samples' = samples \ {a} /\ pc' = pc
                            /\ faulty' = (faulty \/ ~Intact(a))
  BY DEF SampleObjects
<1>4. turn = 2 /\ Loaded(rend, expected) /\ samples \subseteq Sampled(expected) /\ expected \subseteq Assets
      /\ Sampled(expected) \subseteq expected
  BY <1>1, <1>2 DEF Course, TypeOK, Sampled
<1>5. /\ pc' \in {"search", "sample"} /\ samples' \subseteq samples
      /\ faulty' \in BOOLEAN /\ (faulty => faulty')
  BY <1>1, <1>2, <1>3 DEF TypeOK
<1>6. TypeOK'
  BY <1>1, <1>2, <1>4, <1>5, QuietIs DEF TypeOK, Steps
<1>7. Holds(sem)' /\ Holds(rend)'
  BY <1>1, <1>2, QuietIs DEF Holds
<1>8. Sampled(expected)' = Sampled(expected)
  BY <1>2 DEF Sampled
<1>9. Course'
  BY <1>1, <1>2, <1>4, <1>5, <1>8, QuietIs DEF Course, Loaded
<1>10. SoundSoFar'
  <2>1. CASE faulty'
    BY <2>1 DEF SoundSoFar
  <2>2. CASE ~faulty'
    <3>1. /\ ~faulty /\ Going /\ Checked
      BY <1>2, <1>5, <2>2 DEF Going, Checked
    <3>2. ASSUME NEW a \in Sampled(expected) \ touched
          PROVE  (a \in samples' /\ pc' = "sample") \/ <<a, rend[a]>> \notin damaged
      <4>1. a \in samples \/ <<a, rend[a]>> \notin damaged
        BY <1>1, <3>1, <3>2 DEF SoundSoFar
      <4>2. a \in samples => (a \in samples' /\ pc' = "sample") \/ Intact(a)
        BY <1>2, <1>3, <2>2
      <4> QED  BY <4>1, <4>2 DEF Intact
    <3> QED  BY <1>1, <1>2, <1>4, <1>5, <1>8, <3>1, <3>2, QuietIs DEF SoundSoFar
  <2> QED  BY <2>1, <2>2
<1>11. Ended' /\ ClientInv'
  BY <1>2, <1>5 DEF Ended, ClientInv
<1>12. CalmInv'
  <2>1. ASSUME Calm
        PROVE  expected = Placed(TitleScope) /\ ~faulty'
    <3>1. expected = Placed(TitleScope) /\ ~faulty
      BY <1>1, <1>2, <2>1 DEF CalmInv
    <3>2. ASSUME NEW a \in samples PROVE Intact(a)
      <4>1. CASE damaged = {}
        BY <4>1 DEF Intact
      <4>2. CASE touched = {}
        <5>1. rend[a] = db[a].rev
          BY <1>1, <1>4, <4>2 DEF Holds, Loaded
        <5>2. a \in Sampled(Placed(TitleScope))
          BY <1>4, <3>1
        <5> QED  BY <2>1, <5>1, <5>2 DEF Intact, Calm, Healthy
      <4> QED  BY <2>1, <4>1, <4>2 DEF Calm
    <3>3. ~faulty'
      <4>1. CASE faulty' = faulty
        BY <3>1, <4>1
      <4>2. CASE \E a \in samples : faulty' = (faulty \/ ~Intact(a))
        BY <3>1, <3>2, <4>2
      <4> QED  BY <1>3, <4>1, <4>2
    <3> QED  BY <3>1, <3>3
  <2>2. Calm' = Calm /\ Placed(TitleScope)' = Placed(TitleScope)
    BY QuietIs
  <2> QED  BY <1>1, <1>2, <1>5, <2>1, <2>2 DEF CalmInv, Whole
<1> QED  BY <1>6, <1>7, <1>9, <1>10, <1>11, <1>12 DEF TitleInv, VerifyInv

(* The staging area is listed, or cannot be, and the verdict is given.     *)
LEMMA CheckStagingKeeps ==
  ASSUME TitleInv, CheckStaging, UNCHANGED catalog
  PROVE  TitleInv'
<1>1. TypeOK /\ Holds(sem) /\ Holds(rend) /\ ClientInv /\ VerifyInv /\ CalmInv
  BY DEF TitleInv
<1>2. /\ pc = "staging" /\ pc' = "done"
      /\ UNCHANGED <<task, pool, sem, rend, expected, turn, samples, faulty, found>>
      /\ db' = db /\ damaged' = damaged /\ staged' = staged
  BY DEF CheckStaging, catalog
<1>3. \/ /\ result' = (IF faulty \/ staged THEN "FAILED" ELSE "PASS")
         /\ touched' = touched /\ tame' = tame /\ events' = events
      \/ /\ events > 0 /\ events' = events - 1 /\ tame' = FALSE /\ touched' = touched
         /\ result' = "FAILED"
  BY DEF CheckStaging, history
<1>4. task = Verify /\ Course /\ SoundSoFar /\ turn = 5
  <2>1. task = Verify
    BY <1>1, <1>2 DEF ClientInv
  <2> QED  BY <1>1, <1>2, <2>1 DEF VerifyInv, Course
<1>5. /\ touched' = touched /\ tame' \in BOOLEAN /\ events' \in Nat
      /\ result' \in {"FAILED", "PASS"} /\ (result' = "PASS" => ~faulty /\ ~staged)
      /\ tame' => tame /\ (faulty \/ staged \/ result' = "PASS")
  <2>1. tame \in BOOLEAN /\ events \in Nat
    BY <1>1 DEF TypeOK
  <2>2. CASE /\ result' = (IF faulty \/ staged THEN "FAILED" ELSE "PASS")
             /\ touched' = touched /\ tame' = tame /\ events' = events
    BY <2>1, <2>2
  <2>3. CASE /\ events > 0 /\ events' = events - 1 /\ tame' = FALSE /\ touched' = touched
             /\ result' = "FAILED"
    <3>1. events' \in Nat
      BY <2>1, <2>3
    <3>2. ~tame' /\ tame' \in BOOLEAN
      BY <2>3
    <3> QED  BY <2>3, <3>1, <3>2
  <2> QED  BY <1>3, <2>2, <2>3
<1>6. TypeOK'
  BY <1>1, <1>2, <1>5 DEF TypeOK, Steps
<1>7. Holds(sem)' /\ Holds(rend)'
  BY <1>1, <1>2, <1>5 DEF Holds
<1>8. Placed(TitleScope)' = Placed(TitleScope) /\ Sampled(expected)' = Sampled(expected)
      /\ Healthy' = Healthy
  BY <1>2 DEF Placed, Sampled, Healthy
<1>9. Course'
  BY <1>2, <1>4, <1>5, <1>8 DEF Course, Loaded
<1>10. SoundSoFar'
  <2>1. Going /\ Checked
    BY <1>2 DEF Going, Checked
  <2> QED  BY <1>2, <1>4, <1>5, <1>8, <2>1 DEF SoundSoFar
<1>11. Ended' /\ ClientInv'
  BY <1>2, <1>4, <1>5 DEF Ended, ClientInv
<1>12. CalmInv'
  <2>1. ASSUME Calm' PROVE Calm /\ ~staged
    BY <1>2, <1>5, <1>8, <2>1 DEF Calm, Healthy
  <2> QED  BY <1>1, <1>2, <1>4, <1>5, <1>8, <2>1 DEF CalmInv, Whole, Calm
<1> QED  BY <1>6, <1>7, <1>9, <1>10, <1>11, <1>12 DEF TitleInv, VerifyInv

(* Every step keeps the invariant.                                         *)
LEMMA NextKeeps ==
  ASSUME TitleInv, [Next]_vars
  PROVE  TitleInv'
<1>1. ASSUME Read, UNCHANGED catalog, UNCHANGED history PROVE TitleInv'
  <2>1. CASE task # Verify
    BY <1>1, <2>1, ClientReads
  <2>2. CASE task = Verify
    <3>1. pc # "rank"
      BY <2>2 DEF TitleInv, VerifyInv, Course
    <3>2. \/ SelectTitle \/ SelectSemantics \/ SelectRenditions \/ SearchTitle
          \/ CompareAnswer \/ CheckRows \/ SampleObjects
      BY <1>1, <2>2, <3>1 DEF Read, SelectCandidates, RankCandidates
    <3> QED  BY <1>1, <2>2, <3>2, SelectTitleKeeps, SelectSemanticsKeeps, SelectRenditionsKeeps,
                SearchTitleKeeps, CompareAnswerKeeps, CheckRowsKeeps, SampleObjectsKeeps
  <2> QED  BY <2>1, <2>2
<1>2. CASE CheckStaging /\ UNCHANGED catalog
  BY <1>2, CheckStagingKeeps
<1>3. CASE \/ \E a \in Assets : Deactivate(a) \/ DamageObjects(a)
           \/ \E a \in Assets, r \in Revisions : CatalogRevision(a, r)
           \/ ChangeStaging
  BY <1>3, MeanwhileElsewhere, ElsewhereKeeps
<1>4. CASE UNCHANGED vars
  <2>2. TypeOK' /\ Holds(sem)' /\ Holds(rend)'
    BY <1>4 DEF vars, TitleInv, TypeOK, Holds
  <2>3. ClientInv'
    <3>1. /\ task' = task /\ pc' = pc /\ result' = result /\ found' = found /\ touched' = touched
          /\ FreshPool(task.scope)' = FreshPool(task.scope)
          /\ ActiveIn(task.scope)' = ActiveIn(task.scope)
          /\ Loaded(sem, pool)' = Loaded(sem, pool) /\ Loaded(rend, pool)' = Loaded(rend, pool)
          /\ Evidence(sem, rend)' = Evidence(sem, rend)
      BY <1>4 DEF vars, FreshPool, Loaded, Evidence, ActiveIn, Placed
    <3> QED  BY <3>1 DEF TitleInv, ClientInv
  <2>4. VerifyInv'
    BY <1>4 DEF vars, TitleInv, VerifyInv, Course, SoundSoFar, Ended, FreshPool, Loaded, ActiveIn,
                Placed, Sampled, Going, Checked, RowsOf
  <2>5. CalmInv'
    BY <1>4 DEF vars, TitleInv, CalmInv, Calm, Healthy, Placed, Sampled
  <2> QED  BY <2>2, <2>3, <2>4, <2>5 DEF TitleInv
<1> QED  BY <1>1, <1>2, <1>3, <1>4 DEF Next

----------------------------------------------------------------------------------
(* The inductive invariant holds of every behaviour.                       *)
THEOREM TitleInductive == Spec => []TitleInv
<1>1. Init => TitleInv
  BY InitInv
<1>2. TitleInv /\ [Next]_vars => TitleInv'
  BY NextKeeps
<1> QED  BY <1>1, <1>2, PTL DEF Spec

(* What a client's finished search holds of an asset that is left alone.   *)
LEMMA SeenAsStored ==
  ASSUME TitleInv, Searched, result # "over capacity", NEW a \in Assets \ touched
  PROVE  /\ a \in pool <=> a \in ActiveIn(task.scope)
         /\ a \in pool =>
              LET e == Evidence(sem, rend)[a]
              IN  /\ e.over = RowsOf(a).over /\ e.misfit = RowsOf(a).misfit
                  /\ Acceptable(e, task) = Acceptable(RowsOf(a), task)
                  /\ Eligible(e, task) = Eligible(RowsOf(a), task)
                  /\ Confident(e, task) = Confident(RowsOf(a), task)
                  /\ Offers(e, task) = Offers(RowsOf(a), task)
<1>1. TypeOK /\ Holds(sem) /\ Holds(rend) /\ ClientInv /\ task # Verify /\ pc = "done"
  BY DEF TitleInv, Searched
<1>2. FreshPool(task.scope) /\ Loaded(sem, pool) /\ Loaded(rend, pool)
  BY <1>1 DEF ClientInv
<1>3. sem \in Sessions /\ rend \in Sessions /\ pool \subseteq Assets
  BY <1>1 DEF TypeOK, Sessions
<1>4. a \in pool <=> a \in ActiveIn(task.scope)
  BY <1>2 DEF FreshPool
<1> DEFINE e == Evidence(sem, rend)[a]
<1>5. ASSUME a \in pool
      PROVE  e.base = RowsOf(a).base /\ e.over = RowsOf(a).over /\ e.misfit = RowsOf(a).misfit
  <2>1. sem[a] = db[a].rev /\ rend[a] = db[a].rev
    BY <1>1, <1>2, <1>5 DEF Holds, Loaded
  <2>2. /\ e.base = RevisionOf[sem[a]].base /\ e.over = RevisionOf[rend[a]].over
        /\ e.misfit = RevisionOf[rend[a]].misfit
    BY <1>2, <1>3, <1>5, EvidenceIs
  <2> QED  BY <2>1, <2>2 DEF RowsOf
<1> HIDE DEF e
<1>6. ASSUME a \in pool
      PROVE  /\ Acceptable(e, task) = Acceptable(RowsOf(a), task)
             /\ Eligible(e, task) = Eligible(RowsOf(a), task)
             /\ Confident(e, task) = Confident(RowsOf(a), task)
             /\ Offers(e, task) = Offers(RowsOf(a), task)
  BY <1>5, <1>6, SameMeaning
<1> QED  BY <1>4, <1>5, <1>6 DEF e

(* A search answers, or fails, as its evidence says.                       *)
LEMMA AnsweredRight ==
  ASSUME TitleInv, Searched, result # "over capacity"
  PROVE  /\ DOMAIN Evidence(sem, rend) = pool /\ pool \subseteq Assets
         /\ AnswerRight([found |-> found, reason |-> result], Evidence(sem, rend), task)
         /\ IsFiniteSet(pool) /\ Cardinality(pool) <= PoolLimit
<1>1. TypeOK /\ ClientInv /\ task # Verify /\ pc = "done"
  BY DEF TitleInv, Searched
<1>2. /\ Loaded(sem, pool) /\ Loaded(rend, pool) /\ FreshPool(task.scope)
      /\ AnswerRight([found |-> found, reason |-> result], Evidence(sem, rend), task)
  BY <1>1 DEF ClientInv
<1>3. sem \in Sessions /\ rend \in Sessions /\ pool \subseteq Assets
  BY <1>1 DEF TypeOK, Sessions
<1>4. DOMAIN Evidence(sem, rend) = pool
  BY DEF Evidence
<1>5. IsFiniteSet(pool)
  BY <1>3, FS_Subset, TitleAssumption
<1> QED  BY <1>2, <1>3, <1>4, <1>5 DEF FreshPool

(* A search is exact about every asset that no commit touches: it is       *)
(* offered only where its evidence allows, once, in a confident rendition  *)
(* if it has one, and it is offered if it can be and the answer has room.  *)
THEOREM SearchIsExact == Spec => []AnswerIsExact
<1>1. ASSUME TitleInv PROVE AnswerIsExact
  <2> SUFFICES ASSUME Answered, Worded(task), NEW a \in Assets \ touched
               PROVE  LET at == {i \in DOMAIN found : found[i].uid = a}
                          offers == IF a \in ActiveIn(task.scope) THEN Offers(RowsOf(a), task) ELSE {}
                      IN  /\ Cardinality(at) <= 1
                          /\ \A i \in at : /\ found[i].kind \in offers
                                          /\ found[i].high <=> Confident(RowsOf(a), task) # {}
                          /\ offers # {} /\ Len(found) < task.limit => at # {}
    BY DEF AnswerIsExact
  <2> DEFINE at == {i \in DOMAIN found : found[i].uid = a}
             offers == IF a \in ActiveIn(task.scope) THEN Offers(RowsOf(a), task) ELSE {}
             e == Evidence(sem, rend)
  <2>1. Searched /\ result # "over capacity" /\ result # "raised"
    BY DEF Answered
  <2>2. /\ DOMAIN e = pool
        /\ AnswerRight([found |-> found, reason |-> result], e, task)
    BY <1>1, <2>1, AnsweredRight
  <2>3. /\ a \in pool <=> a \in ActiveIn(task.scope)
        /\ a \in pool => /\ Confident(e[a], task) = Confident(RowsOf(a), task)
                         /\ Offers(e[a], task) = Offers(RowsOf(a), task)
    BY <1>1, <2>1, SeenAsStored
  <2>4. offers # {} => a \in OfferedFrom(e, task)
    BY <2>2, <2>3 DEF OfferedFrom
  <2>5. /\ result = "raised" <=> RaisedBy(e, task)
        /\ result = None <=> ~RaisedBy(e, task) /\ OfferedFrom(e, task) # {}
        /\ result # None => found = <<>>
        /\ result = None => FoundRight(found, e, task)
    BY <2>2 DEF AnswerRight
  <2> HIDE DEF offers, e
  <2>6. CASE result # None
    <3>1. found = <<>> /\ OfferedFrom(e, task) = {}
      BY <2>1, <2>5, <2>6
    <3>2. at = {}
      BY <3>1
    <3>3. offers = {}
      BY <2>4, <3>1
    <3>4. Cardinality(at) = 0
      BY <3>2, FS_EmptySet
    <3> QED  BY <3>2, <3>3, <3>4 DEF offers
  <2>7. CASE result = None
    <3>1. FoundRight(found, e, task)
      BY <2>5, <2>7
    <3>2. Cardinality(at) <= 1
      <4>1. CASE at = {}
        BY <4>1, FS_EmptySet
      <4>2. CASE at # {}
        <5>1. PICK i : i \in at
          BY <4>2
        <5>2. at = {i}
          BY <3>1, <5>1 DEF FoundRight
        <5>3. Cardinality({i}) = 1
          BY FS_Singleton
        <5> QED  BY <5>2, <5>3
      <4> QED  BY <4>1, <4>2
    <3>3. ASSUME NEW i \in at
          PROVE  found[i].kind \in offers /\ (found[i].high <=> Confident(RowsOf(a), task) # {})
      <4>1. /\ found[i].uid = a /\ a \in OfferedFrom(e, task)
            /\ found[i].kind \in Offers(e[a], task)
            /\ found[i].high <=> Confident(e[a], task) # {}
        BY <3>1, <3>3 DEF FoundRight
      <4>2. a \in pool
        BY <2>2, <4>1 DEF OfferedFrom, e
      <4> QED  BY <2>3, <4>1, <4>2 DEF offers
    <3>4. offers # {} /\ Len(found) < task.limit => at # {}
      BY <2>4, <3>1 DEF FoundRight
    <3> QED  BY <3>2, <3>3, <3>4 DEF offers
  <2> QED  BY <2>6, <2>7
<1> QED  BY <1>1, TitleInductive, PTL

(* A search that nothing touches gives the reason for having nothing to    *)
(* offer that applies, refuses a scope exactly beyond the pool limit, and  *)
(* fails exactly when an acceptable rendition cannot be reported.          *)
THEOREM ScarcityHonest == Spec => []ScarcityIsHonest
<1>1. ASSUME TitleInv PROVE ScarcityIsHonest
  <2> DEFINE scope == ActiveIn(task.scope)
             ready == {a \in scope : Acceptable(RowsOf(a), task) # {}}
             fits == \A a \in ready : RowsOf(a).misfit \cap Acceptable(RowsOf(a), task) = {}
             e == Evidence(sem, rend)
  <2> SUFFICES ASSUME Searched, touched = {}
               PROVE  /\ result = "over capacity" <=> Cardinality(scope) > PoolLimit
                      /\ result # "over capacity" =>
                           /\ (found = <<>>) <=> (result # None)
                           /\ result = "raised" <=> ~fits
                           /\ result = "no_candidates_in_scope" <=> scope = {}
                           /\ result = "no_acceptable_rendition" <=> scope # {} /\ ready = {}
                           /\ result = "no_requirement_match" /\ Worded(task) =>
                                \A a \in ready : Eligible(RowsOf(a), task) = {}
                           /\ result = "no_high_confidence_match" /\ Worded(task) =>
                                /\ \E a \in ready : Eligible(RowsOf(a), task) # {}
                                /\ \A a \in ready : Confident(RowsOf(a), task) = {}
    BY DEF ScarcityIsHonest
  <2>1. scope \subseteq Assets
    BY DEF ActiveIn, Placed
  <2>2. ASSUME result = "over capacity" PROVE Cardinality(scope) > PoolLimit
    BY <1>1, <2>2 DEF TitleInv, ClientInv, Searched
  <2>3. CASE result = "over capacity"
    BY <2>2, <2>3
  <2>4. CASE result # "over capacity"
    <3>1. /\ DOMAIN e = pool /\ pool \subseteq Assets
          /\ AnswerRight([found |-> found, reason |-> result], e, task)
          /\ IsFiniteSet(pool) /\ Cardinality(pool) <= PoolLimit
      BY <1>1, <2>4, AnsweredRight
    <3>2. \A a \in Assets : a \in pool <=> a \in scope
      BY <1>1, <2>4, SeenAsStored
    <3>3. pool = scope
      BY <2>1, <3>1, <3>2
    <3>4. \A a \in pool : /\ e[a].misfit = RowsOf(a).misfit
                         /\ Acceptable(e[a], task) = Acceptable(RowsOf(a), task)
                         /\ Eligible(e[a], task) = Eligible(RowsOf(a), task)
                         /\ Confident(e[a], task) = Confident(RowsOf(a), task)
      BY <1>1, <2>4, <3>1, SeenAsStored
    <3> HIDE DEF e, scope
    <3>5. ready = ReadyIn(e, task)
      BY <3>1, <3>3, <3>4 DEF ReadyIn
    <3>6. ~fits <=> RaisedBy(e, task)
      BY <3>1, <3>3, <3>4 DEF RaisedBy
    <3>7. /\ result = "no_candidates_in_scope" <=> pool = {}
          /\ result = "no_acceptable_rendition" <=> pool # {} /\ ReadyIn(e, task) = {}
          /\ result = "raised" <=> RaisedBy(e, task)
          /\ result = "no_requirement_match" => \A u \in pool : Eligible(e[u], task) = {}
          /\ result = "no_high_confidence_match" =>
               /\ \E u \in pool : Eligible(e[u], task) # {}
               /\ \A u \in pool : Confident(e[u], task) = {}
          /\ result # None => found = <<>>
          /\ result = None => FoundRight(found, e, task)
      BY <3>1 DEF AnswerRight
    <3>8. (found = <<>>) <=> (result # None)
      <4>1. result = None => Len(found) \in Nat \ {0}
        BY <3>7 DEF FoundRight
      <4>2. Len(<<>>) = 0
        OBVIOUS
      <4> QED  BY <3>7, <4>1, <4>2
    <3>9. Cardinality(scope) \in Nat /\ ~ (Cardinality(scope) > PoolLimit)
      BY <3>1, <3>3, FS_CardinalityType, LimitsAre
    <3>10. \A a \in pool : Eligible(RowsOf(a), task) # {} => Acceptable(RowsOf(a), task) # {}
      BY DEF Eligible
    <3>11. result = "no_requirement_match" => \A a \in ready : Eligible(RowsOf(a), task) = {}
      BY <3>3, <3>4, <3>7
    <3>12. result = "no_high_confidence_match" =>
             /\ \E a \in ready : Eligible(RowsOf(a), task) # {}
             /\ \A a \in ready : Confident(RowsOf(a), task) = {}
      BY <3>3, <3>4, <3>7, <3>10
    <3> HIDE DEF ready, fits
    <3> QED  BY <2>4, <3>3, <3>5, <3>6, <3>7, <3>8, <3>9, <3>11, <3>12
  <2> QED  BY <2>3, <2>4
<1> QED  BY <1>1, TitleInductive, PTL

(* A verification that nothing disturbs passes exactly the healthy titles, *)
(* and ends in an error only for a title that is too large for a search,   *)
(* or that a search cannot report.                                         *)
THEOREM VerdictExact == Spec => []CleanVerdictIsExact
<1>1. ASSUME TitleInv PROVE CleanVerdictIsExact
  <2> SUFFICES ASSUME pc = "done", task = Verify, touched = {}, tame
               PROVE  /\ result = "PASS" <=> Healthy
                      /\ result \in {"over capacity", "raised"} =>
                           \/ Cardinality(Placed(TitleScope)) > PoolLimit
                           \/ \E a \in Placed(TitleScope) : RowsOf(a).misfit # {}
    BY DEF CleanVerdictIsExact
  <2>1. TypeOK /\ Holds(sem) /\ Holds(rend) /\ Course /\ SoundSoFar /\ Ended /\ CalmInv
    BY <1>1 DEF TitleInv, VerifyInv
  <2>2. Healthy => result = "PASS"
    BY <2>1 DEF CalmInv, Calm
  <2>3. ASSUME result = "PASS" PROVE Healthy
    <3>1. ~faulty /\ ~staged /\ turn = 5 /\ Going /\ Checked
      BY <2>1, <2>3 DEF Ended, Going, Checked
    <3>2. /\ expected \subseteq Assets /\ expected = Placed(TitleScope)
          /\ Loaded(rend, expected) /\ Loaded(sem, expected)
      BY <2>1 DEF Course, TypeOK, Placed
    <3>3. \A a \in expected : rend[a] = db[a].rev /\ sem[a] = db[a].rev
      BY <2>1, <3>2 DEF Holds, Loaded
    <3>4. \A a \in Sampled(expected) : <<a, rend[a]>> \notin damaged /\ a \in expected
      BY <2>1, <3>1 DEF SoundSoFar, Sampled
    <3>5. \A a \in expected : db[a].active /\ Whole(db[a].rev)
      BY <2>1, <3>1, <3>3 DEF SoundSoFar, Whole
    <3>6. /\ expected # {} /\ Cardinality(expected) <= SearchLimit
          /\ \A a, b \in expected : ProducerId[a] = ProducerId[b] => a = b
      BY <2>1, <3>1 DEF SoundSoFar
    <3> QED  BY <3>1, <3>2, <3>3, <3>4, <3>5, <3>6 DEF Healthy
  <2>4. ASSUME result = "over capacity" PROVE Cardinality(Placed(TitleScope)) > PoolLimit
    <3>1. Cardinality(ActiveIn(TitleScope)) > PoolLimit
      BY <2>1, <2>4 DEF Ended
    <3>2. IsFiniteSet(Placed(TitleScope)) /\ ActiveIn(TitleScope) \subseteq Placed(TitleScope)
      BY FS_Subset, TitleAssumption DEF Placed, ActiveIn
    <3>3. Cardinality(ActiveIn(TitleScope)) <= Cardinality(Placed(TitleScope))
      BY <3>2, FS_Subset
    <3>4. Cardinality(ActiveIn(TitleScope)) \in Nat /\ Cardinality(Placed(TitleScope)) \in Nat
      BY <3>2, FS_Subset, FS_CardinalityType
    <3> QED  BY <3>1, <3>3, <3>4, LimitsAre
  <2>5. result = "raised" => \E a \in Placed(TitleScope) : RowsOf(a).misfit # {}
    BY <2>1 DEF Ended
  <2> QED  BY <2>2, <2>3, <2>4, <2>5
<1> QED  BY <1>1, TitleInductive, PTL

(* Ingests that move assets between whole revisions never fail a healthy   *)
(* title, and a title that passes holds no untouched asset that was not    *)
(* whole and active, or was damaged where it was sampled.  Every variable  *)
(* keeps its type.                                                         *)
THEOREM VerdictSurvives == Spec => []VerdictSurvivesRevisions
<1>1. ASSUME TitleInv PROVE VerdictSurvivesRevisions
  <2>1. TypeOK
    BY <1>1 DEF TitleInv
  <2>2. ASSUME pc = "done", task = Verify, tame, Healthy, damaged = {} PROVE result = "PASS"
    BY <1>1, <2>2 DEF TitleInv, CalmInv, Calm
  <2>3. ASSUME pc = "done", task = Verify, result = "PASS"
        PROVE  /\ Cardinality(Placed(TitleScope) \ touched) <= SearchLimit
               /\ \A a \in Placed(TitleScope) \ touched : db[a].active /\ Whole(db[a].rev)
               /\ \A a \in Sampled(expected) \ touched : <<a, db[a].rev>> \notin damaged
    <3>1. Holds(sem) /\ Holds(rend) /\ Course /\ SoundSoFar /\ Ended
      BY <1>1, <2>3 DEF TitleInv, VerifyInv
    <3>2. ~faulty /\ turn = 5 /\ Going /\ Checked
      BY <2>3, <3>1 DEF Ended, Going, Checked
    <3>3. /\ expected \subseteq Assets /\ Placed(TitleScope) \ touched \subseteq expected
          /\ Loaded(rend, expected) /\ Loaded(sem, expected)
      BY <2>1, <2>3, <3>1 DEF Course, TypeOK, Placed
    <3>4. \A a \in expected \ touched : rend[a] = db[a].rev
      BY <3>1, <3>3 DEF Holds, Loaded
    <3>5. \A a \in Placed(TitleScope) \ touched : db[a].active /\ Whole(db[a].rev)
      <4>1. /\ \A a \in expected \ touched : db[a].active /\ RevisionOf[rend[a]].misfit = {}
            /\ \A a \in expected : /\ DOMAIN RevisionOf[rend[a]].over = Kinds
                                   /\ RevisionOf[rend[a]].sound
        BY <3>1, <3>2 DEF SoundSoFar
      <4> QED  BY <3>3, <3>4, <4>1 DEF Whole
    <3>7. \A a \in Sampled(expected) \ touched : <<a, db[a].rev>> \notin damaged
      <4>1. \A a \in Sampled(expected) \ touched : <<a, rend[a]>> \notin damaged
        BY <2>3, <3>1, <3>2 DEF SoundSoFar
      <4>2. Sampled(expected) \ touched \subseteq expected \ touched
        BY DEF Sampled
      <4> QED  BY <3>4, <4>1, <4>2
    <3>6. Cardinality(Placed(TitleScope) \ touched) <= SearchLimit
      <4>1. IsFiniteSet(expected)
        BY <3>3, FS_Subset, TitleAssumption
      <4>2. /\ Cardinality(Placed(TitleScope) \ touched) <= Cardinality(expected)
            /\ IsFiniteSet(Placed(TitleScope) \ touched)
        BY <3>3, <4>1, FS_Subset
      <4>3. Cardinality(expected) \in Nat /\ Cardinality(Placed(TitleScope) \ touched) \in Nat
        BY <4>1, <4>2, FS_CardinalityType
      <4>4. Cardinality(expected) <= SearchLimit
        BY <3>1, <3>2 DEF SoundSoFar
      <4> QED  BY <4>2, <4>3, <4>4, LimitsAre
    <3> QED  BY <3>5, <3>6, <3>7
  <2> QED  BY <2>1, <2>2, <2>3 DEF VerdictSurvivesRevisions
<1> QED  BY <1>1, TitleInductive, PTL

---------------------------------------------------------------------------------
(* Delivery.                                                               *)

USE DeliveryAssumption

Fresh == {"request", "opened", "preflight"}

(* What the route decided before the reader was opened.                    *)
Decided ==
  /\ phase = "request" => /\ response = "none" /\ outcome = "none" /\ handle = "none"
                       /\ window = WholeObject /\ declared = Nothing
  /\ phase \in Fresh => read = 0 /\ response = "none"
  /\ phase # "done" => outcome = "none"
  /\ (phase \notin {"request", "done"} \/ response \in {"200", "206"}) =>
       /\ declared = IF window.count = Nothing THEN request.size ELSE window.count
       /\ request.route = "thumbnail" => window = WholeObject
       /\ request.route = "content" =>
            /\ request.size \in Sizes
            /\ window \in ParseSingleRange(request.range, request.size)
  /\ response = "206" => window.count # Nothing
  /\ (response = "416" /\ request.route = "content") =>
       request.size \in Sizes /\ ParseSingleRange(request.range, request.size) = {}
  /\ response \in {"404", "416", "503"} => read = 0 /\ phase = "done"
  /\ outcome = "complete" /\ response \in {"200", "206"} => declared \in {Nothing, sent}

(* The handle follows the exchange, and bytes precede the headers.         *)
Proven ==
  /\ phase = "done" => handle \in {"none", "closed"}
  /\ (phase \in {"ready", "body", "next"} /\ declared \notin {Nothing, 0}) => read > 0
  /\ response \in {"200", "206"} /\ declared \notin {Nothing, 0} => read > 0
  /\ phase = "opened" => handle = "new"
  /\ phase \in {"body", "next"} => response \in {"200", "206"}
  /\ phase \in {"preflight", "next"} => handle # "closed" /\ pending = 0

(* No read goes past the window, nor past the end of the object.           *)
Inside ==
  read > 0 => /\ object # Nothing
              /\ window.offset + read <= object
              /\ window.count # Nothing => read <= window.count

(* A reader that ended in success, without a length to end at, has given   *)
(* all of the object.                                                      *)
Exhausted ==
  /\ phase \notin {"request", "done"} => request.scheme \in {"file", "rclone"}
  /\ handle = "open" /\ request.scheme = "file" => object # Nothing
  /\ (phase \in {"ready", "body"} /\ handle = "closed" /\ declared = Nothing) => read = object
  /\ (outcome = "complete" /\ response = "200" /\ declared = Nothing) => sent = object

ExchangeInv == ExchangeTypeOK /\ Decided /\ Proven /\ Inside /\ Exhausted

---------------------------------------------------------------------------------
(* The five shapes of a range.                                             *)
LEMMA RangeShapes ==
  \A range \in Ranges :
    \/ range.form = "absent"
    \/ range.form = "malformed"
    \/ range.form = "suffix" /\ range.length \in Sizes
    \/ range.form = "open" /\ range.first \in Sizes
    \/ range.form = "closed" /\ range.first \in Sizes /\ range.last \in Sizes
  BY DEF Ranges

(* The smaller of two.                                                     *)
LEMMA LowerIs ==
  \A a, b \in Int : /\ Lower(a, b) \in {a, b} /\ Lower(a, b) <= a /\ Lower(a, b) <= b
  BY DEF Lower

(* The window of each shape, without the order of the cases.               *)
LEMMA ParseCases ==
  ASSUME NEW range \in Ranges, NEW total \in Sizes
  PROVE  /\ range.form = "absent" => ParseSingleRange(range, total) = {WholeObject}
         /\ range.form = "malformed" => ParseSingleRange(range, total) = {}
         /\ range.form = "suffix" =>
              ParseSingleRange(range, total) =
                IF total = 0 \/ ~ range.length > 0 THEN {}
                ELSE Span(total - Lower(range.length, total), total - 1)
         /\ range.form = "open" =>
              ParseSingleRange(range, total) =
                IF total = 0 \/ ~ range.first < total THEN {} ELSE Span(range.first, total - 1)
         /\ range.form = "closed" =>
              ParseSingleRange(range, total) =
                IF total = 0 \/ ~ (range.first < total /\ range.first <= range.last) THEN {}
                ELSE Span(range.first, Lower(range.last, total - 1))
<1>1. CASE range.form = "absent"
  BY <1>1 DEF ParseSingleRange
<1>2. CASE range.form = "malformed"
  BY <1>2 DEF ParseSingleRange
<1>3. CASE range.form = "suffix" /\ range.length \in Sizes
  BY <1>3 DEF ParseSingleRange, Sizes
<1>4. CASE range.form = "open" /\ range.first \in Sizes
  BY <1>4 DEF ParseSingleRange, Sizes
<1>5. CASE range.form = "closed" /\ range.first \in Sizes /\ range.last \in Sizes
  BY <1>5 DEF ParseSingleRange, Sizes
<1> QED  BY <1>1, <1>2, <1>3, <1>4, <1>5, RangeShapes

(* A window has one of two shapes; a span lies inside the object and has   *)
(* a byte.                                                                 *)
Within(w, total) ==
  /\ total > 0 /\ w.offset \in Nat /\ w.count \in Nat /\ w.count > 0
  /\ w.offset + w.count <= total
  /\ w = [offset |-> w.offset, count |-> w.count]

(* A window that lies within the object, as arithmetic.                      *)
LEMMA SpanWithin ==
  ASSUME NEW total \in Sizes, NEW first \in Nat, NEW last \in Nat,
         first <= last, last < total, NEW w \in Span(first, last)
  PROVE  Within(w, total)
  BY DEF Span, Within, Sizes

(* The windows of a range, and the positions it asks for.                  *)
LEMMA ParseIsAsked ==
  ASSUME NEW range \in Ranges, NEW total \in Sizes
  PROVE  \/ /\ range.form = "absent" /\ ParseSingleRange(range, total) = {WholeObject}
            /\ AskedFor(range, total) = 0..(total - 1)
         \/ ParseSingleRange(range, total) = {} /\ AskedFor(range, total) = {}
         \/ \E first, last \in Nat :
              /\ range.form # "absent" /\ first <= last /\ last < total
              /\ ParseSingleRange(range, total) = Span(first, last)
              /\ AskedFor(range, total) = first..last
<1>1. CASE range.form = "absent"
  <2>1. AskedFor(range, total) = 0..(total - 1)
    BY <1>1 DEF AskedFor
  <2> QED  BY <1>1, <2>1, ParseCases
<1>2. CASE range.form = "malformed"
  <2>1. AskedFor(range, total) = {}
    BY <1>2 DEF AskedFor
  <2> QED  BY <1>2, <2>1, ParseCases
<1>3. CASE range.form = "suffix" /\ range.length \in Sizes
  <2>1. CASE total = 0 \/ range.length = 0
    <3>1. AskedFor(range, total) = {}
      BY <1>3, <2>1 DEF AskedFor, Sizes
    <3> QED  BY <1>3, <2>1, <3>1, ParseCases DEF Sizes
  <2>2. CASE total > 0 /\ range.length > 0
    <3> DEFINE first == total - Lower(range.length, total)
    <3>1. first \in Nat /\ first <= total - 1 /\ total - 1 \in Nat
      BY <1>3, <2>2 DEF Lower, Sizes
    <3>2. AskedFor(range, total) = first..(total - 1)
      BY <1>3, <2>2 DEF AskedFor, Lower, Sizes
    <3>3. ParseSingleRange(range, total) = Span(first, total - 1)
      BY <1>3, <2>2, ParseCases DEF Sizes
    <3> HIDE DEF first
    <3> QED  BY <1>3, <3>1, <3>2, <3>3 DEF Sizes
  <2> QED  BY <1>3, <2>1, <2>2 DEF Sizes
<1>4. CASE range.form = "open" /\ range.first \in Sizes
  <2>1. CASE range.first >= total
    <3>1. AskedFor(range, total) = {}
      BY <1>4, <2>1 DEF AskedFor, Sizes
    <3> QED  BY <1>4, <2>1, <3>1, ParseCases DEF Sizes
  <2>2. CASE range.first < total
    <3>1. range.first \in Nat /\ range.first <= total - 1 /\ total - 1 \in Nat
      BY <1>4, <2>2 DEF Sizes
    <3>2. AskedFor(range, total) = (range.first)..(total - 1)
      BY <1>4, <2>2 DEF AskedFor, Sizes
    <3>3. ParseSingleRange(range, total) = Span(range.first, total - 1)
      BY <1>4, <2>2, ParseCases DEF Sizes
    <3> QED  BY <1>4, <3>1, <3>2, <3>3 DEF Sizes
  <2> QED  BY <1>4, <2>1, <2>2 DEF Sizes
<1>5. CASE range.form = "closed" /\ range.first \in Sizes /\ range.last \in Sizes
  <2>1. CASE ~ (range.first < total /\ range.first <= range.last)
    <3>1. AskedFor(range, total) = {}
      BY <1>5, <2>1 DEF AskedFor, Sizes
    <3> QED  BY <1>5, <2>1, <3>1, ParseCases DEF Sizes
  <2>2. CASE range.first < total /\ range.first <= range.last
    <3> DEFINE last == Lower(range.last, total - 1)
    <3>1. range.first \in Nat /\ range.first <= last /\ last < total /\ last \in Nat
      BY <1>5, <2>2 DEF Sizes, Lower
    <3>2. AskedFor(range, total) = (range.first)..last
      BY <1>5, <2>2 DEF AskedFor, Sizes, Lower
    <3>3. ParseSingleRange(range, total) = Span(range.first, last)
      BY <1>5, <2>2, ParseCases DEF Sizes
    <3> HIDE DEF last
    <3> QED  BY <1>5, <3>1, <3>2, <3>3
  <2> QED  BY <2>1, <2>2
<1> QED  BY <1>1, <1>2, <1>3, <1>4, <1>5, RangeShapes

(* A range is refused exactly when it asks for no byte.                    *)
LEMMA RefusedIffNothing ==
  ASSUME NEW range \in Ranges, NEW total \in Sizes
  PROVE  /\ ParseSingleRange(range, total) = {} => AskedFor(range, total) = {}
         /\ \A w \in ParseSingleRange(range, total) :
              w.count # Nothing => AskedFor(range, total) # {}
<1>1. ASSUME ParseSingleRange(range, total) = {WholeObject}
      PROVE  /\ ParseSingleRange(range, total) # {}
             /\ \A w \in ParseSingleRange(range, total) : w.count = Nothing
  BY <1>1 DEF WholeObject
<1>2. CASE ParseSingleRange(range, total) = {} /\ AskedFor(range, total) = {}
  BY <1>2
<1>3. ASSUME NEW first \in Nat, NEW last \in Nat, first <= last,
             ParseSingleRange(range, total) = Span(first, last),
             AskedFor(range, total) = first..last
      PROVE  ParseSingleRange(range, total) # {} /\ AskedFor(range, total) # {}
  <2>1. first \in first..last
    BY <1>3
  <2> QED  BY <1>3, <2>1 DEF Span
<1> QED
  BY <1>1, <1>2, <1>3, ParseIsAsked, Zenon

(* A window that a range opens has its type.                               *)
LEMMA WindowType ==
  ASSUME NEW range \in Ranges, NEW total \in Sizes, NEW w \in ParseSingleRange(range, total)
  PROVE  \/ w = WholeObject
         \/ Within(w, total)
<1>1. CASE ParseSingleRange(range, total) \in {{WholeObject}, {}}
  BY <1>1
<1>2. ASSUME NEW first \in Nat, NEW last \in Nat, first <= last, last < total,
             ParseSingleRange(range, total) = Span(first, last)
      PROVE  Within(w, total)
  BY <1>2, SpanWithin
<1> QED  BY <1>1, <1>2, ParseIsAsked

(* What is left to read is inside the object and the window.               *)
LEMMA LeftIs ==
  ASSUME ExchangeTypeOK
  PROVE  /\ Left \in Nat
         /\ Left > 0 => /\ object \in Sizes
                        /\ window.offset + read + Left <= object
                        /\ window.count # Nothing => read + Left <= window.count
<1>1. CASE object = Nothing
  BY <1>1 DEF Left
<1>2. CASE object \in Sizes /\ window.count = Nothing
  BY <1>2 DEF Left, ExchangeTypeOK, Sizes
<1>3. CASE object \in Sizes /\ window.count \in Sizes
  <2>1. window.count # Nothing
    BY <1>3 DEF Sizes
  <2> QED  BY <1>3, <2>1 DEF Left, ExchangeTypeOK, Sizes, Lower
<1> QED  BY <1>1, <1>2, <1>3 DEF ExchangeTypeOK, SizesOrNone

(* The initial states.                                                     *)
LEMMA ExchangeStarts == ExchangeInit => ExchangeInv
  BY DEF ExchangeInit, ExchangeInv, ExchangeTypeOK, Decided, Proven, Inside, Exhausted,
         WholeObject, Fresh, Sizes, SizesOrNone, Requests

(* What a chunk that was read leaves.                                      *)
LEMMA ReadStays ==
  ASSUME ExchangeTypeOK, Inside, ReadChunk
  PROVE  /\ read' \in Sizes /\ pending' \in Sizes /\ read' = read + pending'
         /\ read' > 0 /\ object # Nothing /\ window.offset + read' <= object
         /\ window.count # Nothing => read' <= window.count
<1>1. PICK n \in 1..Lower(ChunkSize, Left) : read' = read + n /\ pending' = n
  BY DEF ReadChunk
<1>2. n \in Nat /\ n > 0 /\ n <= Left
  BY <1>1, LeftIs, LowerIs
<1>3. /\ read \in Sizes /\ pending \in Sizes /\ sent \in Sizes
      /\ window.offset \in Sizes /\ window.count \in SizesOrNone
  BY DEF ExchangeTypeOK
<1>4. Left \in Nat /\ Left > 0
  BY <1>2, LeftIs
<1>5. /\ object \in Sizes /\ window.offset + read + Left <= object
      /\ window.count # Nothing => read + Left <= window.count
  BY <1>4, LeftIs
<1>6. /\ object # Nothing /\ window.offset + (read + n) <= object
      /\ window.count # Nothing => read + n <= window.count
  <2> HIDE DEF Left
  <2> QED  BY <1>2, <1>3, <1>4, <1>5 DEF Sizes, SizesOrNone
<1>7. read + n \in Sizes /\ n \in Sizes /\ read + n > 0
  BY <1>2, <1>3, <1>5, <1>6 DEF Sizes
<1> QED  BY <1>1, <1>6, <1>7, Zenon

(* The type invariant is kept.                                             *)
LEMMA NextTypes == ExchangeInv /\ [ExchangeNext]_exchange => ExchangeTypeOK'
<1> SUFFICES ASSUME ExchangeInv, [ExchangeNext]_exchange PROVE ExchangeTypeOK'
  OBVIOUS
<1> USE DEF ExchangeInv, reading
<1>1. CASE Open
  <2>1. window' \in [offset : Sizes, count : SizesOrNone] /\ declared' \in SizesOrNone
    <3>1. CASE request.route = "thumbnail"
      BY <1>1, <3>1 DEF Open, ExchangeTypeOK, Requests, WholeObject, Sizes, SizesOrNone
    <3>2. CASE request.route = "content"
      <4>1. request.range \in Ranges /\ request.size \in Sizes
        BY <1>1, <3>2 DEF Open, ExchangeTypeOK, Requests, SizesOrNone
      <4>2. PICK w \in ParseSingleRange(request.range, request.size) :
              window' = w /\ declared' = IF w.count = Nothing THEN request.size ELSE w.count
        BY <1>1, <3>2 DEF Open
      <4>3. CASE w = WholeObject
        BY <4>1, <4>2, <4>3 DEF WholeObject, Sizes, SizesOrNone
      <4>4. CASE Within(w, request.size)
        BY <4>1, <4>2, <4>4 DEF Within, Sizes, SizesOrNone
      <4> QED  BY <4>1, <4>3, <4>4, WindowType
    <3> QED  BY <3>1, <3>2 DEF ExchangeTypeOK, Requests
  <2> QED  BY <1>1, <2>1 DEF Open, ExchangeTypeOK
<1>2. CASE NotFound \/ NotSatisfiable \/ NotReadable
  BY <1>2 DEF NotFound, NotSatisfiable, NotReadable, Refuse, Respond, ExchangeTypeOK
<1>3. CASE SkipBody
  BY <1>3 DEF SkipBody, ExchangeTypeOK
<1>4. CASE Preflight
  BY <1>4 DEF Preflight, ExchangeTypeOK
<1>5. CASE OpenHandle
  BY <1>5 DEF OpenHandle, InNext, ExchangeTypeOK
<1>6. CASE ReadChunk
  <2>1. pending = 0
    BY <1>6 DEF ReadChunk, InNext, Proven
  <2>2. sent \in Sizes /\ pending' \in Sizes /\ read \in Sizes /\ sent + pending' = read'
    BY <1>6, <2>1, ReadStays DEF ReadChunk, ExchangeTypeOK, Sizes
  <2> QED  BY <1>6, <2>2, ReadStays DEF ReadChunk, ExchangeTypeOK
<1>7. CASE EndOfStream
  BY <1>7 DEF EndOfStream, StreamStops, Respond, ExchangeTypeOK
<1>8. CASE StreamFails \/ Deadline
  BY <1>8 DEF StreamFails, Deadline, Raise, Respond, ExchangeTypeOK
<1>9. CASE SendHeaders
  BY <1>9 DEF SendHeaders, ExchangeTypeOK
<1>10. CASE SendChunk
  <2>1. sent + pending \in Sizes /\ sent + pending + 0 = read
    BY DEF ExchangeTypeOK, Sizes
  <2> QED  BY <1>10, <2>1 DEF SendChunk, ExchangeTypeOK, Sizes
<1>11. CASE Pull \/ EndEmpty \/ Drop
  BY <1>11 DEF Pull, EndEmpty, Drop, ExchangeTypeOK
<1>12. CASE UNCHANGED exchange
  BY <1>12 DEF exchange, ExchangeTypeOK, Left
<1> QED
  BY <1>1, <1>2, <1>3, <1>4, <1>5, <1>6, <1>7, <1>8, <1>9, <1>10, <1>11, <1>12 DEF ExchangeNext

(* What the route decided is kept.                                         *)
LEMMA NextDecided == ExchangeInv /\ [ExchangeNext]_exchange => Decided'
<1> SUFFICES ASSUME ExchangeInv, [ExchangeNext]_exchange PROVE Decided'
  OBVIOUS
<1> USE DEF ExchangeInv, reading
<1>1. CASE Open
  BY <1>1 DEF Open, Decided, Fresh, ExchangeTypeOK, Requests, WholeObject, SizesOrNone
<1>2. CASE NotFound
  BY <1>2 DEF NotFound, Refuse, Respond, Decided, Fresh
<1>3. CASE NotSatisfiable
  BY <1>3 DEF NotSatisfiable, Refuse, Respond, Decided, Fresh
<1>4. CASE NotReadable
  BY <1>4 DEF NotReadable, Refuse, Respond, Decided, Fresh
<1>5. CASE SkipBody
  BY <1>5 DEF SkipBody, Decided, Fresh
<1>6. CASE Preflight
  BY <1>6 DEF Preflight, Decided, Fresh
<1>7. CASE OpenHandle
  BY <1>7 DEF OpenHandle, InNext, Decided, Fresh
<1>8. CASE ReadChunk
  BY <1>8 DEF ReadChunk, InNext, Decided, Fresh
<1>9. CASE EndOfStream
  BY <1>9 DEF EndOfStream, InNext, StreamStops, Respond, Decided, Fresh
<1>10. CASE StreamFails \/ Deadline
  BY <1>10 DEF StreamFails, Deadline, InNext, Raise, Respond, Decided, Fresh
<1>11. CASE SendHeaders
  BY <1>11 DEF SendHeaders, Decided, Fresh
<1>12. CASE SendChunk
  BY <1>12 DEF SendChunk, Decided, Fresh
<1>13. CASE Pull \/ Drop
  BY <1>13 DEF Pull, Drop, Decided, Fresh
<1>14. CASE EndEmpty
  BY <1>14 DEF EndEmpty, Decided, Fresh
<1>15. CASE UNCHANGED exchange
  BY <1>15 DEF exchange, Decided, Fresh
<1> QED
  BY <1>1, <1>2, <1>3, <1>4, <1>5, <1>6, <1>7, <1>8, <1>9, <1>10, <1>11, <1>12, <1>13,
     <1>14, <1>15 DEF ExchangeNext

(* The handle goes on following the exchange.                              *)
LEMMA NextProven == ExchangeInv /\ [ExchangeNext]_exchange => Proven' /\ Inside'
<1> SUFFICES ASSUME ExchangeInv, [ExchangeNext]_exchange PROVE Proven' /\ Inside'
  OBVIOUS
<1> USE DEF ExchangeInv, reading
<1>1. CASE Open
  BY <1>1 DEF Open, Proven, Decided, Fresh, Inside, ExchangeTypeOK
<1>2. CASE NotFound \/ NotSatisfiable \/ NotReadable
  BY <1>2 DEF NotFound, NotSatisfiable, NotReadable, Refuse, Respond, Proven, Decided, Inside
<1>3. CASE SkipBody
  BY <1>3 DEF SkipBody, Proven, Decided, Fresh, Inside
<1>4. CASE Preflight
  BY <1>4 DEF Preflight, Proven, Decided, Fresh, Inside, ExchangeTypeOK, Sizes
<1>5. CASE OpenHandle
  BY <1>5 DEF OpenHandle, InNext, Proven, Inside
<1>6. CASE ReadChunk
  <2>1. Inside'
    BY <1>6, ReadStays DEF ReadChunk, Inside
  <2>2. read' > 0
    BY <1>6, ReadStays
  <2> QED  BY <1>6, <2>1, <2>2 DEF ReadChunk, InNext, Proven, Decided, Fresh
<1>7. CASE EndOfStream
  BY <1>7 DEF EndOfStream, InNext, StreamStops, Respond, Proven, Inside
<1>8. CASE StreamFails \/ Deadline
  BY <1>8 DEF StreamFails, Deadline, InNext, Raise, Respond, Proven, Inside
<1>9. CASE SendHeaders
  BY <1>9 DEF SendHeaders, Proven, Inside
<1>10. CASE SendChunk
  BY <1>10 DEF SendChunk, Proven, Inside
<1>11. CASE Pull \/ EndEmpty \/ Drop
  BY <1>11 DEF Pull, EndEmpty, Drop, Proven, Inside
<1>12. CASE UNCHANGED exchange
  BY <1>12 DEF exchange, Proven, Inside
<1> QED
  BY <1>1, <1>2, <1>3, <1>4, <1>5, <1>6, <1>7, <1>8, <1>9, <1>10, <1>11, <1>12 DEF ExchangeNext

(* With no length to end at, the end of the stream is that of the object.  *)
LEMMA EndsWhole ==
  ASSUME ExchangeInv, InNext, declared = Nothing, object # Nothing, Left = 0
  PROVE  read = object
<1> USE DEF ExchangeInv
<1>1. object \in Sizes /\ read \in Sizes
  BY DEF ExchangeTypeOK, SizesOrNone
<1>2. read > 0 => window.offset + read <= object
  BY DEF Inside
<1>3. window.count = Nothing
  BY DEF Decided, InNext
<1>4. window = WholeObject
  <2>1. CASE request.route = "thumbnail"
    BY <2>1 DEF Decided, InNext
  <2>2. CASE request.route = "content"
    <3>1. request.range \in Ranges /\ request.size \in Sizes
          /\ window \in ParseSingleRange(request.range, request.size)
      BY <2>2 DEF Decided, InNext, ExchangeTypeOK, Requests
    <3>2. ~Within(window, request.size)
      BY <1>3 DEF Within
    <3> QED  BY <3>1, <3>2, WindowType
  <2> QED  BY <2>1, <2>2 DEF ExchangeTypeOK, Requests
<1> QED  BY <1>1, <1>2, <1>4 DEF Left, WholeObject, Sizes

(* A success without a length stays a success over the whole object.       *)
LEMMA NextExhausted == ExchangeInv /\ [ExchangeNext]_exchange => Exhausted'
<1> SUFFICES ASSUME ExchangeInv, [ExchangeNext]_exchange PROVE Exhausted'
  OBVIOUS
<1>0. ExchangeTypeOK /\ Decided /\ Proven /\ Exhausted
  BY DEF ExchangeInv
<1> USE <1>0 DEF reading
<1>1. CASE Open
  BY <1>1 DEF Open, Exhausted, Decided, ExchangeTypeOK, Requests
<1>2. CASE NotFound \/ NotSatisfiable \/ NotReadable
  BY <1>2 DEF NotFound, NotSatisfiable, NotReadable, Refuse, Respond, Exhausted, Decided
<1>3. CASE SkipBody
  BY <1>3 DEF SkipBody, Exhausted, Proven
<1>4. CASE Preflight
  BY <1>4 DEF Preflight, Exhausted
<1>5. CASE OpenHandle
  BY <1>5 DEF OpenHandle, InNext, Exhausted
<1>6. CASE ReadChunk
  BY <1>6 DEF ReadChunk, InNext, Exhausted, Decided
<1>7. CASE EndOfStream
  <2>1. object # Nothing
    BY <1>7 DEF EndOfStream, InNext, Exhausted
  <2>2. declared = Nothing => read = object
    BY <1>7, <2>1, EndsWhole DEF EndOfStream
  <2>3. phase = "next" => sent = read
    BY DEF Proven, ExchangeTypeOK, Sizes
  <2> QED  BY <1>7, <2>2, <2>3 DEF EndOfStream, InNext, StreamStops, Respond, Exhausted, Decided
<1>8. CASE StreamFails \/ Deadline
  BY <1>8 DEF StreamFails, Deadline, InNext, Raise, Respond, Exhausted, Decided
<1>9. CASE SendHeaders
  BY <1>9 DEF SendHeaders, Exhausted, Decided
<1>10. CASE SendChunk
  BY <1>10 DEF SendChunk, Exhausted, Decided
<1>11. CASE EndEmpty
  <2>1. sent = read
    BY <1>11 DEF EndEmpty, ExchangeTypeOK, Sizes
  <2> QED  BY <1>11, <2>1 DEF EndEmpty, Exhausted
<1>12. CASE Pull \/ Drop
  BY <1>12 DEF Pull, Drop, Exhausted, Decided
<1>13. CASE UNCHANGED exchange
  BY <1>13 DEF exchange, Exhausted
<1> QED
  BY <1>1, <1>2, <1>3, <1>4, <1>5, <1>6, <1>7, <1>8, <1>9, <1>10, <1>11, <1>12, <1>13
     DEF ExchangeNext

(* The invariant of an exchange holds in every reachable state: of the     *)
(* route's decision, the handle, and how far the reader may go.            *)
THEOREM ExchangeInductive == ExchangeSpec => []ExchangeInv
<1>1. ExchangeInv /\ [ExchangeNext]_exchange => ExchangeInv'
  BY NextTypes, NextDecided, NextProven, NextExhausted DEF ExchangeInv
<1> QED  BY ExchangeStarts, <1>1, PTL DEF ExchangeSpec

(* NothingHeld, for every size: when an exchange is over, its reader holds *)
(* neither a file descriptor nor a child, and every variable has its type. *)
THEOREM ReaderIsReleased == ExchangeSpec => []NothingHeld
<1>1. ExchangeInv => NothingHeld
  BY DEF ExchangeInv, Proven, NothingHeld
<1> QED  BY ExchangeInductive, <1>1, PTL

(* HeadersAreProven, for every size: delivery headers follow a chunk that  *)
(* was read, and an error response carries no byte.                        *)
THEOREM HeadersFollowBytes == ExchangeSpec => []HeadersAreProven
<1>1. ExchangeInv => HeadersAreProven
  BY DEF ExchangeInv, Proven, Decided, ExchangeTypeOK, Sizes, HeadersAreProven
<1> QED  BY ExchangeInductive, <1>1, PTL

(* The body of an undamaged object: what has been read and what is left    *)
(* add up to Content-Length.                                               *)
LEMMA LengthsAdd ==
  ASSUME ExchangeInv, phase \notin {"request", "done"}, object = request.size, object # Nothing
  PROVE  read + Left = declared
<1> USE DEF ExchangeInv
<1>1. object \in Sizes /\ read \in Sizes
  BY DEF ExchangeTypeOK, SizesOrNone
<1>2. read > 0 => window.offset + read <= object /\ (window.count # Nothing => read <= window.count)
  BY DEF Inside
<1>3. declared = IF window.count = Nothing THEN object ELSE window.count
  BY DEF Decided
<1>4. CASE window = WholeObject
  BY <1>1, <1>2, <1>3, <1>4 DEF Left, WholeObject, Sizes
<1>5. CASE Within(window, object)
  <2>1. /\ window.count # Nothing /\ window.offset \in Nat /\ window.count \in Nat
        /\ window.offset + window.count <= object
    BY <1>5 DEF Within
  <2>2. Lower(object, window.offset + window.count) = window.offset + window.count
    BY <1>1, <2>1 DEF Lower, Sizes
  <2>3. read <= window.count
    BY <1>1, <1>2, <2>1 DEF Sizes
  <2> QED  BY <1>1, <1>3, <2>1, <2>2, <2>3 DEF Left, Sizes
<1>6. request.route = "content" => request.range \in Ranges /\ request.size \in Sizes
  BY <1>1 DEF ExchangeTypeOK, Requests
<1>7. request.route \in {"content", "thumbnail"}
  BY DEF ExchangeTypeOK, Requests
<1> QED  BY <1>4, <1>5, <1>6, <1>7, WindowType DEF Decided

(* A finished body holds the positions that were asked for.                *)
LEMMA BodyComplete ==
  ASSUME ExchangeInv, request.route = "content", outcome = "complete",
         response \in {"200", "206"}
  PROVE  Sent = AskedFor(request.range, request.size)
<1> DEFINE range == request.range
           size == request.size
<1>1. size \in Sizes /\ window \in ParseSingleRange(range, size)
  BY DEF ExchangeInv, Decided
<1>2. range \in Ranges /\ size \in Sizes
  BY <1>1 DEF ExchangeInv, ExchangeTypeOK, Requests
<1>3. sent = IF window.count = Nothing THEN size ELSE window.count
  <2>1. declared = IF window.count = Nothing THEN size ELSE window.count
    BY DEF ExchangeInv, Decided
  <2>2. declared # Nothing
    BY <1>1, <2>1 DEF Sizes
  <2>3. declared \in {Nothing, sent}
    BY DEF ExchangeInv, Decided
  <2> QED  BY <2>1, <2>2, <2>3
<1> HIDE DEF range, size
<1>4. CASE ParseSingleRange(range, size) = {WholeObject} /\ AskedFor(range, size) = 0..(size - 1)
  <2>1. window = WholeObject
    BY <1>1, <1>4
  <2>2. sent = size /\ window.offset = 0
    BY <1>3, <2>1 DEF WholeObject
  <2> QED  BY <1>2, <1>4, <2>2 DEF Sent, Sizes, range, size
<1>5. ASSUME NEW first \in Nat, NEW last \in Nat, first <= last,
             ParseSingleRange(range, size) = Span(first, last),
             AskedFor(range, size) = first..last
      PROVE  Sent = AskedFor(range, size)
  <2>1. window = [offset |-> first, count |-> last - first + 1]
    BY <1>1, <1>5 DEF Span
  <2>2. sent = last - first + 1 /\ window.offset = first
    <3>1. last - first + 1 # Nothing
      BY <1>5
    <3> QED  BY <1>3, <2>1, <3>1
  <2>3. Sent = {first + k : k \in 0..(last - first)}
    BY <1>5, <2>2 DEF Sent
  <2>4. \A p \in first..last : p - first \in 0..(last - first) /\ p = first + (p - first)
    BY <1>5
  <2>5. \A k \in 0..(last - first) : first + k \in first..last
    BY <1>5
  <2> QED  BY <1>5, <2>3, <2>4, <2>5
<1> QED  BY <1>1, <1>2, <1>4, <1>5, ParseIsAsked DEF range, size

(* BodyIsWhatWasAsked, for every size of object, chunk and range: a body   *)
(* that is finished is what was asked for, position by position; ranges    *)
(* are refused exactly when they ask for nothing; lengths add up; without  *)
(* a length, a finished body is the whole object.                          *)
THEOREM BodiesAreRanges == ExchangeSpec => []BodyIsWhatWasAsked
<1>1. ASSUME ExchangeInv PROVE BodyIsWhatWasAsked
  <2>1. ASSUME request.route = "content", response = "416"
        PROVE  AskedFor(request.range, request.size) = {}
    <3>1. /\ request.size \in Sizes
          /\ ParseSingleRange(request.range, request.size) = {}
      BY <1>1, <2>1 DEF ExchangeInv, Decided
    <3>2. request.range \in Ranges /\ request.size \in Sizes
      BY <1>1, <2>1, <3>1 DEF ExchangeInv, ExchangeTypeOK, Requests
    <3> QED  BY <3>1, <3>2, RefusedIffNothing
  <2>2. ASSUME request.route = "content", response = "206"
        PROVE  AskedFor(request.range, request.size) # {}
    <3>1. /\ request.size \in Sizes /\ window.count # Nothing
          /\ window \in ParseSingleRange(request.range, request.size)
      BY <1>1, <2>2 DEF ExchangeInv, Decided
    <3>2. request.range \in Ranges /\ request.size \in Sizes
      BY <1>1, <2>2, <3>1 DEF ExchangeInv, ExchangeTypeOK, Requests
    <3> QED  BY <3>1, <3>2, RefusedIffNothing
  <2> QED  BY <1>1, <2>1, <2>2, LengthsAdd, BodyComplete DEF BodyIsWhatWasAsked, ExchangeInv, Exhausted
<1> QED  BY ExchangeInductive, <1>1, PTL
================================================================================
