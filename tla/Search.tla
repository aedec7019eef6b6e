---------------------------------- MODULE Search ----------------------------------
(***************************************************************************)
(* The matching core of search_assets: which assets of a scoped pool       *)
(* answer a request, in which rendition, with which confidence and order.  *)
(*                                                                         *)
(* A stored or requested text is its set of tokens.  An asset's evidence e *)
(* has e.base, the value of every field; e.over, which maps each rendition *)
(* that is present to the fields it overrides; and e.misfit, the           *)
(* renditions with an override that the response contract refuses.         *)
(***************************************************************************)
EXTENDS Integers, Sequences, FiniteSets

CONSTANTS
  Tokens,    \* words, after normalized_tokens
  TokensOf,  \* TokensOf[t]: the words of requested term t; it may have none
  None       \* no bound, preference or stored value

Terms == DOMAIN TokensOf
Kinds == {"horizontal", "vertical"}

(* The fields that carry meaning.                                          *)
TextFields == {"visual_summary", "search_terms", "keywords", "subjects", "objects",
               "actions", "setting", "visible_emotions", "relationships",
               "standalone_meaning"}
Fields == TextFields \cup {"people", "negative_use_cases"}
TermKeys == {"relationships", "visible_emotions", "setting", "subjects", "objects",
             "actions", "semantic_terms", "people_presentations"}

Asked(terms) == UNION {TokensOf[t] : t \in terms}

----------------------------------------------------------------------------------
(* An override wins for the known fields it supplies.                      *)
Values(e, k) == [f \in Fields |-> IF f \in DOMAIN e.over[k] THEN e.over[k][f] ELSE e.base[f]]

(* The stored words that can establish a claim under a key.                *)
Stored(v, key) ==
  CASE key = "semantic_terms"       -> UNION {v[f] : f \in TextFields}
    [] key = "people_presentations" -> v["people"].words
    [] OTHER                        -> v[key]

(* Mutant: positive evidence is looked at before negative use cases.       *)
EvidenceFirst(terms, stored, negatives) ==
  IF Asked(terms) \subseteq stored THEN "MATCH"
  ELSE IF Asked(terms) \cap negatives # {} THEN "MISMATCH" ELSE "UNKNOWN"

StateForTerms(terms, stored, negatives) ==
  IF Asked(terms) = {} THEN "MATCH"
  ELSE IF Asked(terms) \cap negatives # {} THEN "MISMATCH"
  ELSE IF Asked(terms) \subseteq stored THEN "MATCH"
  ELSE "UNKNOWN"

PeopleCountState(q, count) ==
  IF count = None THEN "UNKNOWN"
  ELSE IF \/ q.count_min # None /\ count < q.count_min
          \/ q.count_max # None /\ count > q.count_max THEN "MISMATCH"
  ELSE "MATCH"

RequestedHardKeys(q) ==
  {"rendition"} \cup {key \in TermKeys : q.terms[key] # {}}
    \cup (IF q.count_min # None \/ q.count_max # None THEN {"people_count"} ELSE {})

(* The states of all requested keys; an unrequested one is a MATCH.        *)
Matches(q, v) ==
  [key \in RequestedHardKeys(q) |->
     CASE key = "rendition"    -> "MATCH"
       [] key = "people_count" -> PeopleCountState(q, v["people"].count)
       [] OTHER -> StateForTerms(q.terms[key], Stored(v, key), v["negative_use_cases"])]

Preferred(q) == IF q.preferred # None THEN q.preferred ELSE q.wish

(* Mutant: a preferred rendition hides the other acceptable ones.          *)
PreferredOnly(e, q) ==
  LET there == DOMAIN e.over \cap {q.acceptable[i] : i \in DOMAIN q.acceptable}
  IN  IF q.required \/ Preferred(q) \in there THEN there \cap {Preferred(q)} ELSE there

(* The renditions that are present and acceptable.                         *)
AllowedRenditions(e, q) ==
  LET there == DOMAIN e.over \cap {q.acceptable[i] : i \in DOMAIN q.acceptable}
  IN  IF q.required THEN there \cap {Preferred(q)} ELSE there

(* Their order: the preferred one, then as the request lists them.         *)
RenditionOrder(q, k) ==
  IF k = Preferred(q) THEN 0 ELSE CHOOSE i \in DOMAIN q.acceptable : q.acceptable[i] = k

(* InScope(p, s): placement p belongs to the scope s of a request.         *)
InScope(p, s) ==
  \/ s.kind = "title"      /\ p.scope = "title" /\ p.id \in s.ids
  \/ s.kind = "titles"     /\ p.scope = "title" /\ p.id \in s.ids
  \/ s.kind = "all_titles" /\ p.scope = "title"
  \/ s.kind = "brand"      /\ p.scope = "brand" /\ p.id \in s.ids
  \/ s.kind = "general"    /\ p.scope = "general"
  \/ s.kind = "catalog"    /\ p.scope \in {"title", "brand", "general"}

(* How often the query's words occur, by the weight of the field; not yet  *)
(* divided by their number.                                                *)
Overlap(q, v) ==
  LET Hits(f) == Cardinality(q.query \cap v[f])
  IN  5 * Hits("visual_summary") + 4 * (Hits("search_terms") + Hits("standalone_meaning"))
        + 3 * (Hits("keywords") + Hits("subjects") + Hits("objects") + Hits("actions"))
        + 2 * (Hits("setting") + Hits("visible_emotions") + Hits("relationships"))

(* atlas_local_score as an integer: 20 * |query| * |hard| times the code's *)
(* sum of four components, which orders the assets of one request alike.   *)
Score(q, v, k) ==
  LET states == Matches(q, v)
      hard == Cardinality(DOMAIN states)
      words == IF q.query = {} THEN 1 ELSE Cardinality(q.query)
      matched == Cardinality({key \in DOMAIN states : states[key] = "MATCH"})
      preference == IF k = Preferred(q) THEN 5 ELSE 0
      editorial == IF v["standalone_meaning"] \cup v["search_terms"] # {} THEN 2 ELSE 0
  IN  200 * hard * Overlap(q, v) + 80 * words * matched
        + (preference + editorial) * words * hard

(* One asset in one rendition.                                             *)
Candidate(u, e, q, k) ==
  LET v == Values(e, k)
      states == Matches(q, v)
      unknown == \E key \in DOMAIN states : states[key] = "UNKNOWN"
  IN  [uid |-> u, kind |-> k, score |-> Score(q, v, k),
       high |-> /\ ~unknown
                /\ \/ q.query = {} \/ Overlap(q, v) > 0
                   \/ Cardinality(DOMAIN states) > 1,
       eligible |-> /\ \A key \in DOMAIN states : states[key] # "MISMATCH"
                    /\ q.allow_unknown \/ ~unknown]

(* The choice among one asset's eligible renditions: confidence, then      *)
(* score, then the order of preference.                                    *)
Better(c, d, q) ==
  \/ c.high /\ ~d.high
  \/ c.high = d.high /\ c.score > d.score
  \/ c.high = d.high /\ c.score = d.score /\ RenditionOrder(q, c.kind) < RenditionOrder(q, d.kind)

Best(choices, q) == CHOOSE c \in choices : \A d \in choices \ {c} : Better(c, d, q)

(* The first candidates by score, and by asset_uid among equals.           *)
Ahead(c, d) == c.score > d.score \/ (c.score = d.score /\ c.uid < d.uid)
Rank(c, cs) == 1 + Cardinality({d \in cs : Ahead(d, c)})
Ranked(cs, limit) ==
  [i \in 1..(IF Cardinality(cs) < limit THEN Cardinality(cs) ELSE limit) |->
     CHOOSE c \in cs : Rank(c, cs) = i]

NoAnswer(reason) == [found |-> <<>>, reason |-> reason]

(* The answer to q from a pool, a function from asset_uid to evidence.     *)
(* "raised": the response contract refuses a candidate's evidence.         *)
Choices(u, e, q) == {c \in {Candidate(u, e, q, k) : k \in AllowedRenditions(e, q)} : c.eligible}

Answer(pool, q) ==
  LET ready == {u \in DOMAIN pool : AllowedRenditions(pool[u], q) # {}}
      misfit == \E u \in ready : AllowedRenditions(pool[u], q) \cap pool[u].misfit # {}
      eligible == {Best(Choices(u, pool[u], q), q) :
                     u \in {w \in ready : Choices(w, pool[w], q) # {}}}
      selected == {c \in eligible : q.any_confidence \/ c.high}
  IN  IF DOMAIN pool = {} THEN NoAnswer("no_candidates_in_scope")
      ELSE IF ready = {}    THEN NoAnswer("no_acceptable_rendition")
      ELSE IF misfit        THEN NoAnswer("raised")
      ELSE IF eligible = {} THEN NoAnswer("no_requirement_match")
      ELSE IF selected = {} THEN NoAnswer("no_high_confidence_match")
      ELSE [found |-> Ranked(selected, q.limit), reason |-> None]
================================================================================
