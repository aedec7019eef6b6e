-------------------------------- MODULE TitleCheck --------------------------------
(***************************************************************************)
(* One read-only call against a catalog that ingests keep changing: the    *)
(* search of an API client, or the operator's verify_title_command.        *)
(*                                                                         *)
(* A search is three SELECTs, each of which sees what is committed when it *)
(* runs (READ COMMITTED): the active assets of the scope, their semantics, *)
(* their renditions.  verify_title_command reads the assets of its title,  *)
(* compares them with five searches of the same session, which returns     *)
(* rows it has loaded before as they were then, and reads stored objects.  *)
(***************************************************************************)
EXTENDS Search

CONSTANTS
  Assets,      \* asset_uids, in their order
  PlaceOf,     \* PlaceOf[a]: the placement of a, which never changes
  ProducerId,  \* ProducerId[a]: its producer_asset_id
  Revisions,   \* the revisions of an asset
  RevisionOf,  \* RevisionOf[r]: the rows of revision r
  NoRow,
  Title,       \* the title that is verified
  Verify,      \* the task of an operator, in the place of a request
  SearchLimit, \* the limit of verification's searches
  PoolLimit,   \* pool_limit: assets a scope may have
  Scenarios    \* [db, task, damaged, staged, events]: where behaviours begin

Rows == [rev : Revisions, active : BOOLEAN]
Reasons == {"no_candidates_in_scope", "no_acceptable_rendition", "no_requirement_match",
            "no_high_confidence_match", "raised"}

(* What the request contract lets through.                                 *)
Requestable(q) ==
  /\ IsFiniteSet(q.query) /\ q.limit \in Nat \ {0}
  /\ \A key \in TermKeys : q.terms[key] \subseteq Terms
  /\ q.acceptable \in Seq(Kinds)
  /\ q.preferred # None => \E i \in DOMAIN q.acceptable : q.acceptable[i] = q.preferred
  /\ q.required => q.preferred # None

(* RevisionOf[r].sound: semantics, ingest record, durations and thumbnails *)
(* are all as verification wants them.                                     *)
ASSUME TitleAssumption ==
  /\ Assets \subseteq Nat /\ IsFiniteSet(Assets)
  /\ \A t \in Terms : TokensOf[t] \subseteq Tokens
  /\ DOMAIN RevisionOf = Revisions /\ NoRow \notin Rows
  /\ None \notin Revisions \cup Kinds \cup Reasons \cup {"over capacity"}
  /\ \A r \in Revisions :
       /\ DOMAIN RevisionOf[r].over \in (SUBSET Kinds) \ {{}}
       /\ RevisionOf[r].misfit \subseteq DOMAIN RevisionOf[r].over
       /\ RevisionOf[r].sound \in BOOLEAN
  /\ {SearchLimit, PoolLimit} \subseteq Nat \ {0} /\ SearchLimit <= PoolLimit
  /\ \A s \in Scenarios :
       /\ s.db \in [Assets -> Rows \cup {NoRow}] /\ s.damaged \subseteq Assets \X Revisions
       /\ s.staged \in BOOLEAN /\ s.events \in Nat
       /\ s.task = Verify \/ Requestable(s.task)

VARIABLES
  db,       \* db[a]: [rev, active], or NoRow
  damaged,  \* <<a, r>>: stored objects of revision r of a are lost or corrupt
  staged,   \* something is in the staging area
  task,     \* Verify, or the client's request
  pc,       \* the step of the call
  pool,     \* the assets of the last SELECT of assets
  sem,      \* sem[a]: the revision whose semantics the session holds
  rend,     \* rend[a]: the revision whose renditions the session holds
  expected, \* the assets that verification found in the title
  turn,     \* searches that verification has done
  samples,  \* assets whose stored objects are still to be read
  faulty,   \* verification has a problem to report
  found,    \* the candidates that a client's search returns
  result,   \* the scarcity reason, error or verdict that the call returns
  touched,  \* history: assets written or damaged since the call began
  tame,     \* history: assets only moved from one whole revision to another
  events    \* what is left of the bound on commits and failures

call == <<task, pc, pool, sem, rend, expected, turn, samples, faulty, found, result>>
catalog == <<db, damaged, staged>>
history == <<touched, tame, events>>
vars == <<db, damaged, staged, task, pc, pool, sem, rend, expected, turn, samples,
          faulty, found, result, touched, tame, events>>

Steps == {"select", "semantics", "renditions", "rank", "search", "answer", "rows",
          "sample", "staging", "done"}

TypeOK ==
  /\ db \in [Assets -> Rows \cup {NoRow}] /\ damaged \subseteq Assets \X Revisions
  /\ staged \in BOOLEAN /\ pc \in Steps
  /\ pool \subseteq Assets /\ expected \subseteq Assets /\ samples \subseteq expected
  /\ {sem, rend} \subseteq [Assets -> Revisions \cup {None}]
  /\ turn \in 0..5 /\ faulty \in BOOLEAN
  /\ touched \subseteq Assets /\ tame \in BOOLEAN /\ events \in Nat

Init ==
  /\ \E s \in Scenarios :
       /\ db = s.db /\ damaged = s.damaged /\ staged = s.staged
       /\ task = s.task /\ events = s.events
  /\ pc = "select" /\ pool = {} /\ expected = {} /\ turn = 0 /\ samples = {}
  /\ sem = [a \in Assets |-> None] /\ rend = [a \in Assets |-> None]
  /\ faulty = FALSE /\ found = <<>> /\ result = None
  /\ touched = {} /\ tame = TRUE

----------------------------------------------------------------------------------
(* The call.                                                               *)

TitleScope == [kind |-> "title", ids |-> {Title}]
Placed(scope) == {a \in Assets : db[a] # NoRow /\ InScope(PlaceOf[a], scope)}

(* Mutant: assets of every status are searched.                            *)
AnyStatus(scope) == Placed(scope)

ActiveIn(scope) == {a \in Placed(scope) : db[a].active}

(* A SELECT of a scope's active assets, refused beyond pool_limit.         *)
FetchCandidates(scope, next) ==
  /\ pool' = ActiveIn(scope)
  /\ IF Cardinality(pool') > PoolLimit
       THEN pc' = "done" /\ result' = "over capacity"
       ELSE pc' = next /\ UNCHANGED result

(* Rows that the session holds already are not replaced.                   *)
Load(held, assets) ==
  [a \in Assets |-> IF a \in assets /\ held[a] = None THEN db[a].rev ELSE held[a]]

SelectCandidates ==
  /\ pc = "select" /\ task # Verify
  /\ FetchCandidates(task.scope, "semantics")
  /\ UNCHANGED <<task, sem, rend, expected, turn, samples, faulty, found>>

(* verify title: its assets whatever their status, and their identities.   *)
SelectTitle ==
  /\ pc = "select" /\ task = Verify
  /\ expected' = Placed(TitleScope) /\ pool' = expected'
  /\ faulty' = (\/ expected' = {}
                \/ \E a, b \in expected' : a # b /\ ProducerId[a] = ProducerId[b])
  /\ pc' = "renditions"
  /\ UNCHANGED <<task, sem, rend, turn, samples, result, found>>

SelectSemantics ==
  /\ pc = "semantics"
  /\ sem' = Load(sem, pool)
  /\ pc' = IF task = Verify THEN "search" ELSE "renditions"
  /\ UNCHANGED <<task, pool, rend, expected, turn, samples, faulty, result, found>>

SelectRenditions ==
  /\ pc = "renditions"
  /\ rend' = Load(rend, pool)
  /\ pc' = IF task = Verify THEN "semantics" ELSE "rank"
  /\ UNCHANGED <<task, pool, sem, expected, turn, samples, faulty, result, found>>

Evidence(s, r) ==
  [a \in pool |-> [base |-> RevisionOf[s[a]].base, over |-> RevisionOf[r[a]].over,
                   misfit |-> RevisionOf[r[a]].misfit]]

(* search_assets over the rows read, returned to the client.               *)
RankCandidates ==
  /\ pc = "rank"
  /\ LET answer == Answer(Evidence(sem, rend), task)
     IN  found' = answer.found /\ result' = answer.reason
  /\ pc' = "done"
  /\ UNCHANGED <<task, pool, sem, rend, expected, turn, samples, faulty>>

(* Verification requires horizontal, vertical, either, horizontal, vertical. *)
Required == <<"horizontal", "vertical", None, "horizontal", "vertical">>

SearchRequest(kind) ==
  [query |-> {}, scope |-> TitleScope, terms |-> [key \in TermKeys |-> {}],
   count_min |-> None, count_max |-> None,
   acceptable |-> IF kind = None THEN <<"horizontal", "vertical">> ELSE <<kind>>,
   preferred |-> kind, required |-> kind # None, wish |-> None,
   allow_unknown |-> TRUE, any_confidence |-> TRUE, limit |-> SearchLimit]

SearchTitle ==
  /\ pc = "search"
  /\ FetchCandidates(TitleScope, "answer")
  /\ UNCHANGED <<task, sem, rend, expected, turn, samples, faulty, found>>

(* Assets that are new to the session are loaded; the first two answers    *)
(* are compared with the title's assets, the last three only reported.     *)
CompareAnswer ==
  /\ pc = "answer"
  /\ sem' = Load(sem, pool) /\ rend' = Load(rend, pool)
  /\ turn' = turn + 1
  /\ LET answer == Answer(Evidence(sem', rend'), SearchRequest(Required[turn']))
         uids == {answer.found[i].uid : i \in DOMAIN answer.found}
     IN  IF answer.reason = "raised"
           THEN pc' = "done" /\ result' = "raised" /\ UNCHANGED faulty
           ELSE /\ pc' = CASE turn' = 2 -> "rows" [] turn' = 5 -> "staging" [] OTHER -> "search"
                /\ faulty' = (faulty \/ (turn' <= 2 /\ uids # expected))
                /\ UNCHANGED result
  /\ UNCHANGED <<task, pool, expected, samples, found>>

(* The first, the middle and the last asset of a set.                      *)
Sampled(assets) ==
  LET n == Cardinality(assets)
  IN  {a \in assets : Cardinality({b \in assets : b < a}) \in {0, n \div 2, n - 1}}

CheckRows ==
  /\ pc = "rows"
  /\ faulty' = (faulty \/ \E a \in expected :
                  \/ DOMAIN RevisionOf[rend[a]].over # Kinds
                  \/ ~RevisionOf[rend[a]].sound \/ ~RevisionOf[sem[a]].sound)
  /\ samples' = Sampled(expected)
  /\ pc' = "sample"
  /\ UNCHANGED <<task, pool, sem, rend, expected, turn, result, found>>

(* Mutant: the object stored now is compared with the rows read before.    *)
IntactNow(a) == <<a, rend[a]>> \notin damaged /\ db[a].rev = rend[a]

(* Custody is immutable: a revision's objects stay beside newer ones.      *)
Intact(a) == <<a, rend[a]>> \notin damaged

(* Mutant: verification is content with the first object.                  *)
SampleFirst ==
  /\ pc = "sample"
  /\ IF samples = {} THEN pc' = "search" /\ UNCHANGED <<samples, faulty>>
     ELSE \E a \in samples :
            /\ \A b \in samples : a <= b
            /\ samples' = {}
            /\ faulty' = (faulty \/ ~Intact(a))
            /\ UNCHANGED pc
  /\ UNCHANGED <<task, pool, sem, rend, expected, turn, result, found>>

SampleObjects ==
  /\ pc = "sample"
  /\ IF samples = {} THEN pc' = "search" /\ UNCHANGED <<samples, faulty>>
     ELSE \E a \in samples :
            /\ \A b \in samples : a <= b
            /\ samples' = samples \ {a}
            /\ faulty' = (faulty \/ ~Intact(a))
            /\ UNCHANGED pc
  /\ UNCHANGED <<task, pool, sem, rend, expected, turn, result, found>>

(* After the session; a staging area that cannot be listed is a problem.   *)
CheckStaging ==
  /\ pc = "staging"
  /\ \/ result' = (IF faulty \/ staged THEN "FAILED" ELSE "PASS") /\ UNCHANGED history
     \/ /\ events > 0 /\ events' = events - 1 /\ tame' = FALSE /\ UNCHANGED touched
        /\ result' = "FAILED"
  /\ pc' = "done"
  /\ UNCHANGED <<task, pool, sem, rend, expected, turn, samples, faulty, found>>

----------------------------------------------------------------------------------
(* Meanwhile.                                                              *)
Whole(r) == DOMAIN RevisionOf[r].over = Kinds /\ RevisionOf[r].misfit = {} /\ RevisionOf[r].sound

Happens(assets, calm) ==
  /\ pc # "done" /\ events > 0
  /\ events' = events - 1
  /\ touched' = touched \cup assets
  /\ tame' = (tame /\ calm)
  /\ UNCHANGED call

(* An ingest commits a new asset, a new revision, or a replay; all of them *)
(* leave the asset active.                                                 *)
CatalogRevision(a, r) ==
  /\ db[a] # [rev |-> r, active |-> TRUE]
  /\ db' = [db EXCEPT ![a] = [rev |-> r, active |-> TRUE]]
  /\ Happens({a}, IF db[a] = NoRow THEN FALSE
                  ELSE db[a].active /\ Whole(db[a].rev) /\ Whole(r))
  /\ UNCHANGED <<damaged, staged>>

(* Nothing in the code sets another status; an operator may.               *)
Deactivate(a) ==
  /\ db[a] # NoRow /\ db[a].active
  /\ db' = [db EXCEPT ![a] = [rev |-> db[a].rev, active |-> FALSE]]
  /\ Happens({a}, FALSE)
  /\ UNCHANGED <<damaged, staged>>

DamageObjects(a) ==
  /\ db[a] # NoRow
  /\ damaged' = damaged \cup {<<a, db[a].rev>>}
  /\ Happens({a}, FALSE)
  /\ UNCHANGED <<db, staged>>

ChangeStaging == staged' = ~staged /\ Happens({}, FALSE) /\ UNCHANGED <<db, damaged>>

Read ==
  \/ SelectCandidates \/ SelectTitle \/ SelectSemantics \/ SelectRenditions
  \/ RankCandidates \/ SearchTitle \/ CompareAnswer \/ CheckRows \/ SampleObjects

Next ==
  \/ Read /\ UNCHANGED catalog /\ UNCHANGED history
  \/ CheckStaging /\ UNCHANGED catalog
  \/ \E a \in Assets : Deactivate(a) \/ DamageObjects(a)
  \/ \E a \in Assets, r \in Revisions : CatalogRevision(a, r)
  \/ ChangeStaging

Spec == Init /\ [][Next]_vars

----------------------------------------------------------------------------------
(* What a request and an asset's rows mean, without an algorithm.          *)
Says(r, k, f) == IF f \in DOMAIN r.over[k] THEN r.over[k][f] ELSE r.base[f]

Contradicted(r, k, q) ==
  \/ \E key \in TermKeys, w \in Tokens :
       w \in Asked(q.terms[key]) /\ w \in Says(r, k, "negative_use_cases")
  \/ LET n == Says(r, k, "people").count
     IN  n # None /\ (\/ q.count_min # None /\ n < q.count_min
                      \/ q.count_max # None /\ n > q.count_max)

Established(r, k, q) ==
  /\ \A key \in TermKeys : \A w \in Asked(q.terms[key]) :
       IF key = "people_presentations" THEN w \in Says(r, k, "people").words
       ELSE \E f \in IF key = "semantic_terms" THEN TextFields ELSE {key} : w \in Says(r, k, f)
  /\ q.count_min # None \/ q.count_max # None => Says(r, k, "people").count # None

Acceptable(r, q) ==
  {k \in DOMAIN r.over : /\ \E i \in DOMAIN q.acceptable : q.acceptable[i] = k
                         /\ q.required => k = q.preferred}

Requires(q) ==
  \/ \E key \in TermKeys : q.terms[key] # {}
  \/ q.count_min # None \/ q.count_max # None

(* The renditions in which revision r may answer q, and those that do so   *)
(* with confidence: all that is required is established, and what is asked *)
(* for in passing, if anything, is at least mentioned.                     *)
Eligible(r, q) ==
  {k \in Acceptable(r, q) : /\ ~Contradicted(r, k, q)
                            /\ q.allow_unknown \/ Established(r, k, q)}
Confident(r, q) ==
  {k \in Eligible(r, q) : /\ Established(r, k, q)
                          /\ \/ q.query = {} \/ Requires(q)
                             \/ \E f \in TextFields : q.query \cap Says(r, k, f) # {}}

(* Every requested term has a word.  One that has none is no claim to the  *)
(* code, which takes it as a match.                                        *)
Worded(q) == \A key \in TermKeys : \A t \in q.terms[key] : TokensOf[t] # {}

(* The rendition to offer: a confident one if there is one.                *)
Offers(r, q) ==
  IF Confident(r, q) # {} THEN Confident(r, q)
  ELSE IF q.any_confidence THEN Eligible(r, q) ELSE {}

RowsOf(a) == RevisionOf[db[a].rev]
Searched == pc = "done" /\ task # Verify
Answered == Searched /\ result \notin {"over capacity", "raised"}

----------------------------------------------------------------------------------
(* Properties.                                                             *)

(* Whatever ingests commit between the three SELECTs of a search whose     *)
(* terms all have a word, it is right about every asset that they leave    *)
(* alone: such an asset is offered                                         *)
(* only if its evidence contradicts no requirement, and only in an         *)
(* acceptable rendition, a confident one if there is one; and if it can be *)
(* offered it is, unless the answer is as long as the request allows.      *)
(* Preferences and scores never decide whether it is.                      *)
AnswerIsExact ==
  Answered /\ Worded(task) =>
    \A a \in Assets \ touched :
      LET at == {i \in DOMAIN found : found[i].uid = a}
          offers == IF a \in ActiveIn(task.scope) THEN Offers(RowsOf(a), task) ELSE {}
      IN  /\ Cardinality(at) <= 1
          /\ \A i \in at : /\ found[i].kind \in offers
                          /\ found[i].high <=> Confident(RowsOf(a), task) # {}
          /\ offers # {} /\ Len(found) < task.limit => at # {}

(* A search that nothing disturbs says why it has nothing to offer: the    *)
(* first of the four reasons that applies (whether an asset matches is     *)
(* asked of requests whose terms have words).  It refuses a scope exactly  *)
(* when it is beyond the pool limit, and it fails as a whole exactly when  *)
(* an acceptable rendition carries overrides of a shape that the response  *)
(* cannot hold.                                                            *)
ScarcityIsHonest ==
  Searched /\ touched = {} =>
    LET scope == ActiveIn(task.scope)
        ready == {a \in scope : Acceptable(RowsOf(a), task) # {}}
        fits == \A a \in ready : RowsOf(a).misfit \cap Acceptable(RowsOf(a), task) = {}
    IN  /\ result = "over capacity" <=> Cardinality(scope) > PoolLimit
        /\ result # "over capacity" =>
             /\ (found = <<>>) <=> (result # None)
             /\ result = "raised" <=> ~fits
             /\ result = "no_candidates_in_scope" <=> scope = {}
             /\ result = "no_acceptable_rendition" <=> scope # {} /\ ready = {}
             /\ result = "no_requirement_match" /\ Worded(task) =>
                  \A a \in ready : Eligible(RowsOf(a), task) = {}
             /\ result = "no_high_confidence_match" /\ Worded(task) =>
                  /\ \E a \in ready : Eligible(RowsOf(a), task) # {}
                  /\ \A a \in ready : Confident(RowsOf(a), task) = {}

(* The title is as verify title wants it, and no larger than the searches  *)
(* of verification can return.                                             *)
Healthy ==
  LET title == Placed(TitleScope)
  IN  /\ title # {} /\ Cardinality(title) <= SearchLimit /\ ~staged
      /\ \A a, b \in title : ProducerId[a] = ProducerId[b] => a = b
      /\ \A a \in title : db[a].active /\ Whole(db[a].rev)
      /\ \A a \in Sampled(title) : <<a, db[a].rev>> \notin damaged

(* A verification that nothing disturbs passes exactly the healthy titles. *)
(* It ends in an error, not a verdict, for a title beyond the pool limit   *)
(* and for one whose overrides search cannot report.                       *)
CleanVerdictIsExact ==
  pc = "done" /\ task = Verify /\ touched = {} /\ tame =>
    /\ result = "PASS" <=> Healthy
    /\ result \in {"over capacity", "raised"} =>
         \/ Cardinality(Placed(TitleScope)) > PoolLimit
         \/ \E a \in Placed(TitleScope) : RowsOf(a).misfit # {}

(* Ingests that replace whole revisions by whole revisions while a title   *)
(* is verified never make it fail; and whatever happens meanwhile, of the  *)
(* assets that it leaves alone a title that passes holds none that is      *)
(* incomplete or inactive, and none with damaged objects where the first,  *)
(* middle and last of the assets it began with are sampled.  Every         *)
(* variable keeps its type.                                                *)
VerdictSurvivesRevisions ==
  /\ TypeOK
  /\ pc = "done" /\ task = Verify =>
       /\ tame /\ Healthy /\ damaged = {} => result = "PASS"
       /\ result = "PASS" =>
            LET steady == Placed(TitleScope) \ touched
            IN  /\ Cardinality(steady) <= SearchLimit
                /\ \A a \in steady : db[a].active /\ Whole(db[a].rev)
                /\ \A a \in Sampled(expected) \ touched : <<a, db[a].rev>> \notin damaged
================================================================================
