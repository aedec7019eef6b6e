------------------------------- MODULE MCTitleCheck -------------------------------
(* Six assets; revisions that support, contradict, override or lack what   *)
(* the requests ask for.                                                   *)
EXTENDS TitleCheck, TLC

MCTokensOf == [calm |-> {"calm"}, crowd |-> {"crowd"}, both |-> {"calm", "crowd"}, dash |-> {}]

MCPlaceOf == [a \in Assets |->
  CASE a = 7 -> [scope |-> "brand", id |-> "b"]
    [] a = 8 -> [scope |-> "title", id |-> "other"]
    [] OTHER -> [scope |-> "title", id |-> "t"]]
MCProducerId == [a \in Assets |-> IF a = 6 THEN 5 ELSE a]

Nobody == [words |-> {}, count |-> None]
Blank == [f \in TextFields |-> {}] @@ [people |-> Nobody, negative_use_cases |-> {}]
With(fields) == fields @@ Blank

(* w, x: whole; x contradicts in one rendition what the other establishes. *)
(* h: horizontal only, and silent.  b: overrides that the response refuses.*)
(* u: whole evidence, an invalid duration.                                 *)
MCRevisionOf ==
  LET Plain == [horizontal |-> <<>>, vertical |-> <<>>]
  IN [w |-> [base |-> With([search_terms |-> {"calm"}, subjects |-> {"crowd"},
                            people |-> [words |-> {"calm"}, count |-> 2]]),
             over |-> Plain, misfit |-> {}, sound |-> TRUE],
      x |-> [base |-> With([visual_summary |-> {"crowd"}, actions |-> {"calm"},
                            negative_use_cases |-> {"calm"}]),
             over |-> [Plain EXCEPT !.vertical = [negative_use_cases |-> {}, subjects |-> {"crowd"}]],
             misfit |-> {}, sound |-> TRUE],
      h |-> [base |-> Blank, over |-> [horizontal |-> <<>>], misfit |-> {}, sound |-> TRUE],
      b |-> [base |-> With([keywords |-> {"crowd"}]), over |-> Plain,
             misfit |-> {"vertical"}, sound |-> TRUE],
      u |-> [base |-> With([people |-> [words |-> {"crowd"}, count |-> 0]]),
             over |-> Plain, misfit |-> {}, sound |-> FALSE]]

NoTerms == [key \in TermKeys |-> {}]
Title6 == [kind |-> "title", ids |-> {"t"}]
Anything ==
  [query |-> {}, scope |-> Title6, terms |-> NoTerms, count_min |-> None, count_max |-> None,
   acceptable |-> <<"horizontal", "vertical">>, preferred |-> None, required |-> FALSE,
   wish |-> None, allow_unknown |-> FALSE, any_confidence |-> FALSE, limit |-> 2]

Requests ==
  {[Anything EXCEPT !.query = {"calm"}, !.wish = "vertical"],
   [Anything EXCEPT !.query = {"calm", "crowd"}, !.any_confidence = TRUE, !.limit = 1,
                    !.scope = [kind |-> "catalog", ids |-> {}]],
   [Anything EXCEPT !.terms = [NoTerms EXCEPT !.semantic_terms = {"calm"}],
                    !.scope = [kind |-> "all_titles", ids |-> {}]],
   [Anything EXCEPT !.terms = [NoTerms EXCEPT !.actions = {"calm"}], !.preferred = "horizontal"],
   [Anything EXCEPT !.terms = [NoTerms EXCEPT !.subjects = {"both"}],
                    !.allow_unknown = TRUE, !.scope = [kind |-> "titles", ids |-> {"t", "other"}]],
   [Anything EXCEPT !.terms = [NoTerms EXCEPT !.objects = {"dash"}], !.query = {"calm"}],
   [Anything EXCEPT !.terms = [NoTerms EXCEPT !.subjects = {"crowd"}], !.any_confidence = TRUE,
                    !.allow_unknown = TRUE, !.wish = "horizontal"],
   [Anything EXCEPT !.terms = [NoTerms EXCEPT !.people_presentations = {"calm"}],
                    !.count_min = 1, !.scope = [kind |-> "brand", ids |-> {"b"}]],
   [Anything EXCEPT !.count_max = 1, !.allow_unknown = TRUE, !.any_confidence = TRUE],
   [Anything EXCEPT !.acceptable = <<"vertical">>, !.preferred = "vertical", !.required = TRUE],
   [Anything EXCEPT !.scope = [kind |-> "general", ids |-> {}]]}

(* Catalogs of two assets of the title, one of the brand and one of the    *)
(* other title, for every request; a title at and beyond the pool limit.   *)
Filled(rows) == [a \in Assets |-> IF a \in DOMAIN rows THEN rows[a] ELSE NoRow]
Active(r) == [rev |-> r, active |-> TRUE]
Quiet == [damaged |-> {}, staged |-> FALSE]

ClientScenarios ==
  {Quiet @@ [db |-> Filled((1 :> f[1]) @@ (2 :> f[2]) @@ (7 :> f[1]) @@ (8 :> f[2])),
             task |-> q, events |-> 1] :
     f \in [{1, 2} -> {NoRow} \cup {Active(r) : r \in Revisions}], q \in Requests}
  \cup {Quiet @@ [db |-> Filled([a \in 1..n |-> Active("w")]), task |-> Anything, events |-> 1] :
          n \in 4..6}

(* Titles of up to six assets, all whole but at most one.                  *)
VerifyScenarios ==
  {Quiet @@ [db |-> Filled([a \in 1..n |-> IF a = odd THEN row ELSE Active("w")]),
             task |-> Verify, events |-> 1] :
     n \in 0..6, odd \in 1..3,
     row \in {Active(r) : r \in Revisions} \cup {[rev |-> "w", active |-> FALSE]}}
  \cup {Quiet @@ [db |-> Filled([a \in 1..3 |-> Active("w")]), task |-> Verify, events |-> 2]}
  \cup {[db |-> Filled([a \in 1..n |-> Active("x")]), damaged |-> {<<d, "x">>},
         staged |-> s, task |-> Verify, events |-> 1] : n \in 3..4, d \in 1..4, s \in BOOLEAN}

MCScenarios == ClientScenarios \cup VerifyScenarios
================================================================================
