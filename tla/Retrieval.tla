----------------------------- MODULE Retrieval -----------------------------
(* Queries over one or several collections (services/retrieval, routers/      *)
(* query.py): a cached outcome, or a search of the vector store by meaning,   *)
(* by words or by both, fused, reranked, cut and merged, while ingestion adds *)
(* and removes chunks.                                                        *)
EXTENDS Naturals, Sequences, FiniteSets, SequencesExt

CONSTANTS
  Chunks,      \* numbered by what the vector store ranks first on equal scores
  Home,        \* the collection of a chunk
  Meaning,     \* the score of a chunk in a search by meaning, in halves
  Terms,       \* the words of the query
  WordCounts,  \* how many of them each chunk may have
  Targets,     \* the sets of collections that are asked
  PoolFactor,  \* how many times top_k a hybrid search asks for
  MaxQueries, MaxChanges, MaxFaults

Collections == {Home[c] : c \in Chunks}
Modes == {"semantic", "keyword", "hybrid"}

\* reciprocal_rank_fusion with k = 60, as integers: the sum of two firsts is One.
Scale == 61 * 62 * 63
Reciprocal(rank) == Scale \div (60 + rank)
One == 2 * Reciprocal(1)
Halves(n) == n * Reciprocal(1)

VARIABLES
  words,    \* how many of the words of the query a chunk has
  index,    \* the chunks in the vector store
  query,    \* the request
  part,     \* the retrieval of each collection
  reply,    \* the answer
  saved,    \* the cached outcomes
  seen,     \* the chunks that were there at some time since the request
  asked, changes, faults

retrievalVars == <<words, index, query, part, reply, saved, seen, asked, changes, faults>>

Queries ==
  [mode : Modes, k : 1..2, min : {0, One \div 2 + 1}, rerank : BOOLEAN,
   allowed : {Chunks, Chunks \ {1}}, over : Targets]

Hit(id, score, by) == [id |-> id, score |-> score, by |-> by]
NoPart == [pc |-> "idle", first |-> <<>>, second |-> <<>>, out |-> <<>>, fell |-> FALSE, fresh |-> TRUE]
NoOutcome == [of |-> {}, out |-> <<>>, fell |-> FALSE, seen |-> {}]

TypeOK ==
  /\ words \in WordCounts
  /\ index \subseteq Chunks /\ seen \subseteq Chunks
  /\ query \in [mode : Modes, k : 1..2, min : {0, One \div 2 + 1}, rerank : BOOLEAN,
               allowed : SUBSET Chunks, over : SUBSET Collections]
  /\ DOMAIN part = Collections
  /\ \A c \in Collections :
       part[c].pc \in {"idle", "search", "words", "rerank", "finish", "done", "failed"}
  /\ reply.status \in {"none", "running", "ok", "error"}
  /\ DOMAIN saved = Collections

Init ==
  /\ words \in WordCounts
  /\ index = Chunks
  /\ query = [mode |-> "semantic", k |-> 1, min |-> 0, rerank |-> FALSE, allowed |-> Chunks,
              over |-> Collections]
  /\ part = [c \in Collections |-> NoPart]
  /\ reply = [status |-> "none", hits |-> <<>>]
  /\ saved = [c \in Collections |-> NoOutcome]
  /\ seen = {} /\ asked = 0 /\ changes = 0 /\ faults = 0

---------------------------------------------------------------------------
(* Rankings.                                                                  *)

First(s, n) == SubSeq(s, 1, IF Len(s) < n THEN Len(s) ELSE n)
Ids(hits) == {hits[i].id : i \in DOMAIN hits}
Position(hits, id) == CHOOSE i \in DOMAIN hits : hits[i].id = id

\* list.sort on the score, descending: equal ones keep their order.
Sorted(hits) ==
  LET before(i, j) == hits[i].score > hits[j].score \/ (hits[i].score = hits[j].score /\ i < j)
      order == SetToSortSeq(DOMAIN hits, before)
  IN  [i \in DOMAIN hits |-> hits[order[i]]]

\* What a search finds in a collection under the filter, in the order of the store.
Found(c) ==
  SetToSortSeq({x \in index \cap query.allowed : Home[x] = c}, LAMBDA a, b : a < b)

ByMeaning(c, n) ==
  First(Sorted([i \in DOMAIN Found(c) |-> Hit(Found(c)[i], Halves(Meaning[Found(c)[i]]), "meaning")]), n)

\* keyword_score: the share of the words of the query.
KeywordScore(chunk) == (One * words[chunk]) \div Terms

\* The store has its own order; the hits are scored by the words that they have.
ByWords(c, n) ==
  LET raw == First(Found(c), n)
      hits == [i \in DOMAIN raw |-> Hit(raw[i], KeywordScore(raw[i]), "words")]
  IN  Sorted(SelectSeq(hits, LAMBDA h : h.score > 0))

RankScore(hits, id) == IF id \in Ids(hits) THEN Reciprocal(Position(hits, id)) ELSE 0
Fused(a, b) ==
  LET all == a \o SelectSeq(b, LAMBDA h : h.id \notin Ids(a))
  IN  Sorted([i \in DOMAIN all |->
                Hit(all[i].id, RankScore(a, all[i].id) + RankScore(b, all[i].id), "fusion")])

---------------------------------------------------------------------------
(* The request.                                                               *)

Kind(q) == [q EXCEPT !.over = {}]
Running == reply.status = "running"

\* serve_from_cache, for each collection: an outcome, unless the cache is skipped.
Ask(q) ==
  /\ ~\E c \in Collections : part[c].pc \in {"search", "words", "rerank", "finish"}
  /\ ~Running /\ asked < MaxQueries /\ asked' = asked + 1
  /\ query' = q
  /\ reply' = [status |-> "running", hits |-> <<>>]
  /\ \E hits \in SUBSET {c \in q.over : saved[c].of = {Kind(q)}} :
       /\ part' = [c \in Collections |->
            IF c \in hits THEN [NoPart EXCEPT !.pc = "done", !.out = saved[c].out, !.fell = saved[c].fell]
            ELSE IF c \in q.over THEN [NoPart EXCEPT !.pc = "search"] ELSE NoPart]
       /\ seen' = index \cup UNION {saved[c].seen : c \in hits}
  /\ UNCHANGED <<words, index, saved, changes, faults>>

Set(c, new) == part' = [part EXCEPT ![c] = new]
Pool == query.k * PoolFactor

\* run_search_mode: one search, or two at once whose answers come one by one.
Search(c) ==
  /\ part[c].pc = "search"
  /\ CASE query.mode = "semantic" ->
            Set(c, [part[c] EXCEPT !.pc = "rerank", !.out = ByMeaning(c, query.k)])
       [] query.mode = "keyword" ->
            Set(c, [part[c] EXCEPT !.pc = "rerank", !.out = First(ByWords(c, query.k), query.k)])
       [] query.mode = "hybrid" ->
            Set(c, [part[c] EXCEPT !.pc = "words", !.first = ByMeaning(c, Pool)])
  /\ UNCHANGED <<words, index, query, reply, saved, seen, asked, changes, faults>>

SearchWords(c) ==
  /\ part[c].pc = "words"
  /\ LET second == ByWords(c, Pool)
     IN  Set(c, [part[c] EXCEPT !.pc = "rerank", !.second = second,
                                !.out = First(Fused(part[c].first, second), query.k)])
  /\ UNCHANGED <<words, index, query, reply, saved, seen, asked, changes, faults>>

\* apply_reranking: new scores for the same hits, or, on any error, the old ones.
Rerank(c) ==
  /\ part[c].pc = "rerank"
  /\ IF query.rerank /\ part[c].out # <<>>
       THEN \/ \E score \in [Ids(part[c].out) -> {Halves(0), Halves(2)}] :
                 /\ Set(c, [part[c] EXCEPT !.pc = "finish",
                      !.out = Sorted([i \in DOMAIN part[c].out |->
                                        Hit(part[c].out[i].id, score[part[c].out[i].id], "rerank")])])
                 /\ UNCHANGED faults
            \/ /\ faults < MaxFaults /\ faults' = faults + 1
               /\ Set(c, [part[c] EXCEPT !.pc = "finish", !.fell = TRUE])
       ELSE Set(c, [part[c] EXCEPT !.pc = "finish"]) /\ UNCHANGED faults
  /\ UNCHANGED <<words, index, query, reply, saved, seen, asked, changes>>

\* The cut, the minimum, and the outcome for the cache, under the epoch that the
\* lookup saw; nothing is stored when the cache is skipped.
Finish(c) ==
  /\ part[c].pc = "finish"
  /\ LET out == SelectSeq(First(part[c].out, query.k), LAMBDA h : h.score >= query.min)
     IN  /\ Set(c, [part[c] EXCEPT !.pc = "done", !.out = out])
         /\ \/ UNCHANGED saved
            \/ /\ part[c].fresh
               /\ saved' = [saved EXCEPT ![c] = [of |-> {Kind(query)}, out |-> out,
                                                fell |-> part[c].fell, seen |-> seen]]
  /\ UNCHANGED <<words, index, query, reply, seen, asked, changes, faults>>

\* An error of one search ends the request; the others go on for the cache.
Fail(c) ==
  /\ part[c].pc \in {"search", "words"} /\ faults < MaxFaults /\ faults' = faults + 1
  /\ Set(c, [part[c] EXCEPT !.pc = "failed"])
  /\ reply' = [status |-> "error", hits |-> <<>>]
  /\ UNCHANGED <<words, index, query, saved, seen, asked, changes>>

\* retrieve_multi gathers the outcomes in the order of the collections, sorts
\* them by score and cuts again; one collection alone is left as it is.
Joined(f) == FoldSeq(LAMBDA c, hits : hits \o f[c], <<>>, SetToSeq(query.over))
(* Mutant of Answer: the outcomes are joined and not sorted again.            *)
AnswerUnsorted ==
  /\ Running /\ \A c \in query.over : part[c].pc = "done"
  /\ reply' = [status |-> "ok", hits |-> First(Joined([c \in query.over |-> part[c].out]), query.k)]
  /\ UNCHANGED <<words, index, query, part, saved, seen, asked, changes, faults>>

Answer ==
  /\ Running /\ \A c \in query.over : part[c].pc = "done"
  /\ LET all == Joined([c \in query.over |-> part[c].out])
     IN  reply' = [status |-> "ok",
                   hits |-> IF Cardinality(query.over) = 1 THEN all ELSE First(Sorted(all), query.k)]
  /\ UNCHANGED <<words, index, query, part, saved, seen, asked, changes, faults>>

\* Ingestion and deletion: a new epoch of the collection.
Change(x) ==
  /\ changes < MaxChanges /\ changes' = changes + 1
  /\ index' = IF x \in index THEN index \ {x} ELSE index \cup {x}
  /\ seen' = seen \cup index'
  /\ saved' = [saved EXCEPT ![Home[x]] = NoOutcome]
  /\ part' = [part EXCEPT ![Home[x]].fresh = FALSE]
  /\ UNCHANGED <<words, query, reply, asked, faults>>

\* A bound: later requests ask the same again, of the cache.
Next ==
  \/ \E q \in (IF asked = 0 THEN Queries ELSE {query}) : Ask(q)
  \/ \E c \in Collections : Search(c) \/ SearchWords(c) \/ Rerank(c) \/ Finish(c) \/ Fail(c)
  \/ Answer
  \/ \E x \in Chunks : Change(x)

---------------------------------------------------------------------------
(* Properties.                                                                *)

Hits == reply.hits
Descending(hits) == \A i, j \in DOMAIN hits : i < j => hits[i].score >= hits[j].score

\* An answer has at most top_k hits, none twice, the best first, each above the
\* minimum, inside the filter and in the index at some time of the request (or
\* of the one that filled the cache); and no better hit of a collection is left
\* out of a merged answer.
AnswerSound ==
  reply.status = "ok" =>
    /\ Len(Hits) <= query.k /\ Cardinality(Ids(Hits)) = Len(Hits)
    /\ Descending(Hits)
    /\ \A i \in DOMAIN Hits : Hits[i].score >= query.min
    /\ Ids(Hits) \subseteq query.allowed \cap seen
    /\ \A c \in query.over : \A i \in DOMAIN part[c].out :
         part[c].out[i].id \notin Ids(Hits) =>
           Len(Hits) = query.k /\ Hits[query.k].score >= part[c].out[i].score

\* A hit that both searches rank first is the first of the fusion, with the full
\* score; one that has fallen out of the index between them has at most half.
FusionSound ==
  \A c \in Collections :
    part[c].pc = "rerank" /\ query.mode = "hybrid" /\ part[c].first # <<>> /\ part[c].second # <<>> =>
      LET a == part[c].first[1].id
          b == part[c].second[1].id
          top == part[c].out[1]
      IN  /\ (a = b) => top.id = a
          /\ (top.score = One) <=> (a = b)
          /\ \A i \in DOMAIN part[c].out :
               part[c].out[i].id \notin Ids(part[c].first) \cap Ids(part[c].second) =>
                 2 * part[c].out[i].score <= One

\* An answer that should be reranked and is not comes of a failure, of this
\* request or of the one that filled the cache.
RerankHasCause ==
  reply.status = "ok" /\ query.rerank =>
    \A i \in DOMAIN Hits : Hits[i].by # "rerank" => faults > 0 /\ part[Home[Hits[i].id]].fell

\* All of it.
AnswersSound == AnswerSound /\ FusionSound /\ RerankHasCause
=============================================================================
