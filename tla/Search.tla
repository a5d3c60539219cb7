------------------------------- MODULE Search -------------------------------
(***************************************************************************)
(* What /v1/search/suggest and /v1/search/full find in the index that      *)
(* Directory keeps.  Both read reverse_index first and then the rows of    *)
(* `employees` with the ids they chose.                                    *)
(*                                                                         *)
(* A query is what SplitBySpaces makes of a search key: a sequence of      *)
(* words in lower case, the last of which /v1/search/suggest takes for the *)
(* beginning of one.                                                       *)
(***************************************************************************)
EXTENDS Directory, FiniteSets, Functions

CONSTANTS
  Queries,     \* sequences of full words that clients search for
  Beginnings,  \* what the last word of a query to suggest can be
  StartsWith,  \* <<key, beginning>>: key LIKE '<beginning>%'
  Similarity,  \* word, key -> pg_trgm's similarity in hundredths
  Limits       \* what clients set as `limit`

Words == UNION {Range(q) : q \in Queries}

ASSUME SearchAssumption ==
  /\ \A words \in Queries : words \in Seq(Words)
  /\ StartsWith \subseteq Values \X Beginnings
  /\ Similarity \in [Words \X Values -> 0 .. 100]
  /\ Limits \subseteq Nat \ {0}

----------------------------------------------------------------------------
(* /v1/search/suggest, with a limit that is not reached *)

\* Mutant: the sets of the full words are joined, not intersected.
GetSuggestIds_Union(id_sets, suggest_ids, n_keys) ==
  IF Cardinality(id_sets) # n_keys - 1 THEN {}
  ELSE {l \in UNION suggest_ids :
          id_sets # {} => \E row \in id_sets : l \in row[2]}

\* GetSuggestIds: `id_sets` has a row for each key among the full words, and
\* nobody is suggested unless there are as many of them as words.
GetSuggestIds(id_sets, suggest_ids, n_keys) ==
  IF Cardinality(id_sets) # n_keys - 1 THEN {}
  ELSE {l \in UNION suggest_ids : \A row \in id_sets : l \in row[2]}

Rows(keys) == {<<k, index[k]>> : k \in {v \in Values \cap keys : index[v] # {}}}

Suggest(words, beginning) ==
  GetSuggestIds(Rows(Range(words)),
                {index[k] : k \in {v \in Values : <<v, beginning>> \in StartsWith}},
                Len(words) + 1)
    \cap DOMAIN employees

----------------------------------------------------------------------------
(* /v1/search/full *)

Threshold == 40   \* similarity(search_key, key) > 0.4

Weight(word, key) ==
  IF Similarity[word, key] > Threshold THEN Similarity[word, key] ELSE 0

\* How well an id with these keys matches a query: the sum over all pairs.
Score(words, keys) ==
  MapThenSumSet(LAMBDA pair : Weight(words[pair[1]], pair[2]),
                (DOMAIN words) \X keys)

KeysFor(l) == {k \in Values : l \in index[k]}

\* Mutant: the comparison of the sort is turned around.
GetIds_WorstFirst(words, limit) ==
  LET known == {l \in UNION {index[k] : k \in Values} : Score(words, KeysFor(l)) > 0}
      size  == Min({limit, Cardinality(known)}) IN
    {best \in SUBSET known :
       /\ Cardinality(best) = size
       /\ \A l \in best, m \in known \ best :
            Score(words, KeysFor(l)) <= Score(words, KeysFor(m))}

\* GetIds: the `limit` best of the ids the index knows, whichever comes first
\* of those that match as well as each other.
GetIds(words, limit) ==
  LET known == {l \in UNION {index[k] : k \in Values} : Score(words, KeysFor(l)) > 0}
      size  == Min({limit, Cardinality(known)}) IN
    {best \in SUBSET known :
       /\ Cardinality(best) = size
       /\ \A l \in best, m \in known \ best :
            Score(words, KeysFor(l)) >= Score(words, KeysFor(m))}

FullSearch(words, limit) == {best \cap DOMAIN employees : best \in GetIds(words, limit)}

----------------------------------------------------------------------------
(* Properties, about the index as tasks of several calls have left it *)

Holds(l) == KeysOf(employees[l].values)

Distinct(words) == \A i, j \in DOMAIN words : words[i] = words[j] => i = j

\* When every call has returned and every task has run, suggest answers with
\* the employees whose rows hold every full word and a value with the given
\* beginning, unless a full word is repeated.
SuggestFollowsEdits ==
  Quiet => \A words \in {q \in Queries : Distinct(q)}, b \in Beginnings :
    Suggest(words, b) =
      {l \in DOMAIN employees :
         /\ Range(words) \subseteq Holds(l)
         /\ \E k \in Holds(l) : <<k, b>> \in StartsWith}

\* Then a full search leaves an employee who matches out only when its answer
\* is full of employees who match at least as well, by what their rows hold.
FullSearchFindsBest ==
  Quiet => \A words \in Queries \ {<<>>}, limit \in Limits :
    \A answer \in FullSearch(words, limit), l \in DOMAIN employees :
      Score(words, Holds(l)) > 0 /\ l \notin answer =>
        /\ Cardinality(answer) = limit
        /\ \A m \in answer : Score(words, Holds(m)) >= Score(words, Holds(l))

=============================================================================
