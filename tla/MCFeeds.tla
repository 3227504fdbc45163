------------------------------- MODULE MCFeeds -------------------------------
(* What users are shown: follow relations, the following feed, the timeline, *)
(* the hot ranking, the recommendations and their vectors.  The six share no  *)
(* variable: their steps commute, and a behaviour of this module follows one  *)
(* of them.                                                                  *)
EXTENDS FollowGraph, FollowingFeed, FeedPages, HotFeed, Discovery, Embeddings

VARIABLE focus

\* One video scores above the others, or none does.
OneAhead == {[m \in Movie |-> IF m = ahead THEN 1 ELSE 0] : ahead \in {0, 1, 3}}

Init ==
    /\ focus \in {"follows", "following", "timeline", "hot", "picks", "vectors"}
    /\ FollowInit
    /\ FeedInit
    /\ PageInit
    /\ HotInit
    /\ DiscoveryInit
    /\ EmbeddingInit
    /\ focus # "following" => fans = {} /\ crowd = CHOOSE n \in Crowd : TRUE
    /\ focus # "hot" => bucket[0] = NoScores
    /\ focus # "timeline" => posted = {}
    /\ focus # "picks" => makerOf = [m \in Movie |-> CHOOSE a \in Maker : TRUE] /\ vectored = {}
    /\ makerOf[1] = CHOOSE a \in Maker : TRUE

Next ==
    /\ UNCHANGED focus
    /\ \/ /\ focus = "follows"
          /\ FollowNext
          /\ UNCHANGED <<feedVars, pageVars, hotVars, discoveryVars, embeddingVars>>
       \/ /\ focus = "following"
          /\ FeedNext
          /\ UNCHANGED <<followVars, pageVars, hotVars, discoveryVars, embeddingVars>>
       \/ /\ focus = "timeline"
          /\ PageNext
          /\ UNCHANGED <<followVars, feedVars, hotVars, discoveryVars, embeddingVars>>
       \/ /\ focus = "hot"
          /\ HotNext
          /\ UNCHANGED <<followVars, feedVars, pageVars, discoveryVars, embeddingVars>>
       \/ /\ focus = "picks"
          /\ DiscoveryNext
          /\ UNCHANGED <<followVars, feedVars, pageVars, hotVars, embeddingVars>>
       \/ /\ focus = "vectors"
          /\ EmbeddingNext
          /\ UNCHANGED <<followVars, feedVars, pageVars, hotVars, discoveryVars>>

Spec == Init /\ [][Next]_<<focus, followVars, feedVars, pageVars, hotVars, discoveryVars,
                           embeddingVars>>

FeedsTypeOK ==
    FollowTypeOK /\ FeedTypeOK /\ PageTypeOK /\ HotTypeOK /\ DiscoveryTypeOK /\ EmbeddingTypeOK

\* What a recommendation rests on: an answer that is the cut of its ranking, with
\* the authors spread, and vectors of the present texts (interleaveByAuthor,
\* processEvent, GenerateForPublishedVideo).
PicksSound == PicksSpread /\ VectorCurrent

Symmetry == Permutations(Hand) \cup Permutations(Guest) \cup Permutations(Browser)
=============================================================================
