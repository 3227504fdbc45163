------------------------------ MODULE Discovery ------------------------------
(***************************************************************************)
(* Recommendations for one user: the candidate pool, the score and the     *)
(* cursor of the ranking, the interleaving of authors, and the view events *)
(* behind them: an exposure keeps a video out of the pool, a play makes    *)
(* the user's interest known (application/recommendation,                  *)
(* application/exposure and their repositories).                           *)
(*                                                                         *)
(* Popularity and similarity are read or computed anew by every request:   *)
(* each request may find any of them.  The weights of a score are in       *)
(* twentieths.                                                             *)
(***************************************************************************)
EXTENDS Integers, SequencesExt, FiniteSetsExt

CONSTANTS
    Movie,      \* videos, by id; a later one is published later
    Maker,      \* authors
    RecLimit,   \* the page sizes asked for
    PoolFactor, \* candidatePoolMultiplier
    MinPool,    \* minCandidatePoolSize
    MaxPool,    \* maxCandidatePoolSize
    Measure,    \* bound: what a request may find as popularity or similarity
    MaxMeasure, \* bound: the largest of them
    Epsilon,    \* scores closer than this are the same score to a cursor
    MaxViews    \* bound: view events and moderations that have an effect

ASSUME DiscoveryConstants ==
    /\ Movie \subseteq Nat \ {0} /\ Movie # {} /\ IsFiniteSet(Movie)
    /\ RecLimit \cup {PoolFactor, MinPool, MaxPool, Epsilon} \subseteq Nat \ {0}
    /\ {MaxMeasure, MaxViews} \subseteq Nat
    /\ Measure \subseteq [Movie -> 0..MaxMeasure]

VARIABLES
    makerOf,   \* who published a video
    live,      \* videos that are published
    vectored,  \* videos with a row in video_embedding
    exposed,   \* videos with an exposure in the last RecentExposureWindow
    viewed,    \* videos played or completed within positiveEventWindow
    picks      \* the last answer: what was cut from the ranking, and the cursor

discoveryVars == <<makerOf, live, vectored, exposed, viewed, picks>>

-----------------------------------------------------------------------------
\* The score of a candidate: its similarity to the user's interest, its
\* popularity and its freshness, for which its id stands.
RankScore(similarity, hot, fresh, hasUserVector) ==
    IF hasUserVector THEN 14 * similarity + 4 * hot + 2 * fresh
    ELSE 13 * hot + 7 * fresh

ScoreBound == 18 * MaxMeasure + 7 * Max(Movie)

\* The cursor before the first page, and after the last one.
NoCursor == [rank |-> ScoreBound, id |-> 0]

DiscoveryTypeOK ==
    /\ makerOf \in [Movie -> Maker]
    /\ \A S \in {live, vectored, exposed, viewed} : S \subseteq Movie
    /\ picks \in [cut: Seq(Movie), cursor: [rank: 0..ScoreBound, id: Movie \cup {0}]]

DiscoveryInit ==
    /\ makerOf \in [Movie -> Maker]
    /\ live = Movie
    /\ vectored \in {{}, Movie}
    /\ exposed = {}
    /\ viewed = {}
    /\ picks = [cut |-> <<>>, cursor |-> NoCursor]

CandidatePoolLimit(limit) == Min({Max({limit * PoolFactor, MinPool}), MaxPool})

\* The higher measure first, the later video first where they are equal.
Above(n, m, by) == by[n] > by[m] \/ (by[n] = by[m] /\ n > m)

\* sortCandidates
SortCandidates(S, rank) ==
    [i \in 1..Cardinality(S) |->
        CHOOSE m \in S : Cardinality({n \in S : Above(n, m, rank)}) = i - 1]

\* The most popular of the published videos without a recent exposure.
ListCandidatePool(hot, poolLimit) ==
    LET fit == live \ exposed IN
    {m \in fit : Cardinality({n \in fit : Above(n, m, hot)}) < poolLimit}

\* A positive event about a video that has a vector.
LoadUserInterestVector == viewed \cap vectored # {}

\* A video without a vector is like nothing.
LoadVideoVector(m, similarity) == IF m \in vectored THEN similarity[m] ELSE 0

\* rankCandidates: the score of every video.
RankCandidates(similarity, hot) ==
    [m \in Movie |-> RankScore(LoadVideoVector(m, similarity), hot[m], m, LoadUserInterestVector)]

SameScore(a, b) == a - b < Epsilon /\ b - a < Epsilon

\* filterByCursor
PastPick(m, rank, cursor) ==
    \/ cursor = NoCursor
    \/ rank[m] < cursor.rank
    \/ SameScore(rank[m], cursor.rank) /\ m < cursor.id

-----------------------------------------------------------------------------
(* interleaveByAuthor.                                                     *)

\* A pass over candidates: one whose author is the last one's is held back.
Pass(out, candidates) ==
    FoldLeft(LAMBDA acc, m :
               IF acc.out # <<>> /\ makerOf[Last(acc.out)] = makerOf[m]
               THEN [acc EXCEPT !.delayed = Append(@, m)]
               ELSE [acc EXCEPT !.out = Append(@, m)],
             [out |-> out, delayed |-> <<>>], candidates)

\* Mutant: one pass, and what was held back goes last.
AgainOnce(acc) == [out |-> acc.out \o acc.delayed, delayed |-> <<>>]

\* Another pass over what was held back, or its end when a pass places nothing.
Again(acc) ==
    LET next == Pass(acc.out, acc.delayed) IN
    IF Len(next.out) = Len(acc.out)
    THEN [out |-> acc.out \o acc.delayed, delayed |-> <<>>]
    ELSE next

\* Every pass places one candidate at least.
InterleaveByAuthor(candidates) ==
    IF Len(candidates) <= 2 THEN candidates
    ELSE FoldLeft(LAMBDA acc, i : Again(acc), Pass(<<>>, candidates), candidates).out

-----------------------------------------------------------------------------
\* Service.Recommend: the pool, its scores, the cut, and the cursor of the last
\* one before the interleaving.
Recommend(similarity, hot, limit) ==
    LET rank == RankCandidates(similarity, hot)
        pool == ListCandidatePool(hot, CandidatePoolLimit(limit))
        ranked == SortCandidates({m \in pool : PastPick(m, rank, picks.cursor)}, rank)
        cut == SubSeq(ranked, 1, Min({limit, Len(ranked)}))
    IN [cut |-> cut,
        cursor |-> IF Len(ranked) <= limit THEN NoCursor
                   ELSE [rank |-> rank[Last(cut)], id |-> Last(cut)]]

\* The answer.
Sent == InterleaveByAuthor(picks.cut)

\* RecommendStrategy.List: the next page.  Cards are FeedPages'.
ListPicks(limit) ==
    /\ \E similarity, hot \in Measure : picks' = Recommend(similarity, hot, limit)
    /\ UNCHANGED <<makerOf, live, vectored, exposed, viewed>>

-----------------------------------------------------------------------------
(* View events.                                                            *)

\* What NewViewEvent accepts.
EventType == {"exposed", "play", "complete", "skip"}

CountsAsExposure(type) == type = "exposed"

PositiveEventTypes == {"play", "complete"}

Room == Cardinality(exposed) + Cardinality(viewed) + Cardinality(Movie \ live) < MaxViews

\* The transaction of SaveViewEvent: refused unless the video is published.
SaveViewEvent(m, type) ==
    /\ m \in live
    /\ exposed' = IF CountsAsExposure(type) THEN exposed \cup {m} ELSE exposed
    /\ viewed' = IF type \in PositiveEventTypes THEN viewed \cup {m} ELSE viewed

RecordViewEvent(m, type) ==
    /\ Room
    /\ SaveViewEvent(m, type)
    /\ UNCHANGED <<makerOf, live, vectored, picks>>

\* RecentExposureWindow has passed.
ExposureAges(m) ==
    /\ exposed' = exposed \ {m}
    /\ UNCHANGED <<makerOf, live, vectored, viewed, picks>>

\* positiveEventWindow has passed.
InterestAges(m) ==
    /\ viewed' = viewed \ {m}
    /\ UNCHANGED <<makerOf, live, vectored, exposed, picks>>

\* adminUpdateVideo takes a video down, or puts it back.
ModerateMovie(m) ==
    /\ m \in live => Room
    /\ live' = IF m \in live THEN live \ {m} ELSE live \cup {m}
    /\ UNCHANGED <<makerOf, vectored, exposed, viewed, picks>>

DiscoveryNext ==
    \/ \E limit \in RecLimit : ListPicks(limit)
    \/ \E m \in Movie :
          \/ \E type \in EventType : RecordViewEvent(m, type)
          \/ ExposureAges(m) \/ InterestAges(m) \/ ModerateMovie(m)

DiscoverySpec == DiscoveryInit /\ [][DiscoveryNext]_discoveryVars

-----------------------------------------------------------------------------
\* Where a maker follows himself in the answer, only his videos are left.
OnlyAtTheEnd(s) ==
    \A i \in 1..(Len(s) - 1) :
        makerOf[s[i]] = makerOf[s[i + 1]] => \A j \in i..Len(s) : makerOf[s[j]] = makerOf[s[i]]

\* Interleaving loses and repeats no candidate of the cut, whatever the scores,
\* and two videos of one author are neighbours only when nobody else's are left
\* to put between them (interleaveByAuthor).
PicksSpread ==
    LET sent == Sent IN
    /\ ToSet(sent) = ToSet(picks.cut)
    /\ Len(sent) = Len(picks.cut)
    /\ Len(sent) > 2 => OnlyAtTheEnd(sent)
=============================================================================
