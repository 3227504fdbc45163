------------------------------- MODULE HotFeed -------------------------------
(***************************************************************************)
(* The hot ranking: minute buckets, the cached window that sums them, and  *)
(* readers who page through a window by offset (HotStrategy in             *)
(* application/feed/service.go, infra/cache/feed_cache.go, ListHotPage in  *)
(* persistence/feed/gorm.go).                                              *)
(*                                                                         *)
(* A window is built by whoever misses it: a ZUNIONSTORE, and a second     *)
(* call that drops what does not score and sets the TTL.  Nothing joins    *)
(* two builders, and the minute a window ends with is still being written. *)
(***************************************************************************)
EXTENDS Integers, SequencesExt, FiniteSetsExt

CONSTANTS
    Song,         \* videos, by id
    Browser,      \* readers of the ranking
    HotLimit,     \* videos on a page
    WindowSpan,   \* hotWindowMinutes
    LastMinute,   \* bound: the clock
    MaxHeat,      \* bound: interactions
    MaxOutages    \* bound: Redis calls that fail

ASSUME HotConstants ==
    /\ Song \subseteq Nat \ {0} /\ IsFiniteSet(Song)
    /\ {HotLimit, WindowSpan} \subseteq Nat \ {0}
    /\ {LastMinute, MaxHeat, MaxOutages} \subseteq Nat

VARIABLES
    minute,   \* the current minute
    bucket,   \* feed:hot:minute: the scores of the videos it names
    window,   \* feed:hot:window by the minute it ends with
    browser,  \* readers between two of their calls
    heat, outages,
    builds    \* history: the scores each window was ever built from

hotVars == <<minute, bucket, window, browser, heat, outages, builds>>

-----------------------------------------------------------------------------
Minute == 0..LastMinute

IsScores(f) == DOMAIN f \subseteq Song /\ f \in [DOMAIN f -> Int]

NoScores == [s \in {} |-> 0]

\* The key does not exist.
NoWindow == [pc |-> "none"]

\* A window whose second call has not been made has no TTL.
IsWindow(w) == w.pc \in {"raw", "cached"} /\ IsScores(w.scores) /\ DOMAIN w.scores # {}

\* end, offset: the cursor of a window; below: the cursor of MySQL's ranking.
IdleBrowser == [pc |-> "idle", source |-> "none", end |-> 0, offset |-> 0, below |-> <<>>,
                seen |-> <<>>]

BrowserState ==
    [pc: {"idle", "union", "trim", "range", "repo", "done"},
     source: {"none", "window", "mysql"},
     end: Minute, offset: Nat, below: Seq(Int), seen: Seq(Song)]

HotTypeOK ==
    /\ minute \in Minute
    /\ \A m \in Minute : IsScores(bucket[m])
    /\ \A m \in Minute : window[m] = NoWindow \/ IsWindow(window[m])
    /\ browser \in [Browser -> BrowserState]
    /\ heat \in 0..MaxHeat
    /\ outages \in 0..MaxOutages
    /\ \A m \in Minute : IsFiniteSet(builds[m]) /\ \A f \in builds[m] : IsScores(f)

HotInit ==
    /\ minute = 0
    /\ \E first \in {NoScores, [s \in Song |-> 1]} :
          bucket = [m \in Minute |-> IF m = 0 THEN first ELSE NoScores]
    /\ window = [m \in Minute |-> NoWindow]
    /\ browser = [b \in Browser |-> IdleBrowser]
    /\ heat = 0
    /\ outages = 0
    /\ builds = [m \in Minute |-> {}]

-----------------------------------------------------------------------------
\* The scores of two sorted sets added up.
Plus(f, g) ==
    [s \in DOMAIN f \cup DOMAIN g |->
        (IF s \in DOMAIN f THEN f[s] ELSE 0) + (IF s \in DOMAIN g THEN g[s] ELSE 0)]

\* ZUNIONSTORE over hotWindowMinuteKeys: the window's last minute included.
Union(end) ==
    FoldSet(LAMBDA m, f : Plus(bucket[m], f), NoScores,
            {m \in Minute : m <= end /\ m > end - WindowSpan})

\* ZREVRANGE: by score, then by member; hotRankMember pads the id.
Higher(f, a, b) == f[a] > f[b] \/ (f[a] = f[b] /\ a > b)

Ranked(S, f) ==
    [i \in 1..Cardinality(S) |->
        CHOOSE s \in S : Cardinality({t \in S : Higher(f, t, s)}) = i - 1]

\* The popularity MySQL keeps: all interactions.
HotScore == FoldSet(LAMBDA m, f : Plus(bucket[m], f), [s \in Song |-> 0], Minute)

\* What a sorted set without members is.
Keyed(pc, f) == IF DOMAIN f = {} THEN NoWindow ELSE [pc |-> pc, scores |-> f]

Positive(f) == [s \in {t \in DOMAIN f : f[t] > 0} |-> f[s]]

-----------------------------------------------------------------------------
\* AddHotScore: an interaction, or one taken back.
AddHotScore(s, delta) ==
    /\ heat < MaxHeat
    /\ heat' = heat + 1
    /\ bucket' = [bucket EXCEPT ![minute] = Plus(@, [t \in {s} |-> delta])]
    /\ UNCHANGED <<minute, window, browser, outages, builds>>

NextMinute ==
    /\ minute < LastMinute
    /\ minute' = minute + 1
    /\ UNCHANGED <<bucket, window, browser, heat, outages, builds>>

\* hotWindowCacheTTL
WindowExpires(m) ==
    /\ window[m] # NoWindow
    /\ window[m].pc = "cached"
    /\ window' = [window EXCEPT ![m] = NoWindow]
    /\ UNCHANGED <<minute, bucket, browser, heat, outages, builds>>

-----------------------------------------------------------------------------
(* HotStrategy.List.                                                       *)

\* The current minute for the first page, the cursor's for the others.
WindowEnd(b) == IF browser[b].source = "window" THEN browser[b].end ELSE minute

\* A request, up to the EXISTS of ListHotWindowPage.
AskHot(b) ==
    LET end == WindowEnd(b) IN
    /\ browser[b].pc = "idle"
    /\ browser' = [browser EXCEPT ![b].end = end,
           ![b].pc = CASE browser[b].source = "mysql" -> "repo"
                       [] browser[b].source # "mysql" /\ window[end] = NoWindow -> "union"
                       [] OTHER -> "range"]
    /\ UNCHANGED <<minute, bucket, window, heat, outages, builds>>

\* rebuildHotWindow, its first call.
HotUnion(b) ==
    LET end == browser[b].end IN
    /\ browser[b].pc = "union"
    /\ window' = [window EXCEPT ![end] = Keyed("raw", Union(end))]
    /\ builds' = [builds EXCEPT ![end] = @ \cup {Union(end)}]
    /\ browser' = [browser EXCEPT ![b].pc = "trim"]
    /\ UNCHANGED <<minute, bucket, heat, outages>>

\* Its second call, a pipeline.
HotTrim(b) ==
    LET end == browser[b].end
        new == IF window[end] = NoWindow THEN NoWindow
               ELSE Keyed("cached", Positive(window[end].scores))
    IN
    /\ browser[b].pc = "trim"
    /\ window' = [window EXCEPT ![end] = new]
    /\ browser' = [browser EXCEPT ![b].pc = "range"]
    /\ UNCHANGED <<minute, bucket, heat, outages, builds>>

\* Mutant: any page may fall back.
MayFallBackAlways(b) == TRUE

\* "Only the first page may fall back; cursors retain their ranking source."
MayFallBack(b) == browser[b].source = "none"

\* A page has been cut from ranked, behind the offset; the first one decides the
\* form of the cursors.
Turn(b, ranked, offset, source) ==
    LET page == SubSeq(ranked, offset + 1, Min({offset + HotLimit, Len(ranked)}))
        more == Len(ranked) > offset + HotLimit
    IN [browser[b] EXCEPT !.pc = IF more THEN "idle" ELSE "done",
                          !.source = IF @ = "none" THEN source ELSE @,
                          !.seen = @ \o page,
                          !.offset = offset + Len(page)]

\* listHotWindowPage; an empty first page is looked for in MySQL.
HotRange(b) ==
    LET end == browser[b].end
        ranked == IF window[end] = NoWindow THEN <<>>
                  ELSE Ranked(DOMAIN window[end].scores, window[end].scores)
    IN
    /\ browser[b].pc = "range"
    /\ browser' = [browser EXCEPT ![b] =
           IF ranked = <<>> /\ MayFallBack(b) THEN [@ EXCEPT !.pc = "repo"]
           ELSE Turn(b, ranked, browser[b].offset, "window")]
    /\ UNCHANGED <<minute, bucket, window, heat, outages, builds>>

\* A Redis call fails: the first page comes from MySQL, another is an error that
\* the reader may repeat.
HotFails(b) ==
    /\ browser[b].pc \in {"union", "trim", "range"}
    /\ outages < MaxOutages
    /\ outages' = outages + 1
    /\ browser' = [browser EXCEPT ![b].pc = IF MayFallBack(b) THEN "repo" ELSE "idle"]
    /\ UNCHANGED <<minute, bucket, window, heat, builds>>

\* ListHotPage: what ranks below the cursor.
ListHotPage(score, below) ==
    LET under == {s \in Song : below = <<>> \/ score[s] < below[1]
                                  \/ (score[s] = below[1] /\ s < below[2])}
    IN Ranked(under, score)

\* listPageFromRepo
HotRepo(b) ==
    LET score == HotScore
        ranked == ListHotPage(score, browser[b].below)
        page == SubSeq(ranked, 1, Min({HotLimit, Len(ranked)}))
    IN
    /\ browser[b].pc = "repo"
    /\ browser' = [browser EXCEPT ![b] =
           [Turn(b, ranked, 0, "mysql") EXCEPT
               !.below = IF page = <<>> THEN @ ELSE <<score[Last(page)], Last(page)>>,
               !.offset = 0]]
    /\ UNCHANGED <<minute, bucket, window, heat, outages, builds>>

HotNext ==
    \/ \E s \in Song, delta \in {1, -1} : AddHotScore(s, delta)
    \/ NextMinute
    \/ \E m \in Minute : WindowExpires(m)
    \/ \E b \in Browser :
          \/ AskHot(b) \/ HotUnion(b) \/ HotTrim(b) \/ HotRange(b)
          \/ HotFails(b) \/ HotRepo(b)

HotSpec == HotInit /\ [][HotNext]_hotVars

-----------------------------------------------------------------------------
\* A reader who pages through a window is shown no video twice, while the
\* minutes pass, windows are built and dropped around it and calls fail, unless
\* the window itself was built from more than one set of scores: the cursor keeps
\* the window and the ranking it began with (HotStrategy.List,
\* listPageFromHotWindow).
HotNoRepeat ==
    \A b \in Browser :
        browser[b].source = "window" /\ Cardinality(builds[browser[b].end]) <= 1
            => IsInjective(browser[b].seen)
=============================================================================
