----------------------------- MODULE Embeddings -----------------------------
(***************************************************************************)
(* The vector of one video, as the recommendations use it: its text may be *)
(* edited and the video moderated; each change owes an event (OutboxRelay  *)
(* takes it to the extension worker), the worker relays the text it reads  *)
(* then, and the embedding worker stores its vector (worker.go, core.go,   *)
(* application/embedding, persistence/embedding).                          *)
(*                                                                         *)
(* Texts are numbered by their edits, and a vector is that of a text.      *)
(***************************************************************************)
EXTENDS Integers, Sequences, SequencesExt

CONSTANTS
    Relay,       \* consumers of the extension queue, in any process
    MaxTexts,   \* bound: edits of the text
    MaxStatus,   \* bound: changes of the status
    MaxFailures  \* bound: failed calls and dying workers

ASSUME EmbeddingConstants == {MaxTexts, MaxStatus, MaxFailures} \subseteq Nat

VARIABLES
    text,      \* title and description of the video
    public,    \* the video is published
    switches,  \* changes of the status so far (bound)
    owed,      \* video.published events on their way to a consumer
    relay,     \* consumers between their read and their publication
    topic,     \* VideoEmbeddingQueue: texts of the events in it
    taken,     \* deliveries the embedding worker has received and not settled
    embedded,  \* the first of them is stored
    vector,    \* the row of video_embedding, or None
    failures,  \* (bound)
    overtaken  \* history: an older event was passed by a newer one, or lost

embeddingVars == <<text, public, switches, owed, relay, topic, taken, embedded, vector,
                   failures, overtaken>>

-----------------------------------------------------------------------------
None == -1

Idle == -1

EmbeddingTypeOK ==
    /\ text \in 0..MaxTexts
    /\ public \in BOOLEAN
    /\ switches \in 0..MaxStatus
    /\ owed \in Nat
    /\ relay \in [Relay -> 0..MaxTexts \cup {Idle}]
    /\ topic \in Seq(0..MaxTexts)
    /\ taken \in Seq(0..MaxTexts)
    /\ embedded \in BOOLEAN
    /\ embedded => taken # <<>> /\ vector = Head(taken)
    /\ vector \in 0..MaxTexts \cup {None}
    /\ failures \in 0..MaxFailures
    /\ overtaken \in BOOLEAN

\* publishVideo has committed the video and its event.
EmbeddingInit ==
    /\ text = 0
    /\ public = TRUE
    /\ switches = 0
    /\ owed = 1
    /\ relay = [r \in Relay |-> Idle]
    /\ topic = <<>>
    /\ taken = <<>>
    /\ embedded = FALSE
    /\ vector = None
    /\ failures = 0
    /\ overtaken = FALSE

Fails ==
    /\ failures < MaxFailures
    /\ failures' = failures + 1

-----------------------------------------------------------------------------
\* Mutant: only a video put back is announced.
OwesOnReturn(before, after) == IF after /\ ~before THEN 1 ELSE 0

\* Whatever was changed, a video that is then published is announced.
Owes(before, after) == IF after THEN 1 ELSE 0

\* adminUpdateVideo: the text, the status or both.
Update(edit, switch) ==
    /\ edit \/ switch
    /\ edit => text < MaxTexts
    /\ switch => switches < MaxStatus
    /\ text' = IF edit THEN text + 1 ELSE text
    /\ switches' = IF switch THEN switches + 1 ELSE switches
    /\ public' = IF switch THEN ~public ELSE public
    /\ owed' = owed + Owes(public, public')
    /\ UNCHANGED <<relay, topic, taken, embedded, vector, failures, overtaken>>

-----------------------------------------------------------------------------
(* processEvent, in a consumer of the extension queue.                     *)

\* The video as it is now; the event of one that is gone is complete.
RelayRead(r) ==
    /\ relay[r] = Idle
    /\ owed > 0
    /\ owed' = owed - 1
    /\ relay' = [relay EXCEPT ![r] = IF public THEN text ELSE Idle]
    /\ UNCHANGED <<text, public, switches, topic, taken, embedded, vector, failures, overtaken>>

Passed(t) == \E n \in ToSet(topic) \cup ToSet(taken) \cup {vector} : n > t

\* publishCoreVideo, confirmed.
RelayPublish(r) ==
    /\ relay[r] # Idle
    /\ topic' = Append(topic, relay[r])
    /\ overtaken' = (overtaken \/ Passed(relay[r]))
    /\ relay' = [relay EXCEPT ![r] = Idle]
    /\ UNCHANGED <<text, public, switches, owed, taken, embedded, vector, failures>>

\* It is not, or the consumer dies: the event comes again, and may be in the
\* queue already.
RelayFails(r, enqueued) ==
    /\ relay[r] # Idle
    /\ Fails
    /\ topic' = IF enqueued THEN Append(topic, relay[r]) ELSE topic
    /\ overtaken' = (overtaken \/ (enqueued /\ Passed(relay[r])))
    /\ relay' = [relay EXCEPT ![r] = Idle]
    /\ owed' = owed + 1
    /\ UNCHANGED <<text, public, switches, taken, embedded, vector>>

\* The fourth attempt failed too: the event is dead.
RelayGivesUp(r) ==
    /\ relay[r] # Idle
    /\ Fails
    /\ overtaken' = TRUE
    /\ relay' = [relay EXCEPT ![r] = Idle]
    /\ UNCHANGED <<text, public, switches, owed, topic, taken, embedded, vector>>

-----------------------------------------------------------------------------
(* consumeVideoPublishedQueue around HandleVideoPublished.                 *)

TakeEvent ==
    /\ topic # <<>>
    /\ taken' = Append(taken, Head(topic))
    /\ topic' = Tail(topic)
    /\ UNCHANGED <<text, public, switches, owed, relay, embedded, vector, failures, overtaken>>

\* SaveVideoEmbedding: an upsert.
SaveVideoEmbedding(t) == vector' = t

\* GenerateForPublishedVideo: the vector of the text in the event.
GenerateForPublishedVideo ==
    /\ taken # <<>>
    /\ ~embedded
    /\ SaveVideoEmbedding(Head(taken))
    /\ embedded' = TRUE
    /\ UNCHANGED <<text, public, switches, owed, relay, topic, taken, failures, overtaken>>

AckEmbedding ==
    /\ embedded
    /\ taken' = Tail(taken)
    /\ embedded' = FALSE
    /\ UNCHANGED <<text, public, switches, owed, relay, topic, vector, failures, overtaken>>

\* Nack with requeue: behind what the process already holds.
NackEmbedding ==
    /\ taken # <<>>
    /\ ~embedded
    /\ Fails
    /\ topic' = <<Head(taken)>> \o topic
    /\ taken' = Tail(taken)
    /\ overtaken' = (overtaken \/ Len(taken) > 1)
    /\ UNCHANGED <<text, public, switches, owed, relay, embedded, vector>>

\* What was not settled comes back in its order, a stored one included.
EmbedderDies ==
    /\ taken # <<>>
    /\ Fails
    /\ topic' = taken \o topic
    /\ taken' = <<>>
    /\ embedded' = FALSE
    /\ UNCHANGED <<text, public, switches, owed, relay, vector, overtaken>>

EmbeddingNext ==
    \/ \E edit, switch \in BOOLEAN : Update(edit, switch)
    \/ \E r \in Relay :
          \/ RelayRead(r) \/ RelayPublish(r) \/ RelayGivesUp(r)
          \/ \E enqueued \in BOOLEAN : RelayFails(r, enqueued)
    \/ TakeEvent
    \/ GenerateForPublishedVideo
    \/ AckEmbedding
    \/ NackEmbedding
    \/ EmbedderDies

EmbeddingSpec == EmbeddingInit /\ [][EmbeddingNext]_embeddingVars

-----------------------------------------------------------------------------
Settled == owed = 0 /\ (\A r \in Relay : relay[r] = Idle) /\ topic = <<>> /\ taken = <<>>

\* Once every event has been handled a published video has the vector of its
\* present text, after edits made while it was offline, deliveries that come
\* twice and workers that die, unless an event was lost or passed by a newer one
\* (adminUpdateVideo, processEvent, GenerateForPublishedVideo).
VectorCurrent == Settled /\ public /\ ~overtaken => vector = text
=============================================================================
