--------------------------- MODULE MCInteractions ---------------------------
(* What users do to videos and are told of: likes and favourites, comments, *)
(* the message centre and its stream.  The four share no variable: their    *)
(* steps commute, and a behaviour of this module follows one of them.       *)
EXTENDS ActionPipeline, Comments, MessageCentre, NotificationStream, TLC

VARIABLE focus

Authors == [f \in Film |-> CHOOSE w \in Writer : TRUE]

Told(kind, actor, receiver) == [kind |-> kind, actor |-> actor, receiver |-> receiver]

\* One reader is told of a like, a comment and a mention, another of a follow,
\* and nobody of a like of his own video.
Happenings ==
    LET a == CHOOSE u \in Reader : TRUE
        b == CHOOSE u \in Reader : u # a
    IN  {Told("like", b, a), Told("comment", b, a), Told("mention", b, a),
         Told("follow", a, b), Told("like", b, b)}

Init ==
    /\ focus \in {"actions", "comments", "messages", "stream"}
    /\ ActionInit
    /\ CommentInit
    /\ MessageInit
    /\ StreamInit

Next ==
    /\ UNCHANGED focus
    /\ \/ /\ focus = "actions"
          /\ ActionNext
          /\ UNCHANGED <<commentVars, messageVars, streamVars>>
       \/ /\ focus = "comments"
          /\ CommentNext
          /\ UNCHANGED <<actionVars, messageVars, streamVars>>
       \/ /\ focus = "messages"
          /\ MessageNext
          /\ UNCHANGED <<actionVars, commentVars, streamVars>>
       \/ /\ focus = "stream"
          /\ StreamNext
          /\ UNCHANGED <<actionVars, commentVars, messageVars>>

Spec == Init /\ [][Next]_<<focus, actionVars, commentVars, messageVars, streamVars>>

InteractionsTypeOK == ActionTypeOK /\ CommentTypeOK /\ MessageTypeOK /\ StreamTypeOK

Symmetry == Permutations(Fan) \cup Permutations(Desk) \cup Permutations(Clerk)
=============================================================================
