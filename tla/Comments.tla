------------------------------- MODULE Comments -------------------------------
(***************************************************************************)
(* How a scan's report reaches the pull request: the installation token it *)
(* takes at its start (integrations/github/app-auth.service.ts) and the    *)
(* comment it writes or edits at its end (post-pr-comment.service.ts,      *)
(* github-client.ts, comment-size-guard.ts), for one pull request, with or *)
(* without the pilot store (persistence/pilot-store.ts).                   *)
(*                                                                         *)
(* GitHub is external: it mints tokens, refuses expired ones, and keeps    *)
(* the comments, which anybody may delete.  Every request is a step, so    *)
(* that posters interleave between any two of theirs.                      *)
(***************************************************************************)
EXTENDS Integers, Sequences, FiniteSets

CONSTANTS
  Poster,        \* the scans that report on this pull request
  Life, Margin,  \* a token's life, and what must be left of it (60 s)
  MaxComments    \* bound on the comments on the pull request

ASSUME CommentsAssumption ==
  /\ IsFiniteSet(Poster)
  /\ Life \in Nat /\ Margin \in Nat /\ Margin < Life
  /\ MaxComments \in Nat \ {0}

VARIABLES
  cached,     \* the time that the cached token still lives; 0 if there is none
  post,       \* where each poster is
  token,      \* what is left of the poster's token, and how long it has had it
  target,     \* the comment it is about to edit
  comments,   \* the pull request's marked comments, in the order of creation
  crowded,    \* 2000 comments from the start: a later one is never listed
  pilot,      \* the pilot store is in use
  stored,     \* the comment id in the store; 0 if there is none
  completed,  \* the store says that this head has been reported on
  raced       \* history: two posters had found no comment at the same time

githubVars == <<comments, crowded>>
storeVars == <<pilot, stored, completed>>
commentVars == <<cached, post, token, target, githubVars, storeVars, raced>>

\* "expired" is a post that GitHub refused for its token, "failed" one that
\* any other error ended; "done" one that wrote the report, or need not.
Ended == {"done", "expired", "failed"}
Posting == {"read", "stored", "list", "found", "create"}
Stage == {"off", "wait", "scan", "over"} \cup Posting \cup Ended

Ids == 0..MaxComments

CommentsTypeOK ==
  /\ cached \in 0..Life
  /\ post \in [Poster -> Stage]
  /\ token \in [Poster -> [left : 0..Life, age : 0..(Margin + 1)]]
  /\ target \in [Poster -> Ids]
  /\ comments \in Seq([own : BOOLEAN, marked : BOOLEAN, alive : BOOLEAN, deep : BOOLEAN])
  /\ Len(comments) <= MaxComments
  /\ crowded \in BOOLEAN /\ pilot \in BOOLEAN
  /\ stored \in Ids /\ completed \in BOOLEAN
  /\ raced \in BOOLEAN

Foreign == [own |-> FALSE, marked |-> TRUE, alive |-> TRUE, deep |-> FALSE]
NoToken == [left |-> 0, age |-> 0]

CommentsInit ==
  /\ cached = 0
  /\ post = [p \in Poster |-> "off"]
  /\ token = [p \in Poster |-> NoToken]
  /\ target = [p \in Poster |-> 0]
  /\ crowded \in BOOLEAN
  /\ pilot \in {FALSE, ~crowded}
  /\ comments = IF crowded \/ pilot THEN << >> ELSE <<Foreign>>
  /\ stored = 0
  /\ completed = FALSE
  /\ raced = FALSE

-----------------------------------------------------------------------------
(* The token *)

CachedMutant == cached > 0
Cached == cached > Margin

HandOut(ps, life) ==
  /\ post' = [p \in Poster |-> IF p \in ps THEN "scan" ELSE post[p]]
  /\ token' = [p \in Poster |-> IF p \in ps THEN [left |-> life, age |-> 0] ELSE token[p]]

\* getInstallationToken: from the cache, or from the one request under way,
\* or from a new one.
GetToken(p) ==
  /\ post[p] = "off"
  /\ IF Cached THEN HandOut({p}, cached)
     ELSE post' = [post EXCEPT ![p] = "wait"] /\ UNCHANGED token
  /\ UNCHANGED <<cached, target, githubVars, storeVars, raced>>

\* fetchInstallationToken is under way as long as somebody waits for it; when
\* it ends, all its callers get the token, or its error.
Waiting == {p \in Poster : post[p] = "wait"}
TokenArrives ==
  /\ Waiting # {}
  /\ cached' = Life
  /\ HandOut(Waiting, Life)
  /\ UNCHANGED <<target, githubVars, storeVars, raced>>

TokenFails ==
  /\ Waiting # {}
  /\ post' = [p \in Poster |-> IF p \in Waiting THEN "failed" ELSE post[p]]
  /\ UNCHANGED <<cached, token, target, githubVars, storeVars, raced>>

\* Time passes; of a token only its last Margin matters.
Less(t) == IF t = 0 THEN 0 ELSE t - 1
TokensAge ==
  /\ cached' = Less(cached)
  /\ token' = [p \in Poster |-> IF post[p] \in {"scan"} \cup Posting
                 THEN [left |-> Less(token[p].left),
                       age |-> IF token[p].age <= Margin THEN token[p].age + 1 ELSE token[p].age]
                 ELSE token[p]]
  /\ UNCHANGED <<post, target, githubVars, storeVars, raced>>

-----------------------------------------------------------------------------
(* The comment *)

\* applyCommentSizeGuard, in units of which the marker takes one: a body over
\* the limit loses the end of its report, and keeps the marker behind it, by
\* which the comment is found again.
CommentLimit == 2
GuardedMutant(report) == [report |-> report, marked |-> report + 1 <= CommentLimit]
Guarded(report) ==
  [report |-> IF report + 1 <= CommentLimit THEN report ELSE CommentLimit - 1,
   marked |-> TRUE]

\* The scan is over and the report is about to be posted; a run that the
\* store knows as completed is not posted again.
StartPost(p) ==
  /\ post[p] = "scan"
  /\ post' = [post EXCEPT ![p] = IF pilot /\ completed THEN "done"
                                 ELSE IF pilot /\ stored # 0 THEN "stored" ELSE "list"]
  /\ target' = [target EXCEPT ![p] = IF pilot THEN stored ELSE 0]
  /\ UNCHANGED <<cached, token, githubVars, storeVars, raced>>

Expired(p) == token[p].left = 0

\* A request that GitHub answers with an error: a GitHubApiError.
Refuse(p) ==
  /\ post[p] \in Posting
  /\ post' = [post EXCEPT ![p] = IF Expired(p) THEN "expired" ELSE "failed"]
  /\ UNCHANGED <<cached, token, target, githubVars, storeVars, raced>>

\* A request that fails on its way there.
LoseRequest(p) ==
  /\ post[p] \in Posting
  /\ post' = [post EXCEPT ![p] = "failed"]
  /\ UNCHANGED <<cached, token, target, githubVars, storeVars, raced>>

\* findLatestFixorIssueCommentId, among the comments that listIssueComments
\* reaches: marked, and created by this App.
Listed == {i \in DOMAIN comments : comments[i].alive /\ ~comments[i].deep}
IsOwn(c) == c.own
Found == {i \in Listed : comments[i].marked /\ IsOwn(comments[i])}

List(p) ==
  /\ post[p] = "list" /\ ~Expired(p)
  /\ \/ /\ Found = {}
        /\ post' = [post EXCEPT ![p] = "create"]
        /\ raced' = (raced \/ \E q \in Poster : post[q] = "create")
        /\ UNCHANGED target
     \/ \E i \in Found :
          /\ \A j \in Found : j <= i
          /\ post' = [post EXCEPT ![p] = "found"]
          /\ target' = [target EXCEPT ![p] = i]
          /\ UNCHANGED raced
  /\ UNCHANGED <<cached, token, githubVars, storeVars>>

\* What the store is told once the comment is written.
Remember(id) ==
  IF pilot THEN stored' = id /\ completed' = TRUE ELSE UNCHANGED <<stored, completed>>

\* updateIssueComment: the answer may be lost although the edit was made.
Patch(p, report, answered) ==
  /\ post[p] \in {"stored", "found"} /\ ~Expired(p) /\ comments[target[p]].alive
  /\ comments' = [comments EXCEPT ![target[p]].marked = Guarded(report).marked]
  /\ post' = [post EXCEPT ![p] = IF answered THEN "done" ELSE "failed"]
  /\ IF answered THEN Remember(target[p]) ELSE UNCHANGED <<stored, completed>>
  /\ UNCHANGED <<cached, token, target, crowded, pilot, raced>>

\* The comment is gone: a stored id is forgotten and the list is read
\* instead; a listed one is an error like any other (Refuse).
StoredIsGone(p) ==
  /\ post[p] = "stored" /\ ~Expired(p) /\ ~comments[target[p]].alive
  /\ stored' = 0
  /\ post' = [post EXCEPT ![p] = "list"]
  /\ UNCHANGED <<cached, token, target, githubVars, pilot, completed, raced>>

\* postIssueComment.
Create(p, report, answered) ==
  /\ post[p] = "create" /\ ~Expired(p) /\ Len(comments) < MaxComments
  /\ comments' = Append(comments, [own |-> TRUE, marked |-> Guarded(report).marked,
                                   alive |-> TRUE, deep |-> crowded])
  /\ post' = [post EXCEPT ![p] = IF answered THEN "done" ELSE "failed"]
  /\ IF answered THEN Remember(Len(comments) + 1) ELSE UNCHANGED <<stored, completed>>
  /\ UNCHANGED <<cached, token, target, crowded, pilot, raced>>

\* The scan is over; how it ended is told.
Forget(p) ==
  /\ post' = [post EXCEPT ![p] = "over"]
  /\ token' = [token EXCEPT ![p] = NoToken]
  /\ target' = [target EXCEPT ![p] = 0]
  /\ UNCHANGED <<cached, githubVars, storeVars, raced>>

\* What people do on the pull request.
Delete(i) ==
  /\ i \in DOMAIN comments /\ comments[i].own /\ comments[i].alive
  /\ comments' = [comments EXCEPT ![i].alive = FALSE]
  /\ UNCHANGED <<cached, post, token, target, crowded, storeVars, raced>>

-----------------------------------------------------------------------------
PostNext ==
  \E p \in Poster :
    \/ StartPost(p) \/ Refuse(p) \/ LoseRequest(p) \/ List(p) \/ StoredIsGone(p)
    \/ \E report \in {1, 3}, answered \in BOOLEAN :
         Patch(p, report, answered) \/ Create(p, report, answered)

TokenNext == TokenArrives \/ TokenFails

PeopleNext == \E i \in 1..MaxComments : Delete(i)

-----------------------------------------------------------------------------
(* Properties *)

\* However scans crash, time out and repeat, the pull request carries one
\* report of this App that its list still reaches, unless two posters had
\* both looked and found none before either wrote (a scan past its deadline
\* and the next one, an old process and a new one).
OneReport ==
  ~raced => Cardinality({i \in Listed : comments[i].own}) <= 1

\* A report refused for an expired token is the report of a scan that
\* outlived the token cache's margin, never of a short one.
ShortScansCanPost ==
  \A p \in Poster : post[p] = "expired" => token[p].age > Margin

-----------------------------------------------------------------------------
(* What makes them hold: the conjuncts of the inductive invariant that the *)
(* proofs of the module DeliveryProofs use.                                *)

\* A report that is cut down to size keeps the marker it is found by.
MarkersStay == \A i \in DOMAIN comments : comments[i].marked

\* As long as nobody raced, at most one poster is about to create a comment,
\* and while it is, there is none that it should have edited.
OneWriter ==
  ~raced => \A p, q \in Poster : post[p] = "create" /\ post[q] = "create" => p = q
NoneToEdit ==
  ~raced /\ (\E p \in Poster : post[p] = "create") => \A i \in Listed : ~comments[i].own
OwnIsUnique ==
  ~raced => \A i, j \in Listed : comments[i].own /\ comments[j].own => i = j

\* Until it has been held for the cache's margin, a token has more than the
\* rest of the margin to live.
TokensCoverTheMargin ==
  \A p \in Poster :
    post[p] \in {"scan"} \cup Posting /\ token[p].age <= Margin =>
      token[p].left + token[p].age > Margin

CommentsIInv ==
  CommentsTypeOK /\ MarkersStay /\ OneWriter /\ NoneToEdit /\ OwnIsUnique
  /\ TokensCoverTheMargin /\ ShortScansCanPost

=============================================================================
