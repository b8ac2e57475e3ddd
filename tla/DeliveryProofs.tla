---------------------------- MODULE DeliveryProofs ----------------------------
(* What GitHub and the callers of the API may rely on, for any number of     *)
(* deliveries, calls and processes, and for any limits: one report on the    *)
(* pull request, a token that lasts as long as promised, no delivery lost by *)
(* an exit, and the rate limit.                                              *)
EXTENDS Delivery, TLAPS, FiniteSetTheorems, SequenceTheorems

-----------------------------------------------------------------------------
(* The comments and the tokens *)

CommentRecord == [own : BOOLEAN, marked : BOOLEAN, alive : BOOLEAN, deep : BOOLEAN]

LEMMA EditedRecord ==
  ASSUME NEW c \in CommentRecord
  PROVE  /\ [c EXCEPT !.marked = TRUE] \in CommentRecord
         /\ [c EXCEPT !.alive = FALSE] \in CommentRecord
  BY DEF CommentRecord

LEMMA CommentsStart == CommentsInit => CommentsIInv
<1> SUFFICES ASSUME CommentsInit PROVE CommentsIInv
  OBVIOUS
<1>1. comments \in {<< >>, <<Foreign>>} /\ Foreign \in CommentRecord
  BY DEF CommentsInit, Foreign, CommentRecord
<1>2. comments \in Seq(CommentRecord) /\ Len(comments) <= MaxComments
  <2>1. CASE comments = << >>
    BY <2>1, CommentsAssumption
  <2>2. CASE comments = <<Foreign>>
    <3>1. <<Foreign>> \in Seq(CommentRecord) /\ Len(<<Foreign>>) = 1
      BY <1>1
    <3>2. QED
      BY <2>2, <3>1, CommentsAssumption
  <2>3. QED
    BY <1>1, <2>1, <2>2
<1>3. CommentsTypeOK
  <2>1. NoToken \in [left : 0..Life, age : 0..(Margin + 1)]
    BY CommentsAssumption DEF NoToken
  <2>2. /\ token \in [Poster -> [left : 0..Life, age : 0..(Margin + 1)]]
        /\ post \in [Poster -> Stage]
        /\ target \in [Poster -> Ids] /\ stored \in Ids /\ cached \in 0..Life
    BY <2>1, CommentsAssumption DEF CommentsInit, Stage, Ids
  <2>3. QED
    BY <1>2, <2>2 DEF CommentsInit, CommentsTypeOK, CommentRecord
<1>4. \A i \in DOMAIN comments : comments[i] = Foreign
  BY <1>1
<1>5. MarkersStay /\ OwnIsUnique
  BY <1>4 DEF MarkersStay, OwnIsUnique, Listed, Foreign
<1>6. OneWriter /\ NoneToEdit /\ TokensCoverTheMargin /\ ShortScansCanPost
  BY DEF CommentsInit, OneWriter, NoneToEdit, TokensCoverTheMargin, ShortScansCanPost, Posting
<1>7. QED
  BY <1>3, <1>5, <1>6 DEF CommentsIInv

LEMMA CommentsStutter == CommentsIInv /\ UNCHANGED commentVars => CommentsIInv'
  BY DEF CommentsIInv, commentVars, githubVars, storeVars, CommentsTypeOK, MarkersStay, OneWriter,
     NoneToEdit, OwnIsUnique, TokensCoverTheMargin, ShortScansCanPost, Listed

\* A step that leaves the comments alone and brings no poster to "create"
\* keeps all that is said of the comments.
LEMMA ReportsKept ==
  ASSUME CommentsIInv, UNCHANGED <<comments, raced>>,
         \A p \in Poster : post'[p] = "create" => post[p] = "create"
  PROVE  MarkersStay' /\ OneWriter' /\ NoneToEdit' /\ OwnIsUnique'
  BY DEF CommentsIInv, MarkersStay, OneWriter, NoneToEdit, OwnIsUnique, Listed

\* Handing a token out that lives longer than the margin.
LEMMA HandedOut ==
  ASSUME CommentsIInv, NEW ps \in SUBSET Poster, NEW x \in 0..Life, x > Margin,
         HandOut(ps, x)
  PROVE  /\ post' \in [Poster -> Stage]
         /\ token' \in [Poster -> [left : 0..Life, age : 0..(Margin + 1)]]
         /\ TokensCoverTheMargin' /\ ShortScansCanPost'
         /\ \A p \in Poster : post'[p] = "create" => post[p] = "create"
<1>1. post' \in [Poster -> Stage] /\ \A p \in Poster : post'[p] = IF p \in ps THEN "scan" ELSE post[p]
  BY DEF CommentsIInv, CommentsTypeOK, HandOut, Stage
<1>2. /\ token' \in [Poster -> [left : 0..Life, age : 0..(Margin + 1)]]
      /\ \A p \in Poster : token'[p] = IF p \in ps THEN [left |-> x, age |-> 0] ELSE token[p]
  BY CommentsAssumption DEF CommentsIInv, CommentsTypeOK, HandOut
<1>3. TokensCoverTheMargin'
  BY <1>1, <1>2, CommentsAssumption DEF CommentsIInv, TokensCoverTheMargin
<1>4. ShortScansCanPost'
  BY <1>1, <1>2 DEF CommentsIInv, ShortScansCanPost
<1>5. QED
  BY <1>1, <1>2, <1>3, <1>4

LEMMA TokenKeeps ==
  ASSUME CommentsIInv, (\E p \in Poster : GetToken(p)) \/ TokenNext \/ TokensAge
  PROVE  CommentsIInv'
<1> USE CommentsAssumption DEF githubVars, storeVars
<1>1. CASE \E p \in Poster : GetToken(p)
  <2>1. PICK p \in Poster : GetToken(p)
    BY <1>1
  <2>2. CASE Cached
    <3>1. HandOut({p}, cached) /\ cached \in 0..Life /\ cached > Margin
      BY <2>1, <2>2 DEF GetToken, Cached, CommentsIInv, CommentsTypeOK
    <3>2. /\ post' \in [Poster -> Stage]
          /\ token' \in [Poster -> [left : 0..Life, age : 0..(Margin + 1)]]
          /\ TokensCoverTheMargin' /\ ShortScansCanPost'
          /\ \A q \in Poster : post'[q] = "create" => post[q] = "create"
      BY <3>1, HandedOut
    <3>3. CommentsTypeOK'
      BY <2>1, <3>2 DEF GetToken, CommentsIInv, CommentsTypeOK
    <3>4. QED
      BY <2>1, <3>2, <3>3, ReportsKept DEF GetToken, CommentsIInv
  <2>3. CASE ~Cached
    <3>1. post' = [post EXCEPT ![p] = "wait"] /\ UNCHANGED token
      BY <2>1, <2>3 DEF GetToken
    <3>2. CommentsTypeOK'
      BY <2>1, <3>1 DEF GetToken, CommentsIInv, CommentsTypeOK, Stage
    <3>3. \A q \in Poster : post'[q] = post[q] \/ post'[q] = "wait"
      BY <3>1 DEF CommentsIInv, CommentsTypeOK
    <3>4. TokensCoverTheMargin' /\ ShortScansCanPost'
      BY <3>1, <3>3 DEF CommentsIInv, TokensCoverTheMargin, ShortScansCanPost, Posting
    <3>5. QED
      BY <2>1, <3>2, <3>3, <3>4, ReportsKept DEF GetToken, CommentsIInv
  <2>4. QED
    BY <2>2, <2>3
<1>2. CASE TokenArrives
  <2>1. HandOut(Waiting, Life) /\ Waiting \in SUBSET Poster /\ Life \in 0..Life /\ Life > Margin
    BY <1>2 DEF TokenArrives, Waiting
  <2>2. /\ post' \in [Poster -> Stage]
        /\ token' \in [Poster -> [left : 0..Life, age : 0..(Margin + 1)]]
        /\ TokensCoverTheMargin' /\ ShortScansCanPost'
        /\ \A q \in Poster : post'[q] = "create" => post[q] = "create"
    BY <2>1, HandedOut
  <2>3. CommentsTypeOK'
    BY <1>2, <2>1, <2>2 DEF TokenArrives, CommentsIInv, CommentsTypeOK
  <2>4. QED
    BY <1>2, <2>2, <2>3, ReportsKept DEF TokenArrives, CommentsIInv
<1>3. CASE TokenFails
  <2>1. CommentsTypeOK'
    BY <1>3 DEF TokenFails, CommentsIInv, CommentsTypeOK, Stage, Ended
  <2>2. \A q \in Poster : post'[q] = post[q] \/ post'[q] = "failed"
    BY <1>3 DEF TokenFails
  <2>3. TokensCoverTheMargin' /\ ShortScansCanPost'
    BY <1>3, <2>2 DEF TokenFails, CommentsIInv, TokensCoverTheMargin, ShortScansCanPost, Posting
  <2>4. QED
    BY <1>3, <2>1, <2>2, <2>3, ReportsKept DEF TokenFails, CommentsIInv
<1>4. CASE TokensAge
  <2> DEFINE Aged(t) == [left |-> Less(t.left),
                         age |-> IF t.age <= Margin THEN t.age + 1 ELSE t.age]
  <2>1. /\ \A t \in [left : 0..Life, age : 0..(Margin + 1)] :
             Aged(t) \in [left : 0..Life, age : 0..(Margin + 1)]
        /\ Less(cached) \in 0..Life
    BY DEF Less, CommentsIInv, CommentsTypeOK
  <2>2. /\ token' \in [Poster -> [left : 0..Life, age : 0..(Margin + 1)]]
        /\ \A p \in Poster : token'[p] = IF post[p] \in {"scan"} \cup Posting THEN Aged(token[p]) ELSE token[p]
    BY <1>4, <2>1 DEF TokensAge, CommentsIInv, CommentsTypeOK
  <2> HIDE DEF Aged
  <2>3. CommentsTypeOK'
    BY <1>4, <2>1, <2>2 DEF TokensAge, CommentsIInv, CommentsTypeOK
  <2>4. TokensCoverTheMargin'
    <3> SUFFICES ASSUME NEW p \in Poster, post[p] \in {"scan"} \cup Posting, token'[p].age <= Margin
                 PROVE  token'[p].left + token'[p].age > Margin
      BY <1>4 DEF TokensAge, TokensCoverTheMargin
    <3>1. token'[p] = Aged(token[p]) /\ token[p] \in [left : 0..Life, age : 0..(Margin + 1)]
      BY <2>2 DEF CommentsIInv, CommentsTypeOK
    <3>2. token[p].age <= Margin => token[p].left + token[p].age > Margin
      BY DEF CommentsIInv, TokensCoverTheMargin
    <3>3. QED
      BY <3>1, <3>2 DEF Aged, Less
  <2>5. ShortScansCanPost'
    BY <1>4, <2>2 DEF TokensAge, CommentsIInv, ShortScansCanPost, Posting
  <2>6. QED
    BY <1>4, <2>3, <2>4, <2>5, ReportsKept DEF TokensAge, CommentsIInv
<1>5. QED
  BY <1>1, <1>2, <1>3, <1>4 DEF TokenNext

\* A poster that moves on without a request of its own to the comments: it
\* neither gets to "create", nor to a new token.
LEMMA MoveKeeps ==
  ASSUME CommentsIInv, NEW p \in Poster, NEW to \in Stage, to # "create",
         post' = [post EXCEPT ![p] = to],
         to \in {"scan"} \cup Posting => post[p] \in {"scan"} \cup Posting,
         to = "expired" => post[p] \in {"scan"} \cup Posting /\ Expired(p),
         UNCHANGED token
  PROVE  /\ post' \in [Poster -> Stage]
         /\ \A q \in Poster : post'[q] = "create" => post[q] = "create"
         /\ TokensCoverTheMargin' /\ ShortScansCanPost'
<1> USE CommentsAssumption
<1>1. post' \in [Poster -> Stage] /\ \A q \in Poster : post'[q] = IF q = p THEN to ELSE post[q]
  BY DEF CommentsIInv, CommentsTypeOK
<1>2. TokensCoverTheMargin'
  BY <1>1 DEF CommentsIInv, TokensCoverTheMargin
<1>3. to = "expired" => token[p].age > Margin
  <2>1. token[p] \in [left : 0..Life, age : 0..(Margin + 1)]
    BY DEF CommentsIInv, CommentsTypeOK
  <2>2. post[p] \in {"scan"} \cup Posting /\ token[p].age <= Margin => token[p].left + token[p].age > Margin
    BY DEF CommentsIInv, TokensCoverTheMargin
  <2>3. QED
    BY <2>1, <2>2 DEF Expired
<1>4. ShortScansCanPost'
  BY <1>1, <1>3 DEF CommentsIInv, ShortScansCanPost
<1>5. QED
  BY <1>1, <1>2, <1>4

LEMMA ListKeeps ==
  ASSUME CommentsIInv, NEW p \in Poster, List(p)
  PROVE  CommentsIInv'
<1> USE CommentsAssumption DEF githubVars, storeVars
<1>1. CASE \E i \in Found : /\ \A j \in Found : j <= i
                           /\ post' = [post EXCEPT ![p] = "found"]
                           /\ target' = [target EXCEPT ![p] = i]
                           /\ UNCHANGED raced
  <2>1. PICK i \in Found : /\ post' = [post EXCEPT ![p] = "found"]
                           /\ target' = [target EXCEPT ![p] = i]
                           /\ UNCHANGED raced
    BY <1>1
  <2>2. i \in Ids
    BY DEF Found, Listed, Ids, CommentsIInv, CommentsTypeOK
  <2>3. /\ post' \in [Poster -> Stage]
        /\ \A q \in Poster : post'[q] = "create" => post[q] = "create"
        /\ TokensCoverTheMargin' /\ ShortScansCanPost'
    BY <2>1, MoveKeeps DEF List, Stage, Posting
  <2>4. CommentsTypeOK'
    BY <2>1, <2>2, <2>3 DEF List, CommentsIInv, CommentsTypeOK
  <2>5. QED
    BY <2>1, <2>3, <2>4, ReportsKept DEF List, CommentsIInv
<1>2. CASE /\ Found = {}
           /\ post' = [post EXCEPT ![p] = "create"]
           /\ raced' = (raced \/ \E q \in Poster : post[q] = "create")
           /\ UNCHANGED target
  <2>1. /\ post' \in [Poster -> Stage]
        /\ \A q \in Poster : post'[q] = IF q = p THEN "create" ELSE post[q]
    BY <1>2 DEF CommentsIInv, CommentsTypeOK, Stage, Posting
  <2>2. raced' \in BOOLEAN /\ (~raced' => ~raced /\ \A q \in Poster : post[q] # "create")
    BY <1>2 DEF CommentsIInv, CommentsTypeOK
  <2>3. CommentsTypeOK'
    BY <1>2, <2>1, <2>2 DEF List, CommentsIInv, CommentsTypeOK
  <2>4. \A i \in Listed : ~comments[i].own
    BY <1>2 DEF CommentsIInv, MarkersStay, Found, Listed, IsOwn
  <2>5. MarkersStay' /\ OwnIsUnique' /\ NoneToEdit'
    BY <2>2, <2>4 DEF List, CommentsIInv, MarkersStay, OwnIsUnique, NoneToEdit, Listed
  <2>6. OneWriter'
    BY <2>1, <2>2 DEF OneWriter
  <2>7. TokensCoverTheMargin' /\ ShortScansCanPost'
    BY <2>1 DEF List, CommentsIInv, TokensCoverTheMargin, ShortScansCanPost, Posting
  <2>8. QED
    BY <2>3, <2>5, <2>6, <2>7 DEF CommentsIInv
<1>3. QED
  BY <1>1, <1>2 DEF List

LEMMA PatchKeeps ==
  ASSUME CommentsIInv, NEW p \in Poster, NEW report \in {1, 3}, NEW answered \in BOOLEAN,
         Patch(p, report, answered)
  PROVE  CommentsIInv'
<1> USE CommentsAssumption DEF githubVars, storeVars
<1>1. Guarded(report).marked = TRUE
  BY DEF Guarded
<1>2. comments' = [comments EXCEPT ![target[p]].marked = TRUE]
  BY <1>1 DEF Patch
<1>3. comments \in Seq(CommentRecord)
  BY DEF CommentsIInv, CommentsTypeOK, CommentRecord
<1>4. /\ comments' \in Seq(CommentRecord) /\ Len(comments') = Len(comments)
      /\ DOMAIN comments' = DOMAIN comments
      /\ \A i \in DOMAIN comments : /\ comments'[i].own = comments[i].own
                                    /\ comments'[i].alive = comments[i].alive
                                    /\ comments'[i].deep = comments[i].deep
                                    /\ comments'[i].marked = TRUE
  <2>1. \A i \in DOMAIN comments : comments[i] \in CommentRecord
    BY <1>3
  <2>2. CASE target[p] \in DOMAIN comments
    <3> DEFINE edited == [comments[target[p]] EXCEPT !.marked = TRUE]
    <3> HIDE DEF edited
    <3>0. comments[target[p]] \in CommentRecord /\ target[p] \in 1..Len(comments)
      BY <1>3, <2>1, <2>2
    <3>1. edited \in CommentRecord
      BY <3>0, EditedRecord, Zenon DEF edited
    <3>2. comments' = [comments EXCEPT ![target[p]] = edited]
      BY <1>2 DEF edited
    <3>3. comments' \in Seq(CommentRecord) /\ Len(comments') = Len(comments)
      BY <1>3, <3>0, <3>1, <3>2, ExceptSeq
    <3>4. QED
      BY <1>2, <2>1, <3>3 DEF CommentsIInv, MarkersStay, CommentRecord
  <2>3. CASE target[p] \notin DOMAIN comments
    <3>1. comments' = comments
      BY <1>2, <1>3, <2>3
    <3>2. QED
      BY <1>3, <3>1 DEF CommentsIInv, MarkersStay
  <2>4. QED
    BY <2>2, <2>3
<1>5. post' = [post EXCEPT ![p] = IF answered THEN "done" ELSE "failed"]
  BY DEF Patch
<1>6. /\ post' \in [Poster -> Stage]
      /\ \A q \in Poster : post'[q] = "create" => post[q] = "create"
      /\ TokensCoverTheMargin' /\ ShortScansCanPost'
  BY <1>5, MoveKeeps DEF Patch, Stage, Posting, Ended
<1>7. stored' \in Ids /\ completed' \in BOOLEAN
  BY DEF Patch, Remember, CommentsIInv, CommentsTypeOK
<1>8. CommentsTypeOK'
  BY <1>4, <1>6, <1>7 DEF Patch, CommentsIInv, CommentsTypeOK, CommentRecord
<1>9. Listed' = Listed /\ Listed \subseteq DOMAIN comments
  BY <1>4 DEF Listed
<1>10. MarkersStay' /\ OwnIsUnique' /\ NoneToEdit' /\ OneWriter'
  BY <1>4, <1>6, <1>9 DEF Patch, CommentsIInv, MarkersStay, OwnIsUnique, NoneToEdit, OneWriter
<1>11. QED
  BY <1>6, <1>8, <1>10 DEF CommentsIInv

LEMMA CreateKeeps ==
  ASSUME CommentsIInv, NEW p \in Poster, NEW report \in {1, 3}, NEW answered \in BOOLEAN,
         Create(p, report, answered)
  PROVE  CommentsIInv'
<1> USE CommentsAssumption DEF githubVars, storeVars
<1> DEFINE new == [own |-> TRUE, marked |-> TRUE, alive |-> TRUE, deep |-> crowded]
<1>1. comments' = Append(comments, new) /\ new \in CommentRecord
  BY DEF Create, Guarded, CommentRecord, CommentsIInv, CommentsTypeOK
<1>2. comments \in Seq(CommentRecord) /\ Len(comments) < MaxComments
  BY DEF Create, CommentsIInv, CommentsTypeOK, CommentRecord
<1>3. /\ comments' \in Seq(CommentRecord) /\ Len(comments') = Len(comments) + 1
      /\ DOMAIN comments' = DOMAIN comments \cup {Len(comments) + 1}
      /\ \A i \in DOMAIN comments : comments'[i] = comments[i] /\ i # Len(comments) + 1
      /\ comments'[Len(comments) + 1] = new
  BY <1>1, <1>2
<1> HIDE DEF new
<1>4. /\ post' \in [Poster -> Stage] /\ post[p] = "create"
      /\ \A q \in Poster : post'[q] = "create" => post[q] = "create" /\ q # p
      /\ TokensCoverTheMargin' /\ ShortScansCanPost'
  <2>1. post' = [post EXCEPT ![p] = IF answered THEN "done" ELSE "failed"]
    BY DEF Create
  <2>2. QED
    BY <2>1, MoveKeeps DEF Create, Stage, Posting, Ended, CommentsIInv, CommentsTypeOK
<1>5. stored' \in Ids /\ completed' \in BOOLEAN
  <2>1. Len(comments) + 1 \in Ids
    BY <1>2, LenProperties DEF Ids
  <2>2. QED
    BY <2>1 DEF Create, Remember, CommentsIInv, CommentsTypeOK, Ids
<1>6. CommentsTypeOK'
  BY <1>2, <1>3, <1>4, <1>5 DEF Create, CommentsIInv, CommentsTypeOK, CommentRecord
<1>7. MarkersStay'
  BY <1>3 DEF CommentsIInv, MarkersStay, new
<1>8. ~raced => \A q \in Poster : post'[q] # "create"
  BY <1>4 DEF CommentsIInv, OneWriter
<1>9. OneWriter' /\ NoneToEdit'
  BY <1>8 DEF Create, OneWriter, NoneToEdit
<1>10. OwnIsUnique'
  <2>1. Listed' \subseteq Listed \cup {Len(comments) + 1}
    BY <1>3 DEF Listed
  <2>2. ~raced => \A i \in Listed : ~comments[i].own
    BY <1>4 DEF CommentsIInv, NoneToEdit
  <2>3. ~raced' => \A i \in Listed' : comments'[i].own => i = Len(comments) + 1
    BY <1>3, <2>1, <2>2 DEF Create, Listed
  <2>4. QED
    BY <2>3 DEF OwnIsUnique
<1>11. QED
  BY <1>4, <1>6, <1>7, <1>9, <1>10 DEF CommentsIInv

LEMMA PostKeeps == CommentsIInv /\ PostNext => CommentsIInv'
<1> USE CommentsAssumption DEF githubVars, storeVars
<1> SUFFICES ASSUME CommentsIInv, PostNext PROVE CommentsIInv'
  OBVIOUS
<1>1. PICK p \in Poster :
        \/ StartPost(p) \/ Refuse(p) \/ LoseRequest(p) \/ List(p) \/ StoredIsGone(p)
        \/ \E report \in {1, 3}, answered \in BOOLEAN :
             Patch(p, report, answered) \/ Create(p, report, answered)
  BY DEF PostNext
<1>2. ASSUME NEW to \in Stage, to # "create", post' = [post EXCEPT ![p] = to],
             to \in {"scan"} \cup Posting => post[p] \in {"scan"} \cup Posting,
             to = "expired" => post[p] \in {"scan"} \cup Posting /\ Expired(p),
             UNCHANGED <<token, comments, raced, cached, crowded, pilot, completed>>,
             target' \in [Poster -> Ids], stored' \in Ids
      PROVE  CommentsIInv'
  <2>1. /\ post' \in [Poster -> Stage]
        /\ \A q \in Poster : post'[q] = "create" => post[q] = "create"
        /\ TokensCoverTheMargin' /\ ShortScansCanPost'
    BY <1>2, MoveKeeps
  <2>2. CommentsTypeOK'
    BY <1>2, <2>1 DEF CommentsIInv, CommentsTypeOK
  <2>3. QED
    BY <1>2, <2>1, <2>2, ReportsKept DEF CommentsIInv
<1>3. CASE StartPost(p)
  <2>1. PICK to \in {"done", "stored", "list"} : post' = [post EXCEPT ![p] = to]
    BY <1>3 DEF StartPost
  <2>2. target' \in [Poster -> Ids]
    BY <1>3 DEF StartPost, CommentsIInv, CommentsTypeOK, Ids
  <2>3. QED
    BY <1>2, <1>3, <2>1, <2>2 DEF StartPost, Stage, Posting, Ended, CommentsIInv, CommentsTypeOK
<1>4. CASE Refuse(p) \/ LoseRequest(p)
  <2>1. PICK to \in {"expired", "failed"} :
          post' = [post EXCEPT ![p] = to] /\ (to = "expired" => Expired(p))
    BY <1>4 DEF Refuse, LoseRequest
  <2>2. QED
    BY <1>2, <1>4, <2>1 DEF Refuse, LoseRequest, Stage, Posting, Ended, CommentsIInv, CommentsTypeOK
<1>5. CASE StoredIsGone(p)
  <2>1. /\ "list" \in Stage /\ "list" # "create" /\ 0 \in Ids
        /\ "list" \in Posting /\ post[p] \in Posting /\ "list" # "expired"
    BY <1>5 DEF StoredIsGone, Stage, Posting, Ids
  <2>2. QED
    BY <1>2, <1>5, <2>1 DEF StoredIsGone, CommentsIInv, CommentsTypeOK
<1>6. ASSUME NEW report \in {1, 3}, NEW answered \in BOOLEAN,
             Patch(p, report, answered) \/ Create(p, report, answered)
      PROVE  CommentsIInv'
  BY <1>6, PatchKeeps, CreateKeeps
<1>7. QED
  BY <1>1, <1>3, <1>4, <1>5, <1>6, ListKeeps

LEMMA ForgetKeeps ==
  ASSUME CommentsIInv, NEW p \in Poster, Forget(p)
  PROVE  CommentsIInv'
<1> USE CommentsAssumption DEF githubVars, storeVars
<1>1. CommentsTypeOK'
  <2>1. NoToken \in [left : 0..Life, age : 0..(Margin + 1)]
    BY DEF NoToken
  <2>2. QED
    BY <2>1 DEF Forget, CommentsIInv, CommentsTypeOK, Stage, Ids
<1>2. \A q \in Poster : /\ post'[q] = IF q = p THEN "over" ELSE post[q]
                        /\ q # p => token'[q] = token[q]
  BY DEF Forget, CommentsIInv, CommentsTypeOK
<1>3. TokensCoverTheMargin' /\ ShortScansCanPost'
  BY <1>2 DEF CommentsIInv, TokensCoverTheMargin, ShortScansCanPost, Posting
<1>4. QED
  BY <1>1, <1>2, <1>3, ReportsKept DEF Forget, CommentsIInv

LEMMA PeopleKeep == CommentsIInv /\ PeopleNext => CommentsIInv'
<1> USE CommentsAssumption DEF githubVars, storeVars
<1> SUFFICES ASSUME CommentsIInv, PeopleNext PROVE CommentsIInv'
  OBVIOUS
<1>1. PICK i \in 1..MaxComments : Delete(i)
  BY DEF PeopleNext
<1>2. comments \in Seq(CommentRecord)
  BY DEF CommentsIInv, CommentsTypeOK, CommentRecord
<1>3. \A j \in DOMAIN comments : comments[j] \in CommentRecord
  BY <1>2
<1>4. /\ comments' \in Seq(CommentRecord) /\ Len(comments') = Len(comments)
      /\ DOMAIN comments' = DOMAIN comments
      /\ \A j \in DOMAIN comments : /\ comments'[j].own = comments[j].own
                                    /\ comments'[j].alive => comments[j].alive
                                    /\ comments'[j].deep = comments[j].deep
                                    /\ comments'[j].marked = comments[j].marked
  <2> DEFINE deleted == [comments[i] EXCEPT !.alive = FALSE]
  <2>1. comments' = [comments EXCEPT ![i] = deleted] /\ i \in 1..Len(comments)
    BY <1>1, <1>2 DEF Delete
  <2>2. deleted \in CommentRecord
    <3>1. comments[i] \in CommentRecord
      BY <1>2, <1>3, <2>1
    <3>2. QED
      BY <3>1, EditedRecord, Zenon
  <2>3. comments' \in Seq(CommentRecord) /\ Len(comments') = Len(comments)
    BY <1>2, <2>1, <2>2, ExceptSeq
  <2>4. QED
    BY <1>1, <1>3, <2>1, <2>3 DEF CommentRecord
<1>5. CommentsTypeOK'
  BY <1>1, <1>4 DEF Delete, CommentsIInv, CommentsTypeOK, CommentRecord
<1>6. Listed' \subseteq Listed /\ Listed \subseteq DOMAIN comments
  BY <1>4 DEF Listed
<1>7. MarkersStay' /\ OwnIsUnique' /\ NoneToEdit' /\ OneWriter'
  BY <1>1, <1>4, <1>6 DEF Delete, CommentsIInv, MarkersStay, OwnIsUnique, NoneToEdit, OneWriter
<1>8. TokensCoverTheMargin' /\ ShortScansCanPost'
  BY <1>1 DEF Delete, CommentsIInv, TokensCoverTheMargin, ShortScansCanPost
<1>9. QED
  BY <1>5, <1>7, <1>8 DEF CommentsIInv

\* The process is gone, and with it its tokens and its posters.
LEMMA LostWithTheProcess ==
  ASSUME CommentsIInv, UNCHANGED <<githubVars, storeVars, raced>>, cached' = 0,
         post' = [d \in Delivery |-> "off"], token' = [d \in Delivery |-> NoToken],
         target' = [d \in Delivery |-> 0]
  PROVE  CommentsIInv'
<1> USE CommentsAssumption DEF githubVars, storeVars, Delivery
<1>1. CommentsTypeOK'
  <2>1. NoToken \in [left : 0..Life, age : 0..(Margin + 1)]
    BY DEF NoToken
  <2>2. QED
    BY <2>1 DEF CommentsIInv, CommentsTypeOK, Stage, Ids
<1>2. TokensCoverTheMargin' /\ ShortScansCanPost'
  BY DEF TokensCoverTheMargin, ShortScansCanPost, Posting
<1>3. QED
  BY <1>1, <1>2, ReportsKept DEF CommentsIInv

\* Every step of the process is one of these for the comments.
LEMMA CommentsKept == IInv /\ [Next]_vars => CommentsIInv'
<1> SUFFICES ASSUME IInv, [Next]_vars PROVE CommentsIInv'
  OBVIOUS
<1> USE DEF IInv
<1>1. CASE UNCHANGED commentVars
  BY <1>1, CommentsStutter
<1>2. CASE UNCHANGED vars
  BY <1>2, CommentsStutter DEF vars
<1>3. CASE DeliveryNext
  <2>1. PICK d \in Delivery :
          \/ \E h \in Hooks : Receive(d, h)
          \/ GitHubHangsUp(d) \/ Redeliver(d) \/ Rerun(d)
          \/ \E ok \in BOOLEAN : Accept(d, ok) \/ EndScan(d, ok) \/ GiveUp(d, ok)
    BY <1>3 DEF DeliveryNext
  <2>2. ASSUME NEW ok \in BOOLEAN, EndScan(d, ok) PROVE CommentsIInv'
    BY <2>2, ForgetKeeps DEF EndScan, Delivery
  <2>3. (\E ok \in BOOLEAN : EndScan(d, ok)) \/ UNCHANGED commentVars
    BY <2>1 DEF Receive, GitHubHangsUp, Redeliver, Rerun, Accept, GiveUp
  <2>4. QED
    BY <1>1, <2>2, <2>3
<1>4. CASE Work
  <2>1. (\E p \in Poster : GetToken(p)) \/ TokenNext \/ PostNext
    BY <1>4 DEF Work, Running, Delivery
  <2>2. QED
    BY <2>1, TokenKeeps, PostKeeps
<1>5. CASE ApiNext
  BY <1>1, <1>5 DEF ApiNext, CallApi, AnswerApi, CallerHangsUp
<1>6. CASE ServerNext
  <2>1. ASSUME NEW clean \in BOOLEAN, NEW insert \in BOOLEAN, Exits(clean, insert)
        PROVE  CommentsIInv'
    BY <2>1, LostWithTheProcess DEF Exits
  <2>2. \/ UNCHANGED commentVars
        \/ \E clean, insert \in BOOLEAN : Exits(clean, insert)
    BY <1>6 DEF ServerNext, Shutdown, Drain, Restart, DrainEnds, DrainTimesOut, Killed
  <2>3. QED
    BY <1>1, <2>1, <2>2
<1>7. CASE Tick
  BY <1>7, TokenKeeps DEF Tick
<1>8. CASE People
  BY <1>8, PeopleKeep DEF People
<1>9. QED
  BY <1>2, <1>3, <1>4, <1>5, <1>6, <1>7, <1>8 DEF Next

-----------------------------------------------------------------------------
(* The deliveries and their rows *)

DeliveryTypeOK ==
  /\ server \in {"up", "closing", "draining", "exited"}
  /\ life \in 1..MaxLives
  /\ awaited \subseteq Delivery
  /\ drained \in BOOLEAN
  /\ del \in [Delivery -> DeliveryStages]
  /\ tracked \subseteq {d \in Delivery : del[d] = "accepted"}
  /\ row \in [Delivery -> {"none", "open", "final"}]
  /\ answer \in [Delivery -> {0, 200, 202, 400, 401, 502, 503}]

RowsTold ==
  NothingBeforeTheRow /\ RowOrFailure /\ RerunHasItsRow /\ DrainSeesTheAnswered

LEMMA RouteAnswers ==
  \A h \in Hooks : RouteStatus(h) \in {0, 200, 400, 401, 502}
  BY DEF RouteStatus

LEMMA DeliveriesStutter ==
  DeliveryTypeOK /\ RowsTold /\ UNCHANGED <<serverVars, deliveryVars>> => DeliveryTypeOK' /\ RowsTold'
  BY DEF serverVars, deliveryVars, DeliveryTypeOK, RowsTold, NothingBeforeTheRow, RowOrFailure,
     RerunHasItsRow, DrainSeesTheAnswered

LEMMA DeliveryStepKeeps ==
  ASSUME DeliveryTypeOK, RowsTold, DeliveryNext
  PROVE  DeliveryTypeOK' /\ RowsTold'
<1> USE DEF serverVars
<1>1. PICK d \in Delivery :
        \/ \E h \in Hooks : Receive(d, h)
        \/ GitHubHangsUp(d) \/ Redeliver(d) \/ Rerun(d)
        \/ \E ok \in BOOLEAN : Accept(d, ok) \/ EndScan(d, ok) \/ GiveUp(d, ok)
  BY DEF DeliveryNext
<1>2. ASSUME NEW h \in Hooks, Receive(d, h) PROVE DeliveryTypeOK' /\ RowsTold'
  <2>1. DeliveryTypeOK'
    BY <1>2, RouteAnswers DEF Receive, DeliveryTypeOK, DeliveryStages
  <2>2. /\ server = "up" /\ row' = row /\ del[d] = "idle" /\ tracked' = tracked
        /\ \A e \in Delivery : e # d => del'[e] = del[e] /\ answer'[e] = answer[e]
        /\ del'[d] \in {"accepting", "refused"}
        /\ del'[d] = "accepting" => answer'[d] = answer[d]
    BY <1>2 DEF Receive, DeliveryTypeOK
  <2>3. QED
    BY <1>2, <2>1, <2>2 DEF Receive, DeliveryTypeOK, RowsTold, NothingBeforeTheRow, RowOrFailure,
       RerunHasItsRow, DrainSeesTheAnswered
<1>3. CASE GitHubHangsUp(d)
  <2>1. DeliveryTypeOK'
    BY <1>3 DEF GitHubHangsUp, DeliveryTypeOK, DeliveryStages
  <2>2. QED
    BY <1>3, <2>1 DEF GitHubHangsUp, DeliveryTypeOK, RowsTold, NothingBeforeTheRow, RowOrFailure,
       RerunHasItsRow, DrainSeesTheAnswered
<1>4. CASE Redeliver(d)
  <2>1. DeliveryTypeOK'
    BY <1>4 DEF Redeliver, DeliveryTypeOK
  <2>2. QED
    BY <1>4, <2>1 DEF Redeliver, DeliveryTypeOK, RowsTold, NothingBeforeTheRow, RowOrFailure,
       RerunHasItsRow, DrainSeesTheAnswered
<1>5. CASE Rerun(d)
  <2>1. DeliveryTypeOK'
    BY <1>5 DEF Rerun, DeliveryTypeOK, DeliveryStages
  <2>2. QED
    BY <1>5, <2>1 DEF Rerun, DeliveryTypeOK, RowsTold, NothingBeforeTheRow, RowOrFailure,
       RerunHasItsRow, DrainSeesTheAnswered
<1>6. ASSUME NEW ok \in BOOLEAN, Accept(d, ok) PROVE DeliveryTypeOK' /\ RowsTold'
  <2>1. DeliveryTypeOK'
    BY <1>6 DEF Accept, AcceptedStatus, DeliveryTypeOK, DeliveryStages
  <2>2. /\ \A e \in Delivery : e # d => del'[e] = del[e] /\ answer'[e] = answer[e] /\ row'[e] = row[e]
        /\ del'[d] = "accepted" /\ tracked' = tracked \cup {d} /\ UNCHANGED <<server, awaited>>
        /\ row'[d] = IF ok THEN "open" ELSE "none"
        /\ ~ok => answer'[d] \notin {200, 202}
        /\ del[d] = "cut" => answer'[d] = 0
        /\ del[d] \in {"accepting", "cut"}
    BY <1>6 DEF Accept, AcceptedStatus, DeliveryTypeOK
  <2>3. QED
    BY <2>1, <2>2 DEF DeliveryTypeOK, RowsTold, NothingBeforeTheRow, RowOrFailure,
       RerunHasItsRow, DrainSeesTheAnswered
<1>7. ASSUME NEW ok \in BOOLEAN, Settles(d, ok) PROVE DeliveryTypeOK' /\ RowsTold'
  <2>1. DeliveryTypeOK'
    BY <1>7 DEF Settles, DeliveryTypeOK, DeliveryStages
  <2>2. /\ \A e \in Delivery : e # d => del'[e] = del[e] /\ row'[e] = row[e]
        /\ del'[d] = "settled" /\ tracked' \subseteq tracked /\ UNCHANGED <<server, awaited, answer>>
    BY <1>7 DEF Settles, DeliveryTypeOK
  <2>3. QED
    BY <2>1, <2>2 DEF DeliveryTypeOK, RowsTold, NothingBeforeTheRow, RowOrFailure,
       RerunHasItsRow, DrainSeesTheAnswered
<1>8. QED
  BY <1>1, <1>2, <1>3, <1>4, <1>5, <1>6, <1>7 DEF EndScan, GiveUp

LEMMA ServerStepKeeps ==
  ASSUME DeliveryTypeOK, RowsTold, ServerNext
  PROVE  DeliveryTypeOK' /\ RowsTold'
<1> USE DeliveryAssumption DEF deliveryVars
<1>1. CASE Shutdown
  BY <1>1 DEF Shutdown, DeliveryTypeOK, RowsTold, NothingBeforeTheRow, RowOrFailure,
     RerunHasItsRow, DrainSeesTheAnswered
<1>2. CASE Drain
  <2>1. \A d \in Delivery : del'[d] # "accepting"
    BY <1>2 DEF Drain, NoConnection
  <2>2. QED
    BY <1>2, <2>1 DEF Drain, DeliveryTypeOK, RowsTold, NothingBeforeTheRow, RowOrFailure,
       RerunHasItsRow, DrainSeesTheAnswered
<1>3. CASE Restart(Production)
  <2>1. /\ life' \in 1..MaxLives /\ server' = "up" /\ drained' = FALSE
        /\ UNCHANGED <<awaited, del, tracked, row, answer>>
    BY <1>3 DEF Restart, DeliveryTypeOK
  <2>2. DeliveryTypeOK'
    BY <2>1 DEF DeliveryTypeOK
  <2>3. RowsTold'
    BY <2>1 DEF RowsTold, NothingBeforeTheRow, RowOrFailure, RerunHasItsRow, DrainSeesTheAnswered
  <2>4. QED
    BY <2>2, <2>3
<1>4. ASSUME NEW clean \in BOOLEAN, NEW insert \in BOOLEAN, Exits(clean, insert)
      PROVE  DeliveryTypeOK' /\ RowsTold'
  <2>1. DeliveryTypeOK'
    BY <1>4 DEF Exits, DeliveryTypeOK, DeliveryStages
  <2>2. /\ server' = "exited" /\ UNCHANGED answer
        /\ \A d \in Delivery :
             /\ del'[d] = IF del[d] \in {"accepting", "cut", "accepted", "rerun"} THEN "dead" ELSE del[d]
             /\ row'[d] = IF del[d] \in {"accepting", "cut"} /\ insert THEN "open" ELSE row[d]
    BY <1>4 DEF Exits
  <2>3. NothingBeforeTheRow' /\ RerunHasItsRow' /\ DrainSeesTheAnswered'
    BY <2>2 DEF RowsTold, NothingBeforeTheRow, RerunHasItsRow, DrainSeesTheAnswered
  <2>4. RowOrFailure'
    BY <2>2 DEF RowsTold, NothingBeforeTheRow, RowOrFailure, RerunHasItsRow
  <2>5. QED
    BY <2>1, <2>3, <2>4 DEF RowsTold
<1>5. QED
  BY <1>1, <1>2, <1>3, <1>4 DEF ServerNext, DrainEnds, DrainTimesOut, Killed

LEMMA DeliveriesKept ==
  ASSUME DeliveryTypeOK, RowsTold, [Next]_vars
  PROVE  DeliveryTypeOK' /\ RowsTold'
<1>1. \/ UNCHANGED <<serverVars, deliveryVars>> \/ DeliveryNext \/ ServerNext
  BY DEF Next, vars, Work, ApiNext, CallApi, AnswerApi, CallerHangsUp, Tick, People
<1>2. QED
  BY <1>1, DeliveriesStutter, DeliveryStepKeeps, ServerStepKeeps

-----------------------------------------------------------------------------
(* The API *)

CallsTypeOK == calls \in [CallStages -> 0..Load] /\ CallsFit

WindowTypeOK ==
  /\ bucket \in [count : 0..Max, age : 0..Window]
  /\ admitted \in [0..(Window - 1) -> Nat]

\* A call is taken while there is room for it, and then only moves.
LEMMA CallsKept ==
  ASSUME DeliveryTypeOK, CallsTypeOK, [Next]_vars
  PROVE  CallsTypeOK'
<1> USE DeliveryAssumption DEF CallStages
<1>1. calls \in [CallStages -> 0..Load]
  BY DEF CallsTypeOK
<1>2. CASE UNCHANGED calls
  BY <1>2 DEF CallsTypeOK, CallsFit
<1>3. ASSUME NEW t \in ApiTokens, CallApi(t) PROVE CallsTypeOK'
  <2>1. IsFiniteSet({d \in Delivery : del[d] # "idle"})
    BY CommentsAssumption, FS_Subset DEF Delivery
  <2>2. Cardinality({d \in Delivery : del[d] # "idle"}) \in Nat
    BY <2>1, FS_CardinalityType
  <2>3. life - 1 \in Nat
    BY DEF DeliveryTypeOK
  <2>4. calls["open"] + calls["left"] + calls["scanned"] + calls["refused"] + 1 <= Load
    BY <1>1, <1>3, <2>2, <2>3 DEF CallApi, HasRoom, Asked
  <2>5. \E c \in {"open", "refused"} : calls' = [calls EXCEPT ![c] = @ + 1]
    BY <1>3 DEF CallApi
  <2>6. QED
    BY <1>1, <2>4, <2>5 DEF CallsTypeOK, CallsFit
<1>4. ASSUME NEW to \in {"left", "scanned", "refused"}, Moved(to) PROVE CallsTypeOK'
  BY <1>1, <1>4 DEF Moved, CallsTypeOK, CallsFit
<1>5. ASSUME NEW clean \in BOOLEAN, NEW insert \in BOOLEAN, Exits(clean, insert) PROVE CallsTypeOK'
  <2>1. calls' = [calls EXCEPT !["open"] = 0, !["refused"] = @ + calls["open"]]
    BY <1>5 DEF Exits
  <2>2. QED
    BY <1>1, <2>1 DEF CallsTypeOK, CallsFit
<1>6. \/ UNCHANGED calls
      \/ \E t \in ApiTokens : CallApi(t)
      \/ \E to \in {"left", "scanned", "refused"} : Moved(to)
      \/ \E clean, insert \in BOOLEAN : Exits(clean, insert)
  <2>1. CASE ApiNext
    <3>1. ASSUME NEW c \in Calls, AnswerApi(c) PROVE \E to \in {"left", "scanned", "refused"} : Moved(to)
      BY <3>1 DEF AnswerApi
    <3>2. CallerHangsUp => Moved("left")
      BY DEF CallerHangsUp
    <3>3. QED
      BY <2>1, <3>1, <3>2 DEF ApiNext
  <2>2. CASE ServerNext
    BY <2>2 DEF ServerNext, Shutdown, Drain, Restart, DrainEnds, DrainTimesOut, Killed, apiVars
  <2>3. CASE DeliveryNext
    BY <2>3 DEF DeliveryNext, Receive, GitHubHangsUp, Redeliver, Rerun, Accept, EndScan, GiveUp, Settles, apiVars
  <2>4. QED
    BY <2>1, <2>2, <2>3 DEF Next, Work, Tick, People, apiVars, vars
<1>7. QED
  BY <1>2, <1>3, <1>4, <1>5, <1>6

LEMMA PairsAre ==
  ASSUME NEW f
  PROVE  \A g : g \in UNION {{t} \X (1..f[t]) : t \in 0..(Window - 1)}
               <=> g = <<g[1], g[2]>> /\ g[1] \in 0..(Window - 1) /\ g[2] \in 1..f[g[1]]
<1> DEFINE pairs == UNION {{t} \X (1..f[t]) : t \in 0..(Window - 1)}
<1>1. ASSUME NEW g \in pairs
      PROVE  g = <<g[1], g[2]>> /\ g[1] \in 0..(Window - 1) /\ g[2] \in 1..f[g[1]]
  <2>1. PICK t \in 0..(Window - 1) : g \in {t} \X (1..f[t])
    OBVIOUS
  <2>2. QED
    BY <2>1
<1>2. ASSUME NEW g, g = <<g[1], g[2]>>, g[1] \in 0..(Window - 1), g[2] \in 1..f[g[1]]
      PROVE  g \in pairs
  <2>1. g \in {g[1]} \X (1..f[g[1]])
    BY <1>2
  <2>2. QED
    BY <1>2, <2>1
<1>3. QED
  BY <1>1, <1>2

LEMMA GrantsAre ==
  /\ \A g : g \in Grants <=> /\ g = <<g[1], g[2]>>
                             /\ g[1] \in 0..(Window - 1)
                             /\ g[2] \in 1..admitted[g[1]]
  /\ \A g : g \in Grants' <=> /\ g = <<g[1], g[2]>>
                              /\ g[1] \in 0..(Window - 1)
                              /\ g[2] \in 1..admitted'[g[1]]
  BY PairsAre DEF Grants

\* Fewer requests than a finite set has are finitely many, and fewer.
LEMMA Fewer ==
  ASSUME NEW S, NEW T, IsFiniteSet(T), NEW n \in Nat, Cardinality(T) <= n,
         NEW f \in Injection(S, T)
  PROVE  IsFiniteSet(S) /\ Cardinality(S) <= n
<1>1. IsFiniteSet(S) /\ Cardinality(S) <= Cardinality(T)
  BY FS_Injection
<1>2. Cardinality(S) \in Nat /\ Cardinality(T) \in Nat
  BY <1>1, FS_CardinalityType
<1>3. QED
  BY <1>1, <1>2

\* A request is admitted.
LEMMA AdmittingCounts ==
  ASSUME WindowTypeOK, BucketsCount, Allows,
         bucket' = [Roll EXCEPT !.count = @ + 1],
         admitted' = [admitted EXCEPT ![0] = @ + 1]
  PROVE  WindowTypeOK' /\ BucketsCount'
<1> USE DeliveryAssumption
<1> DEFINE new == <<0, admitted[0] + 1>>
<1>1. /\ bucket \in [count : 0..Max, age : 0..Window] /\ admitted \in [0..(Window - 1) -> Nat]
      /\ 0 \in 0..(Window - 1)
  BY DEF WindowTypeOK
<1>2. WindowTypeOK'
  BY <1>1 DEF WindowTypeOK, Roll, Allows
<1>3. Grants' = Grants \cup {new} /\ new \notin Grants
  <2>1. /\ admitted'[0] = admitted[0] + 1
        /\ \A t \in 0..(Window - 1) : t # 0 => admitted'[t] = admitted[t]
    BY <1>1
  <2>2. \A k : k \in 1..(admitted[0] + 1) <=> k \in 1..admitted[0] \/ k = admitted[0] + 1
    BY <1>1
  <2>3. \A g : g \in Grants' <=> /\ g = <<g[1], g[2]>>
                                 /\ g[1] \in 0..(Window - 1)
                                 /\ g[2] \in 1..admitted'[g[1]]
    BY GrantsAre
  <2>4. new = <<new[1], new[2]>> /\ new[1] = 0 /\ new[2] = admitted[0] + 1
    OBVIOUS
  <2> HIDE DEF new
  <2>5. new \in Grants' /\ new \notin Grants
    BY <1>1, <2>1, <2>3, <2>4, GrantsAre
  <2>6. ASSUME NEW g, g # new PROVE g \in Grants' <=> g \in Grants
    <3>1. CASE g[1] = 0 /\ g = <<g[1], g[2]>>
      <4>1. g[2] # admitted[0] + 1
        BY <2>4, <2>6, <3>1
      <4>2. QED
        BY <1>1, <2>1, <2>2, <2>3, <3>1, <4>1, GrantsAre
    <3>2. CASE g[1] # 0
      BY <2>1, <2>3, <3>2, GrantsAre
    <3>3. QED
      BY <2>3, <3>1, <3>2, GrantsAre
  <2>7. QED
    BY <2>5, <2>6
<1> HIDE DEF new
<1>4. new[1] = 0
  BY DEF new
<1>5. CASE bucket.age = Window
  <2>1. bucket'.age = 0 /\ bucket'.count = 1
    BY <1>1, <1>5 DEF Roll
  <2>2. \A g \in Grants : g[1] \in Nat /\ g[1] # 0
    <3> SUFFICES ASSUME NEW g \in Grants PROVE g[1] \in Nat /\ g[1] # 0
      OBVIOUS
    <3>1. admitted[0] = 0
      BY <1>5 DEF BucketsCount
    <3>2. g[1] \in 0..(Window - 1) /\ g[2] \in 1..admitted[g[1]]
      BY GrantsAre
    <3>3. QED
      BY <1>1, <3>1, <3>2
  <2>3. Fresh' = {new} /\ Stale' = Grants
    BY <1>1, <1>3, <1>4, <2>1, <2>2 DEF Fresh, Stale
  <2>4. Stale = Grants
    BY <1>5 DEF Fresh, Stale
  <2>5. IsFiniteSet({new}) /\ Cardinality({new}) = 1
    BY FS_Singleton
  <2>6. QED
    BY <1>2, <2>1, <2>3, <2>4, <2>5 DEF BucketsCount
<1>6. CASE bucket.age # Window
  <2>1. bucket'.age = bucket.age /\ bucket'.count = bucket.count + 1 /\ bucket.age \in 0..(Window - 1)
    BY <1>1, <1>6 DEF Roll
  <2>2. Fresh' = Fresh \cup {new} /\ Stale' = Stale /\ new \notin Fresh
    BY <1>1, <1>3, <1>4, <2>1 DEF Fresh, Stale
  <2>3. IsFiniteSet(Fresh) /\ Cardinality(Fresh) <= bucket.count
    BY DEF BucketsCount
  <2>4. IsFiniteSet(Fresh') /\ Cardinality(Fresh') = Cardinality(Fresh) + 1
    BY <2>2, <2>3, FS_AddElement
  <2>5. Cardinality(Fresh) \in Nat /\ bucket.count \in Nat
    BY <1>1, <2>3, FS_CardinalityType
  <2>6. QED
    BY <1>1, <1>2, <2>1, <2>2, <2>3, <2>4, <2>5 DEF BucketsCount
<1>7. QED
  BY <1>5, <1>6

\* A tick makes every request one older, and forgets those that leave the
\* window; what the bucket counts stays, or is all there is when it ends.
LEMMA TickCounts ==
  ASSUME WindowTypeOK, BucketsCount,
         bucket' = IF bucket.age < Window - 1 THEN [bucket EXCEPT !.age = @ + 1] ELSE NoBucket,
         admitted' = [t \in 0..(Window - 1) |-> IF t = 0 THEN 0 ELSE admitted[t - 1]]
  PROVE  WindowTypeOK' /\ BucketsCount'
<1> USE DeliveryAssumption
<1> DEFINE younger(g) == <<g[1] - 1, g[2]>>
<1>1. /\ bucket \in [count : 0..Max, age : 0..Window] /\ admitted \in [0..(Window - 1) -> Nat]
      /\ 0 \in 0..(Window - 1)
  BY DEF WindowTypeOK
<1>2. /\ WindowTypeOK' /\ admitted'[0] = 0
      /\ \A t \in 0..(Window - 1) : t # 0 => t - 1 \in 0..(Window - 1) /\ admitted'[t] = admitted[t - 1]
  BY <1>1 DEF WindowTypeOK, NoBucket
<1>3. \A g \in Grants' : /\ g = <<g[1], g[2]>> /\ g[1] \in 1..(Window - 1)
                         /\ younger(g) \in Grants /\ younger(g)[1] = g[1] - 1
  <2> SUFFICES ASSUME NEW g \in Grants'
               PROVE  /\ g = <<g[1], g[2]>> /\ g[1] \in 1..(Window - 1)
                      /\ younger(g) \in Grants /\ younger(g)[1] = g[1] - 1
    OBVIOUS
  <2>1. g = <<g[1], g[2]>> /\ g[1] \in 0..(Window - 1) /\ g[2] \in 1..admitted'[g[1]]
    BY GrantsAre
  <2>2. g[1] # 0
    BY <1>2, <2>1
  <2>3. g[1] - 1 \in 0..(Window - 1) /\ g[2] \in 1..admitted[g[1] - 1]
    BY <1>2, <2>1, <2>2
  <2>4. younger(g) = <<younger(g)[1], younger(g)[2]>> /\ younger(g)[1] = g[1] - 1 /\ younger(g)[2] = g[2]
    OBVIOUS
  <2> HIDE DEF younger
  <2>5. younger(g) \in Grants
    BY <2>3, <2>4, GrantsAre
  <2>6. QED
    BY <2>1, <2>2, <2>4, <2>5
<1>4. \A g, h \in Grants' : younger(g) = younger(h) => g = h
  <2> SUFFICES ASSUME NEW g \in Grants', NEW h \in Grants', younger(g) = younger(h) PROVE g = h
    OBVIOUS
  <2>1. g[1] - 1 = h[1] - 1 /\ g[2] = h[2]
    OBVIOUS
  <2>2. g[1] = h[1]
    <3>1. g[1] \in 1..(Window - 1) /\ h[1] \in 1..(Window - 1)
      BY <1>3
    <3>2. QED
      BY <2>1, <3>1
  <2>3. QED
    BY <1>3, <2>1, <2>2
<1> HIDE DEF younger
<1>5. ASSUME NEW S, NEW T, S \subseteq Grants', \A g \in S : younger(g) \in T
      PROVE  [g \in S |-> younger(g)] \in Injection(S, T)
  BY <1>4, <1>5 DEF Injection, IsInjective
<1>6. /\ IsFiniteSet(Fresh) /\ Cardinality(Fresh) <= bucket.count
      /\ IsFiniteSet(Stale) /\ Cardinality(Stale) <= Max
      /\ bucket.count \in Nat /\ bucket.count <= Max /\ Max \in Nat
  BY <1>1 DEF BucketsCount
<1>7. CASE bucket.age < Window - 1
  <2>1. bucket'.age = bucket.age + 1 /\ bucket'.count = bucket.count /\ bucket'.age < Window /\ bucket.age < Window
    BY <1>1, <1>7
  <2>2. \A g \in Fresh' : younger(g) \in Fresh
    BY <1>1, <1>3, <2>1 DEF Fresh
  <2>3. \A g \in Stale' : younger(g) \in Stale
    BY <1>1, <1>3, <2>1 DEF Fresh, Stale
  <2>4. [g \in Fresh' |-> younger(g)] \in Injection(Fresh', Fresh)
    BY <1>5, <2>2 DEF Fresh
  <2>5. [g \in Stale' |-> younger(g)] \in Injection(Stale', Stale)
    BY <1>5, <2>3 DEF Stale
  <2>6. IsFiniteSet(Fresh') /\ Cardinality(Fresh') <= bucket.count
    BY <1>6, <2>4, Fewer
  <2>7. IsFiniteSet(Stale') /\ Cardinality(Stale') <= Max
    BY <1>6, <2>5, Fewer
  <2>8. QED
    BY <1>2, <2>1, <2>6, <2>7 DEF BucketsCount
<1>8. CASE ~(bucket.age < Window - 1)
  <2>1. bucket' = NoBucket /\ bucket'.age = Window /\ bucket'.count = 0
    BY <1>8 DEF NoBucket
  <2>2. Fresh' = {} /\ Stale' = Grants'
    BY <2>1 DEF Fresh, Stale
  <2>3. CASE bucket.age = Window - 1
    <3>1. \A g \in Stale' : younger(g) \in Fresh
      BY <1>1, <1>3, <2>2, <2>3 DEF Fresh
    <3>2. [g \in Stale' |-> younger(g)] \in Injection(Stale', Fresh)
      BY <1>5, <2>2, <3>1
    <3>3. Cardinality(Fresh) <= Max
      BY <1>6, FS_CardinalityType
    <3>4. IsFiniteSet(Stale') /\ Cardinality(Stale') <= Max
      BY <1>6, <3>2, <3>3, Fewer
    <3>5. QED
      BY <1>2, <2>1, <2>2, <3>4, FS_EmptySet DEF BucketsCount
  <2>4. CASE bucket.age = Window
    <3>1. \A g \in Stale' : younger(g) \in Stale
      BY <1>3, <2>2, <2>4 DEF Fresh, Stale
    <3>2. [g \in Stale' |-> younger(g)] \in Injection(Stale', Stale)
      BY <1>5, <2>2, <3>1
    <3>3. IsFiniteSet(Stale') /\ Cardinality(Stale') <= Max
      BY <1>6, <3>2, Fewer
    <3>4. QED
      BY <1>2, <2>1, <2>2, <3>3, FS_EmptySet DEF BucketsCount
  <2>5. bucket.age = Window - 1 \/ bucket.age = Window
    <3>1. bucket.age \in 0..Window
      BY <1>1
    <3>2. QED
      BY <1>8, <3>1
  <2>6. QED
    BY <2>3, <2>4, <2>5
<1>9. QED
  BY <1>7, <1>8

\* With the process its bucket is gone.
LEMMA NoGrants ==
  ASSUME bucket' = NoBucket, admitted' = [t \in 0..(Window - 1) |-> 0]
  PROVE  WindowTypeOK' /\ BucketsCount'
<1> USE DeliveryAssumption
<1>1. Grants' = {}
  <2> SUFFICES ASSUME NEW g \in Grants' PROVE FALSE
    OBVIOUS
  <2>1. g[1] \in 0..(Window - 1) /\ g[2] \in 1..admitted'[g[1]]
    BY GrantsAre
  <2>2. QED
    BY <2>1
<1>2. Fresh' = {} /\ Stale' = {}
  BY <1>1 DEF Fresh, Stale
<1>3. QED
  BY <1>2, FS_EmptySet DEF WindowTypeOK, BucketsCount, NoBucket

LEMMA WindowsKept ==
  ASSUME WindowTypeOK, BucketsCount, [Next]_vars
  PROVE  WindowTypeOK' /\ BucketsCount'
<1>1. CASE UNCHANGED <<bucket, admitted>>
  BY <1>1 DEF WindowTypeOK, BucketsCount, Fresh, Stale, Grants
<1>2. ASSUME NEW t \in ApiTokens, CallApi(t) PROVE WindowTypeOK' /\ BucketsCount'
  <2>1. CASE TokenStatus(t) = 200 /\ Allows
    BY <1>2, <2>1, AdmittingCounts DEF CallApi
  <2>2. CASE ~(TokenStatus(t) = 200 /\ Allows)
    BY <1>1, <1>2, <2>2 DEF CallApi
  <2>3. QED
    BY <2>1, <2>2
<1>3. ASSUME NEW clean \in BOOLEAN, NEW insert \in BOOLEAN, Exits(clean, insert)
      PROVE  WindowTypeOK' /\ BucketsCount'
  BY <1>3, NoGrants DEF Exits
<1>4. CASE Tick
  BY <1>4, TickCounts DEF Tick
<1>5. \/ UNCHANGED <<bucket, admitted>> \/ Tick
      \/ \E t \in ApiTokens : CallApi(t)
      \/ \E clean, insert \in BOOLEAN : Exits(clean, insert)
  <2>1. CASE ApiNext
    BY <2>1 DEF ApiNext, AnswerApi, CallerHangsUp
  <2>2. CASE ServerNext
    BY <2>2 DEF ServerNext, Shutdown, Drain, Restart, DrainEnds, DrainTimesOut, Killed, apiVars
  <2>3. CASE DeliveryNext
    BY <2>3 DEF DeliveryNext, Receive, GitHubHangsUp, Redeliver, Rerun, Accept, EndScan, GiveUp, Settles, apiVars
  <2>4. QED
    BY <2>1, <2>2, <2>3 DEF Next, Work, People, apiVars, vars
<1>6. QED
  BY <1>1, <1>2, <1>3, <1>4, <1>5

-----------------------------------------------------------------------------
(* The theorems *)

LEMMA Parts == IInv <=> /\ CommentsIInv /\ DeliveryTypeOK /\ RowsTold
                        /\ CallsTypeOK /\ WindowTypeOK /\ BucketsCount
  BY DEF IInv, TypeOK, CommentsIInv, DeliveryTypeOK, RowsTold, CallsTypeOK, WindowTypeOK

LEMMA PartsNext == IInv' <=> /\ CommentsIInv' /\ DeliveryTypeOK' /\ RowsTold'
                             /\ CallsTypeOK' /\ WindowTypeOK' /\ BucketsCount'
  BY DEF IInv, TypeOK, CommentsIInv, DeliveryTypeOK, RowsTold, CallsTypeOK, WindowTypeOK

LEMMA Start == Init => IInv
<1> SUFFICES ASSUME Init PROVE IInv
  OBVIOUS
<1> USE DeliveryAssumption
<1>1. CommentsIInv
  BY CommentsStart DEF Init
<1>2. DeliveryTypeOK
  <2>1. life \in 1..MaxLives
    BY DEF Init
  <2>2. /\ del \in [Delivery -> DeliveryStages]
        /\ row \in [Delivery -> {"none", "open", "final"}]
        /\ answer \in [Delivery -> {0, 200, 202, 400, 401, 502, 503}]
    BY DEF Init, DeliveryStages
  <2>3. QED
    BY <2>1, <2>2 DEF Init, DeliveryTypeOK
<1>3. RowsTold
  BY DEF Init, RowsTold, NothingBeforeTheRow, RowOrFailure, RerunHasItsRow, DrainSeesTheAnswered
<1>4. CallsTypeOK
  BY DEF Init, CallsTypeOK, CallsFit, CallStages
<1>5. bucket = NoBucket /\ admitted = [t \in 0..(Window - 1) |-> 0]
  BY DEF Init
<1>6. Grants = {}
  <2> SUFFICES ASSUME NEW g \in Grants PROVE FALSE
    OBVIOUS
  <2>1. g[1] \in 0..(Window - 1) /\ g[2] \in 1..admitted[g[1]]
    BY GrantsAre
  <2>2. QED
    BY <1>5, <2>1
<1>7. WindowTypeOK /\ BucketsCount
  <2>1. Fresh = {} /\ Stale = {}
    BY <1>6 DEF Fresh, Stale
  <2>2. QED
    BY <1>5, <2>1, FS_EmptySet DEF WindowTypeOK, BucketsCount, NoBucket
<1>8. QED
  BY <1>1, <1>2, <1>3, <1>4, <1>7, Parts

\* The invariant that every theorem below rests on.
THEOREM Inductive == Spec => []IInv
<1>1. Init => IInv
  BY Start
<1>2. IInv /\ [Next]_vars => IInv'
  BY Parts, PartsNext, CommentsKept, DeliveriesKept, CallsKept, WindowsKept
<1>3. QED
  BY <1>1, <1>2, PTL DEF Spec

\* Every variable keeps its type, the API calls and the processes their
\* bounds, and only accepted deliveries are tracked (InFlightTracker).
THEOREM TypeCorrect == Spec => []TypeOK
<1>1. IInv => TypeOK
  BY DEF IInv
<1>2. QED
  BY Inductive, <1>1, PTL

\* One report of this App on the pull request, whatever crashes, times out
\* and is repeated, unless two posters raced (findLatestFixorIssueCommentId).
THEOREM ReportIsUnique == Spec => []OneReport
<1>1. IInv => OneReport
  <2> SUFFICES ASSUME IInv, ~raced
               PROVE  Cardinality({i \in Listed : comments[i].own}) <= 1
    BY DEF OneReport
  <2> DEFINE ours == {i \in Listed : comments[i].own}
  <2>1. \A i, j \in ours : i = j
    BY DEF IInv, CommentsIInv, OwnIsUnique
  <2>2. CASE ours = {}
    BY <2>2, FS_EmptySet
  <2>3. CASE ours # {}
    <3>1. PICK i \in ours : TRUE
      BY <2>3
    <3>2. ours = {i}
      BY <2>1, <3>1
    <3>3. Cardinality({i}) = 1
      BY FS_Singleton
    <3>4. QED
      BY <3>2, <3>3
  <2>4. QED
    BY <2>2, <2>3
<1>2. QED
  BY Inductive, <1>1, PTL

\* Only a scan that outlived the token cache's margin is refused for an
\* expired token (getInstallationToken).
THEOREM ShortScansPost == Spec => []ShortScansCanPost
<1>1. IInv => ShortScansCanPost
  BY DEF IInv, CommentsIInv
<1>2. QED
  BY Inductive, <1>1, PTL

\* In any window's length of time at most twice the limit is granted
\* (FixedWindowRateLimiter.allow).
THEOREM RateBounded == Spec => []RateIsBounded
<1>1. IInv => RateIsBounded
  <2> SUFFICES ASSUME IInv PROVE RateIsBounded
    OBVIOUS
  <2>1. /\ IsFiniteSet(Fresh) /\ Cardinality(Fresh) <= bucket.count
        /\ IsFiniteSet(Stale) /\ Cardinality(Stale) <= Max
    BY DEF IInv, BucketsCount
  <2>2. bucket.count \in 0..Max /\ Max \in Nat
    BY DeliveryAssumption DEF IInv, TypeOK
  <2>3. Grants = Fresh \cup Stale /\ Fresh \cap Stale = {}
    BY DEF Fresh, Stale
  <2>4. Cardinality(Grants) = Cardinality(Fresh) + Cardinality(Stale)
    <3>1. Cardinality(Fresh \cup Stale) =
            Cardinality(Fresh) + Cardinality(Stale) - Cardinality(Fresh \cap Stale)
      BY <2>1, FS_Union
    <3>2. Cardinality(Fresh \cap Stale) = 0
      BY <2>3, FS_EmptySet
    <3>3. Cardinality(Fresh) \in Nat /\ Cardinality(Stale) \in Nat
      BY <2>1, FS_CardinalityType
    <3>4. Cardinality(Fresh \cup Stale) = Cardinality(Fresh) + Cardinality(Stale)
      BY <3>1, <3>2, <3>3
    <3>5. QED
      BY <2>3, <3>4
  <2>5. Cardinality(Fresh) \in Nat /\ Cardinality(Stale) \in Nat
    BY <2>1, FS_CardinalityType
  <2>6. QED
    BY <2>1, <2>2, <2>4, <2>5 DEF RateIsBounded
<1>2. QED
  BY Inductive, <1>1, PTL

\* What GitHub was told holds after the process has gone (shutdown, and a
\* death at any step).
THEOREM NothingIsLost == Spec => ExitLosesNothing
<1> DEFINE Lost == server # "exited" /\ server' = "exited" =>
                     \A d \in Delivery :
                       del'[d] = "dead" =>
                         /\ row'[d] = "open" \/ answer[d] \notin {200, 202}
                         /\ drained' /\ d \in tracked => answer[d] = 0
<1>1. IInv /\ Next => Lost
  <2> SUFFICES ASSUME IInv, Next, server # "exited", server' = "exited",
                      NEW d \in Delivery, del'[d] = "dead"
               PROVE  /\ row'[d] = "open" \/ answer[d] \notin {200, 202}
                      /\ drained' /\ d \in tracked => answer[d] = 0
    OBVIOUS
  <2>1. \/ server = "draining" /\ Drained /\ \E insert \in BOOLEAN : Exits(TRUE, insert)
        \/ \E insert \in BOOLEAN : Exits(FALSE, insert)
    BY DEF Next, DeliveryNext, Receive, GitHubHangsUp, Redeliver, Rerun, Accept, EndScan, GiveUp, Settles,
       Work, ApiNext, CallApi, AnswerApi, CallerHangsUp, Tick, People, serverVars,
       ServerNext, Shutdown, Drain, Restart, DrainEnds, DrainTimesOut, Killed
  <2>2. RowOrFailure'
    BY Parts, DeliveriesKept DEF RowsTold
  <2>3. answer' = answer
    BY <2>1 DEF Exits
  <2>4. row'[d] = "open" \/ answer[d] \notin {200, 202}
    BY <2>2, <2>3 DEF RowOrFailure
  <2>5. drained' => server = "draining" /\ Drained
    BY <2>1 DEF Exits
  <2>6. drained' /\ d \in tracked => answer[d] = 0
    BY <2>5 DEF Drained, IInv, DrainSeesTheAnswered
  <2>7. QED
    BY <2>4, <2>6
<1>2. IInv /\ [Next]_vars => [Lost]_vars
  BY <1>1
<1>3. QED
  BY Inductive, <1>2, PTL DEF Spec, ExitLosesNothing

=============================================================================
