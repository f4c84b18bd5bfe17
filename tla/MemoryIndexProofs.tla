-------------------------- MODULE MemoryIndexProofs --------------------------
(***************************************************************************)
(* Machine-checked proofs about MemoryIndex, for every set of paths, notes *)
(* and requests and every bound: vectors and chunks belong together, and   *)
(* when nothing is under way for a file the index says what it says.       *)
(***************************************************************************)
EXTENDS MemoryIndex, WellFoundedInduction, SequenceTheorems, TLAPS

-----------------------------------------------------------------------------
(* Types, the jobs as sequences. *)

FilesTyped ==
  /\ file \in [Path -> {None} \cup Content]
  /\ watching \in BOOLEAN /\ dirty \subseteq Path /\ selfWrites \subseteq Path
  /\ fold \in [Remember -> Fold] /\ budget \in 0..Budget
  /\ touched \subseteq Path /\ swallowed \subseteq Path /\ missed \subseteq Path
  /\ torn \subseteq Path /\ halved \subseteq Path
StoreTyped ==
  /\ doc \in [Path -> {None} \cup Document]
  /\ vectors \subseteq Chunk /\ pending \subseteq Chunk /\ found \subseteq Chunk
  /\ clustered \in BOOLEAN
  /\ hand \in [Path -> {None} \cup Hand] /\ retry \in {None} \cup Retry
JobsTyped == jobs \in [Path -> Seq(Job)]
WalksTyped == walk \in [Walker -> {None} \cup Walk]
Typed == FilesTyped /\ StoreTyped /\ JobsTyped /\ WalksTyped

-----------------------------------------------------------------------------
(* What the steps keep true of the store, besides VectorsMatchChunks. *)

Embedding(p) == hand[p] # None /\ hand[p].stage = "embedding"
RetryRows == IF retry = None THEN {} ELSE retry.rows

(* A document says something, and unless its job was cut short between its two
   writes it has its chunk and the text it was hashed from. *)
DocumentsAreWhole ==
  \A p \in Path : doc[p] # None =>
    /\ doc[p].sha # {}
    /\ p \notin halved => doc[p].chunk # None /\ doc[p].text = doc[p].sha

(* The job that carries something is the first of its path; when its vector is
   about to be written its document is still the one it stored. *)
JobsAreSerial ==
  \A p \in Path : hand[p] # None =>
    /\ HeadIs(p, "index") /\ hand[p].content # {}
    /\ p \in Adding => doc[p] = NewDocument(hand[p])

(* A chunk belongs to one document, a chunk id on its way to nothing else; the
   orphan sweep deletes no chunk of a document, and the retry stores no vector of
   another chunk than it looked up, all of those that still live. *)
ChunksAreOwned ==
  /\ \A p, q \in Path : doc[p] # None /\ doc[q] # None /\ doc[p].chunk # None /\ doc[p].chunk = doc[q].chunk
       => p = q
  /\ \A p \in Path : Embedding(p) => hand[p].chunk \notin Live \cup vectors \cup pending \cup RetryRows \cup found
  /\ \A p, q \in Path : Embedding(p) /\ Embedding(q) /\ hand[p].chunk = hand[q].chunk => p = q
  /\ found \cap Live = {}
  /\ retry # None /\ retry.storing # None => retry.rows \cap Live \subseteq retry.storing /\ retry.storing \subseteq retry.rows

(* Only with centroids is there a yield before a vector is written. *)
YieldsNeedCentroids ==
  /\ Adding # {} => clustered
  /\ retry # None /\ retry.storing # None => clustered

-----------------------------------------------------------------------------
LEMMA TypesAreNotNone ==
  /\ None \notin Path /\ None \notin Chunk /\ None \notin Document
  /\ None \notin Hand /\ None \notin Walk /\ None \notin Retry
  /\ \A c \in Content : c # None
  /\ \A S \in SUBSET Chunk : S # None
BY NoneAssumption

LEMMA QueuedIsTyped ==
  ASSUME JobsTyped, NEW p \in Path, NEW op \in {"index", "delete", "forget"}, NEW by \in {None} \cup Walker
  PROVE  /\ Queued(p, op, by) \in [Path -> Seq(Job)]
         /\ Queued(p, op, by)[p] = Append(jobs[p], [op |-> op, by |-> by])
         /\ \A q \in Path \ {p} : Queued(p, op, by)[q] = jobs[q]
<1>1. PICK j : j = [op |-> op, by |-> by]
  OBVIOUS
<1>2. j \in Job
  BY <1>1 DEF Job
<1>3. jobs \in [Path -> Seq(Job)]
  BY DEF JobsTyped
<1>4. Append(jobs[p], j) \in Seq(Job)
  BY <1>2, <1>3
<1>5. Queued(p, op, by) = [jobs EXCEPT ![p] = Append(jobs[p], j)]
  BY <1>1, <1>3 DEF Queued
<1>6. QED
  BY <1>1, <1>3, <1>4, <1>5

LEMMA QueuedElsewhere ==
  ASSUME JobsTyped, NEW p \in Path, NEW q \in Path, q # p, NEW op, NEW by
  PROVE  Queued(p, op, by)[q] = jobs[q]
BY DEF Queued, JobsTyped

(* The queue of p after its head is done. *)
LEMMA EndedIsTyped ==
  ASSUME JobsTyped, NEW p \in Path, jobs[p] # <<>>
  PROVE  /\ Ended(p) \in [Path -> Seq(Job)]
         /\ Ended(p)[p] = Tail(jobs[p])
         /\ \A q \in Path \ {p} : Ended(p)[q] = jobs[q]
<1>1. jobs \in [Path -> Seq(Job)]
  BY DEF JobsTyped
<1>2. Tail(jobs[p]) \in Seq(Job)
  BY <1>1
<1>3. QED
  BY <1>1, <1>2 DEF Ended

Smaller == {p \in Nat \X Nat : p[1] < p[2]}

(* A chunk id that is not in use, when there is one. *)
LEMMA NewChunkIsNew ==
  ASSUME Chunk \ InUse # {}
  PROVE  newChunkId \in Chunk /\ newChunkId \notin InUse
<1>1. PICK S : S = Chunk \ InUse
  OBVIOUS
<1>2. S \subseteq Nat /\ S # {}
  BY <1>1, BoundAssumption DEF Chunk
<1>3. \E c \in S : \A d \in S : c <= d
  <2>1. IsWellFoundedOn(Smaller, Nat)
    BY NatLessThanWellFounded DEF OpToRel, Smaller
  <2>2. PICK c \in S : \A d \in S : <<d, c>> \notin Smaller
    BY <1>2, <2>1, WFMin
  <2>3. \A d \in S : ~(d < c)
    BY <1>2, <2>2 DEF Smaller
  <2>4. QED
    BY <1>2, <2>2, <2>3
<1>4. newChunkId = CHOOSE c \in S : \A d \in S : c <= d
  BY <1>1 DEF newChunkId
<1>5. newChunkId \in S
  BY <1>3, <1>4
<1>6. QED
  BY <1>1, <1>5

(* The chunks documents refer to. *)
LEMMA ChunkOfADocument ==
  ASSUME NEW d, NEW c
  PROVE  c \in ChunksOf(d) <=> c # None /\ \E q \in Path : d[q] # None /\ d[q].chunk = c
BY DEF ChunksOf

-----------------------------------------------------------------------------
(* Every step keeps the types. *)

LEMMA SpendIsTyped ==
  ASSUME budget \in 0..Budget, Spend
  PROVE  budget' \in 0..Budget
BY BoundAssumption DEF Spend

LEMMA FilesStayTyped ==
  ASSUME Typed, [Next]_vars
  PROVE  FilesTyped'
<1>1. /\ file \in [Path -> {None} \cup Content] /\ watching \in BOOLEAN
      /\ fold \in [Remember -> Fold] /\ budget \in 0..Budget
      /\ dirty \subseteq Path /\ selfWrites \subseteq Path /\ touched \subseteq Path
      /\ swallowed \subseteq Path /\ missed \subseteq Path /\ torn \subseteq Path /\ halved \subseteq Path
  BY DEF Typed, FilesTyped
<1>2. Adding \subseteq Path /\ Present \subseteq Path
  BY DEF Adding, Present
<1>3. ASSUME NEW p \in Path, Edit(p) PROVE FilesTyped'
  <2>1. budget' \in 0..Budget
    BY <1>1, <1>3, SpendIsTyped DEF Edit
  <2>2. PICK c \in (Content \cup {None}) \ {file[p]} :
          /\ file' = [file EXCEPT ![p] = c]
          /\ missed' = IF c = None /\ ~watching THEN missed \cup {p} ELSE missed \ {p}
    BY <1>3 DEF Edit
  <2>3. file' \in [Path -> {None} \cup Content] /\ missed' \subseteq Path
    BY <1>1, <2>2
  <2>4. /\ touched' = touched \cup {p} /\ dirty' \subseteq dirty \cup {p}
        /\ UNCHANGED <<selfWrites, swallowed, torn, halved, watching, fold>>
    BY <1>3 DEF Edit, worker
  <2>5. QED
    BY <1>1, <2>1, <2>3, <2>4 DEF FilesTyped
<1>4. ASSUME NEW p \in Path, WatchEvent(p) PROVE FilesTyped'
  <2>1. /\ UNCHANGED <<file, watching, fold, budget, touched, missed, torn, halved>>
        /\ dirty' \subseteq dirty /\ selfWrites' \subseteq selfWrites /\ swallowed' \subseteq swallowed \cup {p}
    BY <1>4 DEF WatchEvent
  <2>2. QED
    BY <1>1, <2>1 DEF FilesTyped
<1>5. ASSUME NEW p \in Path, BeginIndex(p) PROVE FilesTyped'
  <2>1. /\ UNCHANGED <<file, watching, fold, budget, dirty, selfWrites, touched, swallowed, missed>>
        /\ torn' \subseteq torn /\ halved' \subseteq halved
    BY <1>5 DEF BeginIndex, IndexEmpty, DeleteNow
  <2>2. QED
    BY <1>1, <2>1 DEF FilesTyped
<1>6. ASSUME NEW p \in Path, Embedded(p) \/ Added(p) \/ EmbedFailed(p) PROVE FilesTyped'
  <2>1. /\ UNCHANGED <<file, watching, fold, budget, dirty, selfWrites, touched, swallowed, missed>>
        /\ torn' \subseteq torn \cup {p} /\ halved' \subseteq halved
    BY <1>6 DEF Embedded, Added, EmbedFailed, Stored
  <2>2. QED
    BY <1>1, <2>1 DEF FilesTyped
<1>7. ASSUME NEW p \in Path, DeleteFile(p) PROVE FilesTyped'
  <2>1. /\ UNCHANGED <<file, watching, fold, budget, dirty, selfWrites, touched, swallowed, missed>>
        /\ torn' \subseteq torn /\ halved' \subseteq halved
    BY <1>7 DEF DeleteFile, DeleteNow
  <2>2. QED
    BY <1>1, <2>1 DEF FilesTyped
<1>8. ASSUME NEW p \in Path, Forget(p) PROVE FilesTyped'
  <2>1. UNCHANGED <<watching, fold, budget, selfWrites, swallowed, missed>> /\ halved' \subseteq halved
    BY <1>8 DEF Forget
  <2>2. /\ file' \in {file, [file EXCEPT ![p] = None]} /\ touched' \subseteq touched \cup {p}
        /\ dirty' \subseteq dirty \cup {p} /\ torn' \subseteq torn \cup {p}
    BY <1>8 DEF Forget
  <2>3. file' \in [Path -> {None} \cup Content]
    BY <1>1, <2>2
  <2>4. QED
    BY <1>1, <2>1, <2>2, <2>3 DEF FilesTyped
<1>9. ASSUME NEW p \in Path, RequestForget(p) PROVE FilesTyped'
  <2>1. budget' \in 0..Budget
    BY <1>1, <1>9, SpendIsTyped DEF RequestForget
  <2>2. UNCHANGED <<file, watching, fold, dirty, selfWrites, touched, swallowed, missed, torn, halved>>
    BY <1>9 DEF RequestForget, history
  <2>3. QED
    BY <1>1, <2>1, <2>2 DEF FilesTyped
<1>10. ASSUME NEW r \in Remember, BeginRemember(r) \/ WriteFailed(r) PROVE FilesTyped'
  <2>1. UNCHANGED <<file, watching, budget, dirty, selfWrites, touched, swallowed, missed, torn, halved>>
    BY <1>10 DEF BeginRemember, WriteFailed, history
  <2>2. PathOf[r] \in Path
    BY RequestAssumption
  <2>3. PICK f : f \in Fold /\ fold' = [fold EXCEPT ![r] = f]
    BY <1>1, <1>10, <2>2 DEF BeginRemember, WriteFailed, Fold
  <2>4. QED
    BY <1>1, <2>1, <2>3 DEF FilesTyped
<1>11. ASSUME NEW r \in Remember, WriteMemory(r) PROVE FilesTyped'
  <2>1. PathOf[r] \in Path /\ NoteOf[r] \in Note /\ fold[r] \in Fold
    BY <1>1, RequestAssumption
  <2>2. PICK c : c = Folded(fold[r].base, NoteOf[r])
    OBVIOUS
  <2>3. c \in Content
    BY <2>1, <2>2 DEF Folded, Content, Fold
  <2>4. file' = [file EXCEPT ![PathOf[r]] = c]
    BY <1>11, <2>2 DEF WriteMemory
  <2>5. file' \in [Path -> {None} \cup Content]
    BY <1>1, <2>1, <2>3, <2>4
  <2>6. PICK f : f = [stage |-> "done", base |-> None]
    OBVIOUS
  <2>7. f \in Fold /\ fold' = [fold EXCEPT ![r] = f]
    BY <1>11, <2>6 DEF WriteMemory, Fold
  <2>8. fold' \in [Remember -> Fold]
    BY <1>1, <2>7
  <2>9. /\ UNCHANGED <<watching, budget, swallowed, torn, halved>>
        /\ missed' \subseteq missed /\ dirty' \subseteq dirty \cup {PathOf[r]}
        /\ selfWrites' = selfWrites \cup {PathOf[r]} /\ touched' \subseteq touched
    BY <1>11 DEF WriteMemory
  <2>10. QED
    BY <1>1, <2>1, <2>5, <2>8, <2>9 DEF FilesTyped
<1>12. CASE EndBoot
  <2>1. UNCHANGED <<file, fold, budget, selfWrites, touched, swallowed, missed, torn, halved>>
        /\ watching' = TRUE /\ dirty' = dirty \cup Present
    BY <1>12 DEF EndBoot, history
  <2>2. QED
    BY <1>1, <1>2, <2>1 DEF FilesTyped
<1>13. ASSUME NEW force \in BOOLEAN, BeginReindex(force) PROVE FilesTyped'
  <2>1. budget' \in 0..Budget
    BY <1>1, <1>13, SpendIsTyped DEF BeginReindex
  <2>2. UNCHANGED <<file, watching, fold, dirty, selfWrites, touched, swallowed, missed, torn, halved>>
    BY <1>13 DEF BeginReindex, history
  <2>3. QED
    BY <1>1, <2>1, <2>2 DEF FilesTyped
<1>14. ASSUME UNCHANGED <<file, watching, fold, budget, dirty, selfWrites, touched, swallowed, missed, torn, halved>>
       PROVE  FilesTyped'
  BY <1>1, <1>14 DEF FilesTyped
<1>15. ASSUME NEW w \in Walker, WalkStep(w) PROVE FilesTyped'
  BY <1>14, <1>15 DEF WalkStep, VisitFile, AfterRefresh, FileVisited, history
<1>16. CASE RetryStep
  BY <1>14, <1>16 DEF RetryStep, BeginRetry, RetryEmbedded, RetryAdded, history
<1>17. CASE BeginBoot \/ EndReindex \/ FindOrphans \/ DeleteOrphans \/ Cluster \/ UNCHANGED vars
  BY <1>14, <1>17 DEF BeginBoot, EndReindex, FindOrphans, DeleteOrphans, Cluster, vars, history
<1>18. CASE Kill
  <2>1. budget' \in 0..Budget
    BY <1>1, <1>18, SpendIsTyped DEF Kill
  <2>2. /\ file' = file /\ watching' = FALSE /\ dirty' = {} /\ selfWrites' = {} /\ touched' = {} /\ swallowed' = {}
        /\ missed' \subseteq missed \cup Path
    BY <1>18 DEF Kill
  <2>3. torn' \subseteq Path /\ halved' \subseteq Path
    BY <1>1, <1>2, <1>18 DEF Kill, CutBetweenJobs, CutIndex, CutDelete, Stored
  <2>4. fold' \in [Remember -> Fold]
    BY <1>1, <1>18 DEF Kill, Fold
  <2>5. QED
    BY <1>1, <2>1, <2>2, <2>3, <2>4 DEF FilesTyped
<1>19. QED
  BY <1>3, <1>4, <1>5, <1>6, <1>7, <1>8, <1>9, <1>10, <1>11, <1>12, <1>13, <1>15, <1>16, <1>17, <1>18 DEF Next, Serve

LEMMA JobsStayTyped ==
  ASSUME Typed, JobsAreSerial, [Next]_vars
  PROVE  JobsTyped'
<1>1. JobsTyped
  BY DEF Typed
<1>2. ASSUME NEW p \in Path, NEW op \in {"index", "delete", "forget"}, NEW by \in {None} \cup Walker, jobs' = Queued(p, op, by)
      PROVE  JobsTyped'
  BY <1>1, <1>2, QueuedIsTyped DEF JobsTyped
<1>3. ASSUME NEW p \in Path, jobs[p] # <<>>, jobs' = Ended(p)
      PROVE  JobsTyped'
  BY <1>1, <1>3, EndedIsTyped DEF JobsTyped
<1>4. ASSUME UNCHANGED jobs PROVE JobsTyped'
  BY <1>1, <1>4 DEF JobsTyped
<1>5. ASSUME NEW p \in Path, WatchEvent(p) PROVE JobsTyped'
  <2>1. CASE UNCHANGED jobs
    BY <1>4, <2>1
  <2>2. CASE jobs' = Queued(p, IF file[p] = None THEN "delete" ELSE "index", None)
    <3>1. PICK op \in {"index", "delete", "forget"} : op = IF file[p] = None THEN "delete" ELSE "index"
      OBVIOUS
    <3>2. QED
      BY <1>2, <2>2, <3>1
  <2>3. QED
    BY <1>5, <2>1, <2>2 DEF WatchEvent
<1>6. ASSUME NEW p \in Path, RequestForget(p) PROVE JobsTyped'
  BY <1>2, <1>6 DEF RequestForget
<1>7. ASSUME NEW r \in Remember, WriteMemory(r) PROVE JobsTyped'
  <2>1. PathOf[r] \in Path
    BY RequestAssumption
  <2>2. QED
    BY <1>2, <1>7, <2>1 DEF WriteMemory
<1>8. ASSUME NEW w \in Walker, NEW p \in Path, VisitFile(w, p) PROVE JobsTyped'
  <2>1. PICK op \in {"index", "delete", "forget"} : op = IF Refresh(w, p) THEN "delete" ELSE "index"
    OBVIOUS
  <2>2. jobs' = Queued(p, op, w)
    BY <1>8, <2>1 DEF VisitFile
  <2>3. QED
    BY <1>2, <2>2
<1>9. ASSUME NEW w \in Walker, AfterRefresh(w) PROVE JobsTyped'
  <2>1. walk[w] \in Walk /\ walk[w].at # None
    BY <1>9 DEF AfterRefresh, JobAwaited, Typed, WalksTyped
  <2>2. walk[w].at \in Path
    BY <2>1 DEF Walk
  <2>3. QED
    BY <1>2, <1>9, <2>2 DEF AfterRefresh
<1>10. ASSUME NEW p \in Path, BeginIndex(p) PROVE JobsTyped'
  BY <1>3, <1>4, <1>10 DEF BeginIndex, HeadIs
<1>11. ASSUME NEW p \in Path, DeleteFile(p) \/ Forget(p) PROVE JobsTyped'
  BY <1>3, <1>11 DEF DeleteFile, Forget, HeadIs
<1>12. CASE Kill
  <2>1. <<>> \in Seq(Job)
    OBVIOUS
  <2>2. QED
    BY <1>12, <2>1 DEF Kill, JobsTyped
<1>13. ASSUME NEW p \in Path, Embedded(p) \/ Added(p) \/ EmbedFailed(p) PROVE JobsTyped'
  <2>1. jobs[p] # <<>>
    BY <1>13 DEF JobsAreSerial, HeadIs, Embedded, Added, EmbedFailed
  <2>2. jobs' = Ended(p) \/ UNCHANGED jobs
    BY <1>13 DEF Embedded, Added, EmbedFailed, EndIndex
  <2>3. QED
    BY <1>3, <1>4, <2>1, <2>2
<1>14. CASE \/ \E p \in Path : Edit(p)
            \/ \E r \in Remember : BeginRemember(r) \/ WriteFailed(r)
            \/ BeginBoot \/ EndBoot \/ EndReindex \/ (\E force \in BOOLEAN : BeginReindex(force))
            \/ (\E w \in Walker : FileVisited(w))
            \/ FindOrphans \/ DeleteOrphans \/ Cluster \/ UNCHANGED vars
  BY <1>4, <1>14 DEF Edit, BeginRemember, WriteFailed, BeginBoot, EndBoot, EndReindex, BeginReindex,
     FileVisited, FindOrphans, DeleteOrphans, Cluster, vars, worker
<1>15. CASE RetryStep
  BY <1>4, <1>15 DEF RetryStep, BeginRetry, RetryEmbedded, RetryAdded
<1>16. QED
  BY <1>5, <1>6, <1>7, <1>8, <1>9, <1>10, <1>11, <1>12, <1>13, <1>14, <1>15 DEF Next, Serve, WalkStep

LEMMA WalksStayTyped ==
  ASSUME Typed, [Next]_vars
  PROVE  WalksTyped'
<1>1. walk \in [Walker -> {None} \cup Walk]
  BY DEF Typed, WalksTyped
<1>2. ASSUME NEW w \in Walker, NEW k \in {None} \cup Walk, walk' = [walk EXCEPT ![w] = k]
      PROVE  WalksTyped'
  BY <1>1, <1>2 DEF WalksTyped
<1>3. ASSUME UNCHANGED walk PROVE WalksTyped'
  BY <1>1, <1>3 DEF WalksTyped
<1>4. ASSUME NEW force \in BOOLEAN PROVE NewWalk(force) \in Walk
  BY DEF NewWalk, Walk, Present
<1>5. CASE BeginBoot \/ EndBoot \/ EndReindex \/ \E force \in BOOLEAN : BeginReindex(force)
  <2>1. PICK w \in Walker, k \in {None} \cup Walk : walk' = [walk EXCEPT ![w] = k]
    BY <1>4, <1>5 DEF BeginBoot, EndBoot, EndReindex, BeginReindex, Walker
  <2>2. QED
    BY <1>2, <2>1
<1>6. ASSUME NEW w \in Walker, NEW p \in Path, VisitFile(w, p) PROVE WalksTyped'
  <2>1. walk[w] \in Walk
    BY <1>1, <1>6 DEF VisitFile, Fetching
  <2>2. PICK n \in {"refresh", "index", "done"} : n = IF Refresh(w, p) THEN "index" ELSE "done"
    OBVIOUS
  <2>3. walk' = [walk EXCEPT ![w].at = p, ![w].left = @ \ {p}, ![w].next = n]
    BY <1>6, <2>2 DEF VisitFile
  <2>4. walk' = [walk EXCEPT ![w] = [walk[w] EXCEPT !.at = p, !.left = @ \ {p}, !.next = n]]
    BY <1>1, <2>1, <2>3 DEF Walk
  <2>5. [walk[w] EXCEPT !.at = p, !.left = @ \ {p}, !.next = n] \in Walk
    BY <2>1 DEF Walk
  <2>6. QED
    BY <1>2, <2>4, <2>5
<1>7. ASSUME NEW w \in Walker, AfterRefresh(w) \/ FileVisited(w) PROVE WalksTyped'
  <2>1. walk[w] \in Walk
    BY <1>1, <1>7 DEF AfterRefresh, FileVisited, JobAwaited
  <2>2. \/ walk' = [walk EXCEPT ![w] = [walk[w] EXCEPT !.next = "done"]]
        \/ walk' = [walk EXCEPT ![w] = [walk[w] EXCEPT !.at = None]]
    BY <1>1, <1>7 DEF AfterRefresh, FileVisited
  <2>3. [walk[w] EXCEPT !.next = "done"] \in Walk /\ [walk[w] EXCEPT !.at = None] \in Walk
    BY <2>1 DEF Walk
  <2>4. QED
    BY <1>2, <2>2, <2>3
<1>8. CASE Kill
  BY <1>8 DEF Kill, WalksTyped
<1>9. ASSUME NEW p \in Path, Edit(p) \/ WatchEvent(p) \/ Serve(p) \/ RequestForget(p) PROVE WalksTyped'
  BY <1>3, <1>9 DEF Edit, WatchEvent, Serve, BeginIndex, Embedded, Added, EmbedFailed, DeleteFile, Forget,
     RequestForget, worker
<1>10. ASSUME NEW r \in Remember, BeginRemember(r) \/ WriteMemory(r) \/ WriteFailed(r) PROVE WalksTyped'
  BY <1>3, <1>10 DEF BeginRemember, WriteMemory, WriteFailed
<1>11. CASE RetryStep
  BY <1>3, <1>11 DEF RetryStep, BeginRetry, RetryEmbedded, RetryAdded
<1>12. CASE FindOrphans \/ DeleteOrphans \/ Cluster \/ UNCHANGED vars
  BY <1>3, <1>12 DEF FindOrphans, DeleteOrphans, Cluster, vars
<1>13. QED
  BY <1>5, <1>6, <1>7, <1>8, <1>9, <1>10, <1>11, <1>12 DEF Next, WalkStep

LEMMA NewDocumentIsTyped ==
  ASSUME StoreTyped, NEW p \in Path, hand[p] # None
  PROVE  /\ hand[p] \in Hand
         /\ NewDocument(hand[p]) \in Document
         /\ NewDocument(hand[p]).sha = hand[p].content
         /\ NewDocument(hand[p]).text = hand[p].content
         /\ NewDocument(hand[p]).chunk = hand[p].chunk
         /\ hand[p].chunk \in Chunk /\ hand[p].content \in Content
<1>1. hand[p] \in Hand
  BY DEF StoreTyped
<1>2. QED
  BY <1>1 DEF Hand, NewDocument, Document

(* The steps that touch neither the store nor what a job carries. *)
Elsewhere ==
  \/ \E p \in Path : Edit(p) \/ WatchEvent(p) \/ RequestForget(p)
  \/ \E r \in Remember : BeginRemember(r) \/ WriteMemory(r) \/ WriteFailed(r)
  \/ BeginBoot \/ EndBoot \/ EndReindex \/ (\E force \in BOOLEAN : BeginReindex(force))
  \/ (\E w \in Walker : WalkStep(w))
  \/ UNCHANGED vars

LEMMA ElsewhereKeepsTheStore ==
  ASSUME Elsewhere
  PROVE  UNCHANGED <<doc, vectors, pending, found, clustered, hand, retry, torn, halved>>
<1>1. ASSUME NEW p \in Path, Edit(p) \/ WatchEvent(p) \/ RequestForget(p)
      PROVE  UNCHANGED <<doc, vectors, pending, found, clustered, hand, retry, torn, halved>>
  BY <1>1 DEF Edit, WatchEvent, RequestForget, index, worker, history
<1>2. ASSUME NEW r \in Remember, BeginRemember(r) \/ WriteMemory(r) \/ WriteFailed(r)
      PROVE  UNCHANGED <<doc, vectors, pending, found, clustered, hand, retry, torn, halved>>
  BY <1>2 DEF BeginRemember, WriteMemory, WriteFailed, index, history
<1>3. CASE BeginBoot \/ EndBoot \/ EndReindex \/ (\E force \in BOOLEAN : BeginReindex(force))
  BY <1>3 DEF BeginBoot, EndBoot, EndReindex, BeginReindex, index, history
<1>4. ASSUME NEW w \in Walker, WalkStep(w)
      PROVE  UNCHANGED <<doc, vectors, pending, found, clustered, hand, retry, torn, halved>>
  BY <1>4 DEF WalkStep, VisitFile, AfterRefresh, FileVisited, index, history
<1>5. CASE UNCHANGED vars
  BY <1>5 DEF vars
<1>6. QED
  BY <1>1, <1>2, <1>3, <1>4, <1>5 DEF Elsewhere

LEMMA StoreStaysTyped ==
  ASSUME Typed, [Next]_vars
  PROVE  StoreTyped'
<1>1. /\ doc \in [Path -> {None} \cup Document] /\ vectors \subseteq Chunk /\ pending \subseteq Chunk
      /\ found \subseteq Chunk /\ clustered \in BOOLEAN
      /\ hand \in [Path -> {None} \cup Hand] /\ retry \in {None} \cup Retry /\ StoreTyped
  BY DEF Typed, StoreTyped
<1>2. ASSUME UNCHANGED <<doc, vectors, pending, found, clustered, hand, retry>> PROVE StoreTyped'
  BY <1>1, <1>2 DEF StoreTyped
<1>3. ASSUME NEW p \in Path, NEW d \in {None} \cup Document, NEW h \in {None} \cup Hand,
             doc' = [doc EXCEPT ![p] = d], hand' = [hand EXCEPT ![p] = h],
             vectors' \subseteq Chunk, pending' \subseteq Chunk, UNCHANGED <<found, clustered, retry>>
      PROVE  StoreTyped'
  BY <1>1, <1>3 DEF StoreTyped
<1>4. ASSUME NEW p \in Path PROVE doc = [doc EXCEPT ![p] = doc[p]] /\ hand = [hand EXCEPT ![p] = hand[p]]
                                  /\ doc[p] \in {None} \cup Document /\ hand[p] \in {None} \cup Hand
                                  /\ Dropped(p) \subseteq Chunk
  BY <1>1 DEF Dropped
<1>5. ASSUME NEW p \in Path, BeginIndex(p) PROVE StoreTyped'
  <2>1. CASE UNCHANGED <<index, hand>>
    BY <1>2, <1>5, <2>1 DEF BeginIndex, index
  <2>2. CASE IndexEmpty(p) /\ UNCHANGED hand
    <3>1. UNCHANGED <<found, clustered, retry>>
      BY <1>5 DEF BeginIndex
    <3>2. doc' = [doc EXCEPT ![p] = None] /\ vectors' \subseteq Chunk /\ pending' \subseteq Chunk
      BY <1>1, <1>4, <2>2 DEF IndexEmpty, DeleteNow
    <3>3. QED
      BY <1>3, <1>4, <2>2, <3>1, <3>2
  <2>3. CASE /\ Chunk \ InUse # {} /\ file[p] \notin {None, {}} /\ UNCHANGED index
             /\ hand' = [hand EXCEPT ![p] = [content |-> file[p], chunk |-> newChunkId, stage |-> "embedding"]]
    <3>1. PICK h : h = [content |-> file[p], chunk |-> newChunkId, stage |-> "embedding"]
      OBVIOUS
    <3>2. newChunkId \in Chunk /\ file[p] \in Content
      BY <2>3, NewChunkIsNew DEF Typed, FilesTyped
    <3>3. h \in Hand
      BY <3>1, <3>2 DEF Hand
    <3>4. hand' = [hand EXCEPT ![p] = h] /\ UNCHANGED <<doc, vectors, pending, found, clustered, retry>>
      BY <1>5, <2>3, <3>1 DEF BeginIndex, index
    <3>5. QED
      BY <1>1, <1>3, <1>4, <3>3, <3>4
  <2>4. QED
    BY <1>5, <2>1, <2>2, <2>3 DEF BeginIndex
<1>6. ASSUME NEW p \in Path, Embedded(p) PROVE StoreTyped'
  <2>1. hand[p] # None /\ doc' = [doc EXCEPT ![p] = NewDocument(hand[p])] /\ UNCHANGED <<pending, found, clustered, retry>>
    BY <1>6 DEF Embedded, Stored
  <2>2. vectors' \subseteq Dropped(p) \cup {hand[p].chunk}
    BY <1>6 DEF Embedded
  <2>3. hand' = [hand EXCEPT ![p] = None] \/ hand' = [hand EXCEPT ![p] = [hand[p] EXCEPT !.stage = "adding"]]
    BY <1>1, <1>6 DEF Embedded, EndIndex
  <2>4. /\ hand[p] \in Hand /\ NewDocument(hand[p]) \in Document /\ hand[p].chunk \in Chunk
    BY <1>1, <2>1, NewDocumentIsTyped
  <2>5. [hand[p] EXCEPT !.stage = "adding"] \in Hand
    BY <2>4 DEF Hand
  <2>6. PICK h \in {None} \cup Hand : hand' = [hand EXCEPT ![p] = h]
    BY <2>3, <2>5
  <2>7. vectors' \subseteq Chunk /\ pending' \subseteq Chunk
    BY <1>1, <1>4, <2>1, <2>2, <2>4
  <2>8. QED
    BY <1>3, <2>1, <2>4, <2>6, <2>7
<1>7. ASSUME NEW p \in Path, Added(p) PROVE StoreTyped'
  <2>1. hand[p] # None /\ UNCHANGED <<doc, pending, found, clustered, retry>> /\ hand' = [hand EXCEPT ![p] = None]
        /\ vectors' \subseteq vectors \cup {hand[p].chunk}
    BY <1>7 DEF Added, EndIndex
  <2>2. hand[p].chunk \in Chunk
    BY <1>1, <2>1, NewDocumentIsTyped
  <2>3. vectors' \subseteq Chunk /\ pending' \subseteq Chunk
    BY <1>1, <2>1, <2>2
  <2>4. doc' = [doc EXCEPT ![p] = doc[p]] /\ doc[p] \in {None} \cup Document
    BY <1>4, <2>1
  <2>5. QED
    BY <1>3, <2>1, <2>3, <2>4
<1>8. ASSUME NEW p \in Path, EmbedFailed(p) PROVE StoreTyped'
  <2>1. /\ hand[p] # None /\ doc' = [doc EXCEPT ![p] = NewDocument(hand[p])] /\ UNCHANGED <<found, clustered, retry>>
        /\ hand' = [hand EXCEPT ![p] = None] /\ vectors' = Dropped(p) /\ pending' = pending \cup {hand[p].chunk}
    BY <1>8 DEF EmbedFailed, Stored, EndIndex, PendingWith
  <2>2. hand[p].chunk \in Chunk /\ NewDocument(hand[p]) \in Document
    BY <1>1, <2>1, NewDocumentIsTyped
  <2>3. vectors' \subseteq Chunk /\ pending' \subseteq Chunk
    BY <1>1, <1>4, <2>1, <2>2
  <2>4. QED
    BY <1>3, <2>1, <2>2, <2>3
<1>9. ASSUME NEW p \in Path, DeleteFile(p) \/ Forget(p) PROVE StoreTyped'
  <2>1. UNCHANGED <<pending, found, clustered, retry, hand>> /\ doc' = [doc EXCEPT ![p] = None] /\ vectors' = Dropped(p)
    BY <1>9 DEF DeleteFile, DeleteNow, Forget
  <2>2. QED
    BY <1>1, <1>3, <1>4, <2>1
<1>10. ASSUME NEW S \in SUBSET pending, BeginRetry(S) PROVE StoreTyped'
  <2>1. UNCHANGED <<doc, vectors, found, clustered, hand>> /\ pending' \subseteq pending
    BY <1>10 DEF BeginRetry
  <2>2. retry' = None \/ retry' = [rows |-> S \cap Live, storing |-> None]
    BY <1>10 DEF BeginRetry
  <2>3. S \cap Live \subseteq Chunk
    BY <1>1
  <2>4. [rows |-> S \cap Live, storing |-> None] \in Retry
    BY <2>3 DEF Retry
  <2>5. QED
    BY <1>1, <2>1, <2>2, <2>4 DEF StoreTyped
<1>11. ASSUME retry # None, NEW got \in SUBSET retry.rows, RetryEmbedded(got) PROVE StoreTyped'
  <2>1. UNCHANGED <<doc, found, clustered, hand>> /\ pending' \subseteq pending /\ vectors' \subseteq vectors \cup got
    BY <1>11 DEF RetryEmbedded, StillLive
  <2>2. retry' = None \/ retry' = [rows |-> got, storing |-> StillLive(got)]
    BY <1>11 DEF RetryEmbedded
  <2>3. retry.rows \subseteq Chunk
    BY <1>1, <1>11 DEF Retry
  <2>4. [rows |-> got, storing |-> StillLive(got)] \in Retry
    BY <2>3 DEF Retry, StillLive
  <2>5. QED
    BY <1>1, <2>1, <2>2, <2>3, <2>4 DEF StoreTyped
<1>12. CASE RetryAdded
  <2>1. retry # None /\ retry.storing # None /\ UNCHANGED <<doc, found, clustered, hand>> /\ pending' \subseteq pending
        /\ vectors' \subseteq vectors \cup retry.storing /\ retry' = None
    BY <1>12 DEF RetryAdded
  <2>2. retry.storing \subseteq Chunk
    BY <1>1, <2>1 DEF Retry
  <2>3. QED
    BY <1>1, <2>1, <2>2 DEF StoreTyped
<1>13. CASE FindOrphans \/ DeleteOrphans \/ Cluster
  <2>1. UNCHANGED <<doc, pending, hand, retry>> /\ vectors' \subseteq vectors /\ found' \subseteq found \cup vectors
        /\ clustered' \in BOOLEAN
    BY <1>1, <1>13 DEF FindOrphans, DeleteOrphans, Cluster, index
  <2>2. QED
    BY <1>1, <2>1 DEF StoreTyped
<1>14. ASSUME NEW p \in Path, CutIndex(p) \/ CutDelete(p)
       PROVE  vectors' \subseteq Chunk /\ doc' \in [Path -> {None} \cup Document]
  <2>1. vectors' = Dropped(p)
    BY <1>14 DEF CutIndex, CutDelete
  <2>2. \E d \in {None} \cup Document : doc' = [doc EXCEPT ![p] = d]
    <3>1. CASE doc' = doc \/ doc' = [doc EXCEPT ![p] = None]
      BY <1>1, <3>1
    <3>2. CASE hand[p] # None /\ Stored(p)
      BY <1>1, <3>2, NewDocumentIsTyped DEF Stored
    <3>3. CASE hand[p] # None /\ doc' = HalfStored(p)
      <4>1. hand[p].content \in Content
        BY <1>1, <3>3, NewDocumentIsTyped
      <4>2. PICK t, c : /\ t = IF doc[p] = None THEN {} ELSE doc[p].text
                        /\ c = IF doc[p] = None THEN None ELSE doc[p].chunk
        OBVIOUS
      <4>3. t \in Content /\ c \in {None} \cup Chunk
        BY <1>1, <4>2 DEF Document, Content
      <4>4. [sha |-> hand[p].content, text |-> t, chunk |-> c] \in Document
        BY <4>1, <4>3 DEF Document
      <4>5. doc' = [doc EXCEPT ![p] = [sha |-> hand[p].content, text |-> t, chunk |-> c]]
        BY <3>3, <4>2 DEF HalfStored
      <4>6. QED
        BY <4>4, <4>5
    <3>4. QED
      BY <1>14, <3>1, <3>2, <3>3 DEF CutIndex, CutDelete
  <2>3. QED
    BY <1>1, <1>4, <2>1, <2>2
<1>15. CASE Kill
  <2>1. UNCHANGED <<pending, clustered>> /\ found' = {} /\ retry' = None /\ hand' = [p \in Path |-> None]
    BY <1>15 DEF Kill
  <2>2. vectors' \subseteq Chunk /\ doc' \in [Path -> {None} \cup Document]
    BY <1>1, <1>14, <1>15 DEF Kill, CutBetweenJobs
  <2>3. QED
    BY <1>1, <2>1, <2>2 DEF StoreTyped
<1>16. CASE Elsewhere
  BY <1>2, <1>16, ElsewhereKeepsTheStore
<1>17. QED
  BY <1>5, <1>6, <1>7, <1>8, <1>9, <1>10, <1>11, <1>12, <1>13, <1>15, <1>16 DEF Next, Serve, RetryStep, Elsewhere

(* Every step elsewhere leaves a path's jobs or adds one to their end. *)
LEMMA ElsewhereQueues ==
  ASSUME Typed, Elsewhere, NEW q \in Path
  PROVE  \/ jobs'[q] = jobs[q]
         \/ \E op \in {"index", "delete", "forget"}, by \in {None} \cup Walker :
              jobs'[q] = Append(jobs[q], [op |-> op, by |-> by])
<1>1. JobsTyped
  BY DEF Typed
<1>2. ASSUME NEW p \in Path, NEW op \in {"index", "delete", "forget"}, NEW by \in {None} \cup Walker,
             jobs' = Queued(p, op, by)
      PROVE  jobs'[q] = jobs[q] \/ jobs'[q] = Append(jobs[q], [op |-> op, by |-> by])
  <2>1. /\ Queued(p, op, by)[p] = Append(jobs[p], [op |-> op, by |-> by])
        /\ \A x \in Path \ {p} : Queued(p, op, by)[x] = jobs[x]
    BY <1>1, QueuedIsTyped
  <2>2. CASE q = p
    BY <1>2, <2>1, <2>2
  <2>3. CASE q # p
    BY <1>2, <2>1, <2>3
  <2>4. QED
    BY <2>2, <2>3
<1>3. \/ UNCHANGED jobs
      \/ \E p \in Path, op \in {"index", "delete", "forget"}, by \in {None} \cup Walker : jobs' = Queued(p, op, by)
  <2>1. ASSUME NEW p \in Path, WatchEvent(p), ~UNCHANGED jobs
        PROVE  \E op \in {"index", "delete", "forget"} : jobs' = Queued(p, op, None)
    BY <2>1 DEF WatchEvent
  <2>2. ASSUME NEW r \in Remember, WriteMemory(r) PROVE PathOf[r] \in Path /\ jobs' = Queued(PathOf[r], "index", None)
    BY <2>2, RequestAssumption DEF WriteMemory
  <2>3. ASSUME NEW w \in Walker, NEW p \in Path, VisitFile(w, p)
        PROVE  \E op \in {"index", "delete", "forget"} : jobs' = Queued(p, op, w)
    BY <2>3 DEF VisitFile
  <2>4. ASSUME NEW w \in Walker, AfterRefresh(w)
        PROVE  walk[w].at \in Path /\ jobs' = Queued(walk[w].at, "index", w)
    <3>1. walk[w] \in Walk /\ walk[w].at # None
      BY <2>4 DEF AfterRefresh, JobAwaited, Typed, WalksTyped
    <3>2. walk[w].at \in Path
      BY <3>1 DEF Walk
    <3>3. QED
      BY <2>4, <3>2 DEF AfterRefresh
  <2>5. ASSUME NEW p \in Path, RequestForget(p) PROVE jobs' = Queued(p, "forget", None)
    BY <2>5 DEF RequestForget
  <2>6. CASE \E p \in Path : Edit(p) \/ WatchEvent(p) \/ RequestForget(p)
    <3>1. ASSUME NEW p \in Path, Edit(p) PROVE UNCHANGED jobs
      BY <3>1 DEF Edit, worker
    <3>2. QED
      BY <2>1, <2>5, <2>6, <3>1
  <2>7. CASE \E r \in Remember : BeginRemember(r) \/ WriteMemory(r) \/ WriteFailed(r)
    BY <2>2, <2>7 DEF BeginRemember, WriteFailed
  <2>8. CASE BeginBoot \/ EndBoot \/ EndReindex \/ (\E force \in BOOLEAN : BeginReindex(force)) \/ UNCHANGED vars
    BY <2>8 DEF BeginBoot, EndBoot, EndReindex, BeginReindex, vars
  <2>9. CASE \E w \in Walker : WalkStep(w)
    BY <2>3, <2>4, <2>9 DEF WalkStep, FileVisited
  <2>10. QED
    BY <2>6, <2>7, <2>8, <2>9 DEF Elsewhere
<1>4. CASE UNCHANGED jobs
  BY <1>4
<1>5. CASE \E p \in Path, op \in {"index", "delete", "forget"}, by \in {None} \cup Walker : jobs' = Queued(p, op, by)
  <2>1. PICK p \in Path, op \in {"index", "delete", "forget"}, by \in {None} \cup Walker : jobs' = Queued(p, op, by)
    BY <1>5
  <2>2. QED
    BY <1>2, <2>1
<1>6. QED
  BY <1>3, <1>4, <1>5

(* A path's first job stays the first when one is added. *)
LEMMA HeadStays ==
  ASSUME Typed, NEW q \in Path, NEW op, jobs[q] # <<>>,
         NEW k \in {"index", "delete", "forget"}, NEW by \in {None} \cup Walker,
         jobs'[q] = Append(jobs[q], [op |-> k, by |-> by])
  PROVE  jobs'[q] # <<>> /\ (HeadIs(q, op)' <=> HeadIs(q, op))
<1>1. PICK j : j = [op |-> k, by |-> by]
  OBVIOUS
<1>2. j \in Job
  BY <1>1 DEF Job
<1>3. PICK s : s = jobs[q]
  OBVIOUS
<1>4. s \in Seq(Job) /\ s # <<>> /\ jobs'[q] = Append(s, j)
  BY <1>1, <1>3 DEF Typed, JobsTyped
<1>5. Append(s, j) # <<>> /\ Head(Append(s, j)) = Head(s)
  BY <1>2, <1>4
<1>6. QED
  BY <1>3, <1>4, <1>5 DEF HeadIs

(* What a job carries is its own path's, and the document it wrote is there when
   it comes to add the vector. *)
LEMMA SerialJobs ==
  ASSUME Typed, JobsAreSerial, [Next]_vars
  PROVE  JobsAreSerial'
<1>1. SUFFICES ASSUME NEW q \in Path, hand'[q] # None
               PROVE  /\ HeadIs(q, "index")' /\ hand'[q].content # {}
                      /\ hand'[q].stage = "adding" => doc'[q] = NewDocument(hand'[q])
  BY DEF JobsAreSerial, Adding
<1>2. /\ doc \in [Path -> {None} \cup Document] /\ hand \in [Path -> {None} \cup Hand] /\ jobs \in [Path -> Seq(Job)]
      /\ StoreTyped /\ JobsTyped
  BY DEF Typed, StoreTyped, JobsTyped
<1>3. ASSUME hand[q] # None
      PROVE  /\ HeadIs(q, "index") /\ hand[q].content # {}
             /\ hand[q].stage = "adding" => doc[q] = NewDocument(hand[q])
  BY <1>3 DEF JobsAreSerial, Adding
<1>4. ASSUME hand'[q] = hand[q], jobs'[q] = jobs[q], doc'[q] = doc[q]
      PROVE  /\ HeadIs(q, "index")' /\ hand'[q].content # {}
             /\ hand'[q].stage = "adding" => doc'[q] = NewDocument(hand'[q])
  BY <1>1, <1>3, <1>4 DEF HeadIs
<1>5. CASE Elsewhere
  <2>1. hand'[q] = hand[q] /\ doc'[q] = doc[q]
    BY <1>5, ElsewhereKeepsTheStore
  <2>2. HeadIs(q, "index") /\ jobs[q] # <<>>
    BY <1>1, <1>3, <2>1 DEF HeadIs
  <2>3. HeadIs(q, "index")'
    <3>1. CASE jobs'[q] = jobs[q]
      BY <2>2, <3>1 DEF HeadIs
    <3>2. ASSUME NEW op \in {"index", "delete", "forget"}, NEW by \in {None} \cup Walker,
                 jobs'[q] = Append(jobs[q], [op |-> op, by |-> by])
          PROVE  HeadIs(q, "index")'
      BY <2>2, <3>2, HeadStays
    <3>3. QED
      BY <1>5, <3>1, <3>2, ElsewhereQueues
  <2>4. QED
    BY <1>1, <1>3, <2>1, <2>3
<1>6. ASSUME NEW p \in Path, BeginIndex(p)
      PROVE  /\ HeadIs(q, "index")' /\ hand'[q].content # {}
             /\ hand'[q].stage = "adding" => doc'[q] = NewDocument(hand'[q])
  <2>1. HeadIs(p, "index") /\ hand[p] = None /\ jobs[p] # <<>>
    BY <1>6 DEF BeginIndex, HeadIs
  <2>2. CASE UNCHANGED hand /\ jobs' = Ended(p)
    <3>1. q # p /\ jobs'[q] = jobs[q]
      BY <1>1, <1>2, <2>1, <2>2, EndedIsTyped
    <3>2. doc'[q] = doc[q]
      BY <1>2, <1>6, <3>1 DEF BeginIndex, index, IndexEmpty, DeleteNow
    <3>3. QED
      BY <1>4, <2>2, <3>1, <3>2
  <2>3. CASE /\ UNCHANGED <<jobs, doc>> /\ file[p] \notin {None, {}}
             /\ hand' = [hand EXCEPT ![p] = [content |-> file[p], chunk |-> newChunkId, stage |-> "embedding"]]
    <3>1. CASE q = p
      <4>1. hand'[q] = [content |-> file[p], chunk |-> newChunkId, stage |-> "embedding"]
        BY <1>2, <2>3, <3>1
      <4>2. HeadIs(q, "index")'
        BY <2>1, <2>3, <3>1 DEF HeadIs
      <4>3. QED
        BY <2>3, <4>1, <4>2
    <3>2. CASE q # p
      BY <1>2, <1>4, <2>3, <3>2
    <3>3. QED
      BY <3>1, <3>2
  <2>4. QED
    BY <1>6, <2>2, <2>3 DEF BeginIndex, index
<1>7. ASSUME NEW p \in Path, Embedded(p) \/ EmbedFailed(p) \/ Added(p)
      PROVE  /\ HeadIs(q, "index")' /\ hand'[q].content # {}
             /\ hand'[q].stage = "adding" => doc'[q] = NewDocument(hand'[q])
  <2>1. hand[p] # None
    BY <1>7 DEF Embedded, EmbedFailed, Added
  <2>2. HeadIs(p, "index") /\ jobs[p] # <<>> /\ hand[p].content # {} /\ hand[p] \in Hand
    BY <1>2, <2>1 DEF JobsAreSerial, HeadIs
  <2>3. CASE q # p
    <3>1. jobs'[q] = jobs[q]
      BY <1>2, <1>7, <2>2, <2>3, EndedIsTyped DEF Embedded, EmbedFailed, Added, EndIndex
    <3>2. hand'[q] = hand[q] /\ doc'[q] = doc[q]
      BY <1>2, <1>7, <2>3 DEF Embedded, EmbedFailed, Added, EndIndex, Stored
    <3>3. QED
      BY <1>4, <3>1, <3>2
  <2>4. CASE q = p
    <3>1. ~EndIndex(p)
      BY <1>1, <1>2, <2>4 DEF EndIndex
    <3>2. /\ hand' = [hand EXCEPT ![p].stage = "adding"] /\ UNCHANGED jobs
          /\ doc' = [doc EXCEPT ![p] = NewDocument(hand[p])]
      BY <1>7, <3>1 DEF Embedded, EmbedFailed, Added, Stored
    <3>3. hand'[p] = [hand[p] EXCEPT !.stage = "adding"] /\ doc'[p] = NewDocument(hand[p])
      BY <1>2, <3>2
    <3>4. hand'[p].content = hand[p].content /\ hand'[p].chunk = hand[p].chunk
      BY <2>2, <3>3 DEF Hand
    <3>5. doc'[p] = NewDocument(hand'[p])
      BY <3>3, <3>4 DEF NewDocument
    <3>6. HeadIs(p, "index")'
      BY <2>2, <3>2 DEF HeadIs
    <3>7. QED
      BY <2>2, <2>4, <3>4, <3>5, <3>6
  <2>5. QED
    BY <2>3, <2>4
<1>8. ASSUME NEW p \in Path, DeleteFile(p) \/ Forget(p)
      PROVE  /\ HeadIs(q, "index")' /\ hand'[q].content # {}
             /\ hand'[q].stage = "adding" => doc'[q] = NewDocument(hand'[q])
  <2>1. jobs[p] # <<>> /\ ~HeadIs(p, "index") /\ UNCHANGED hand /\ jobs' = Ended(p)
    BY <1>8 DEF DeleteFile, Forget, HeadIs
  <2>2. q # p
    BY <1>1, <1>3, <2>1
  <2>3. jobs'[q] = jobs[q]
    BY <1>2, <2>1, <2>2, EndedIsTyped
  <2>4. doc'[q] = doc[q]
    BY <1>2, <1>8, <2>2 DEF DeleteFile, DeleteNow, Forget
  <2>5. QED
    BY <1>4, <2>1, <2>3, <2>4
<1>9. CASE RetryStep \/ FindOrphans \/ DeleteOrphans \/ Cluster
  <2>1. UNCHANGED <<hand, jobs, doc>>
    BY <1>9 DEF RetryStep, BeginRetry, RetryEmbedded, RetryAdded, FindOrphans, DeleteOrphans, Cluster, index
  <2>2. QED
    BY <1>4, <2>1
<1>10. CASE Kill
  BY <1>1, <1>10 DEF Kill
<1>11. QED
  BY <1>5, <1>6, <1>7, <1>8, <1>9, <1>10 DEF Next, Serve, Elsewhere

LEMMA WholeDocuments ==
  ASSUME Typed, DocumentsAreWhole, JobsAreSerial, [Next]_vars
  PROVE  DocumentsAreWhole'
<1>1. /\ doc \in [Path -> {None} \cup Document] /\ hand \in [Path -> {None} \cup Hand] /\ StoreTyped
  BY DEF Typed, StoreTyped
<1>2. ASSUME UNCHANGED doc, halved \subseteq halved' PROVE DocumentsAreWhole'
  BY <1>2 DEF DocumentsAreWhole
<1>3. ASSUME NEW p \in Path, doc' = [doc EXCEPT ![p] = None], halved \ {p} \subseteq halved' PROVE DocumentsAreWhole'
  BY <1>1, <1>3 DEF DocumentsAreWhole
<1>4. ASSUME NEW p \in Path, hand[p] # None, Stored(p) PROVE DocumentsAreWhole'
  <2>1. /\ NewDocument(hand[p]).sha # {} /\ NewDocument(hand[p]).text = NewDocument(hand[p]).sha
        /\ NewDocument(hand[p]).chunk # None
    BY <1>1, <1>4, NewDocumentIsTyped, TypesAreNotNone DEF JobsAreSerial
  <2>2. doc'[p] = NewDocument(hand[p]) /\ \A q \in Path \ {p} : doc'[q] = doc[q]
    BY <1>1, <1>4 DEF Stored
  <2>3. halved' = halved \ {p}
    BY <1>4 DEF Stored
  <2>4. QED
    BY <2>1, <2>2, <2>3 DEF DocumentsAreWhole
<1>5. ASSUME NEW p \in Path, hand[p] # None, doc' = HalfStored(p), halved' = halved \cup {p} PROVE DocumentsAreWhole'
  <2>1. doc'[p].sha = hand[p].content /\ \A q \in Path \ {p} : doc'[q] = doc[q]
    BY <1>1, <1>5 DEF HalfStored
  <2>2. hand[p].content # {}
    BY <1>5 DEF JobsAreSerial
  <2>3. QED
    BY <1>5, <2>1, <2>2 DEF DocumentsAreWhole
<1>6. CASE Elsewhere
  BY <1>2, <1>6, ElsewhereKeepsTheStore
<1>7. ASSUME NEW p \in Path, BeginIndex(p) PROVE DocumentsAreWhole'
  BY <1>2, <1>3, <1>7 DEF BeginIndex, index, IndexEmpty, DeleteNow
<1>8. ASSUME NEW p \in Path, Embedded(p) \/ EmbedFailed(p) PROVE DocumentsAreWhole'
  BY <1>4, <1>8 DEF Embedded, EmbedFailed
<1>9. ASSUME NEW p \in Path, Added(p) PROVE DocumentsAreWhole'
  BY <1>2, <1>9 DEF Added
<1>10. ASSUME NEW p \in Path, DeleteFile(p) \/ Forget(p) PROVE DocumentsAreWhole'
  <2>1. doc' = [doc EXCEPT ![p] = None] /\ halved' = halved \ {p}
    BY <1>10 DEF DeleteFile, DeleteNow, Forget
  <2>2. QED
    BY <1>3, <2>1
<1>11. CASE RetryStep \/ FindOrphans \/ DeleteOrphans \/ Cluster
  BY <1>2, <1>11 DEF RetryStep, BeginRetry, RetryEmbedded, RetryAdded, FindOrphans, DeleteOrphans, Cluster, index, history
<1>12. CASE Kill
  <2>1. CASE CutBetweenJobs
    BY <1>2, <2>1 DEF CutBetweenJobs
  <2>2. ASSUME NEW p \in Path, CutIndex(p) PROVE DocumentsAreWhole'
    BY <1>2, <1>4, <1>5, <2>2 DEF CutIndex
  <2>3. ASSUME NEW p \in Path, CutDelete(p) PROVE DocumentsAreWhole'
    <3>1. CASE UNCHANGED <<doc, halved>>
      BY <1>2, <3>1
    <3>2. CASE doc' = [doc EXCEPT ![p] = None] /\ halved' = halved \ {p}
      BY <1>3, <3>2
    <3>3. QED
      BY <2>3, <3>1, <3>2 DEF CutDelete
  <2>4. QED
    BY <1>12, <2>1, <2>2, <2>3 DEF Kill
<1>13. QED
  BY <1>6, <1>7, <1>8, <1>9, <1>10, <1>11, <1>12 DEF Next, Serve, Elsewhere

-----------------------------------------------------------------------------
(* Chunks and vectors belong together.  Most steps replace the document of one
   path: its old chunk goes with its vector, and what comes instead is that chunk
   again or one that nothing referred to. *)

Owns(p, c) == doc[p] # None /\ doc[p].chunk = c /\ c # None
Arrives(d, c) == d # None /\ d.chunk = c /\ c # None

Matched == ChunksAreOwned /\ YieldsNeedCentroids /\ VectorsMatchChunks

LEMMA LiveIsOwned ==
  ASSUME NEW c
  PROVE  /\ c \in Live <=> \E q \in Path : Owns(q, c)
         /\ c \in Live' <=> \E q \in Path : Owns(q, c)'
BY DEF Live, ChunksOf, Owns

LEMMA DroppedIsOwn ==
  ASSUME Typed, NEW p \in Path, NEW c
  PROVE  c \in Dropped(p) <=> c \in vectors /\ ~Owns(p, c)
<1>1. c \in vectors => c # None
  BY TypesAreNotNone DEF Typed, StoreTyped
<1>2. QED
  BY <1>1 DEF Dropped, Owns

(* What VectorsMatchChunks says of one path. *)
LEMMA ChunkIsSearchable ==
  ASSUME Typed, VectorsMatchChunks, NEW q \in Path, q \notin torn, q \notin halved, doc[q] # None,
         hand[q] = None \/ hand[q].stage # "adding"
  PROVE  Owns(q, doc[q].chunk) /\ (doc[q].chunk \in vectors \/ doc[q].chunk \in pending)
<1>1. doc[q].chunk \in vectors \cup pending
  BY DEF VectorsMatchChunks, EveryChunkIsSearchable, Adding
<1>2. doc[q].chunk # None
  BY <1>1, TypesAreNotNone DEF Typed, StoreTyped
<1>3. QED
  BY <1>1, <1>2 DEF Owns

LEMMA DocumentReplaced ==
  ASSUME Typed, Matched, NEW p \in Path, NEW d \in {None} \cup Document, doc' = [doc EXCEPT ![p] = d],
         \A c : Arrives(d, c) => Owns(p, c) \/ (Embedding(p) /\ c = hand[p].chunk),
         \A c : c \in vectors /\ ~Owns(p, c) => c \in vectors',
         \A c : c \in vectors' => (c \in vectors /\ ~Owns(p, c)) \/ Arrives(d, c),
         pending \subseteq pending', \A c : c \in pending' => c \in pending \/ Arrives(d, c),
         torn \ {p} \subseteq torn', halved \ {p} \subseteq halved',
         \A q \in Path \ {p} : hand'[q] = hand[q] \/ (hand'[q] = None /\ (q \in Adding => q \in torn')),
         hand'[p] # None => hand'[p].stage # "embedding" /\ clustered,
         retry' \in {retry, None}, found' \subseteq found, clustered' = clustered,
         \/ p \in torn' \cup halved' \/ d = None
         \/ hand'[p] # None /\ hand'[p].stage = "adding"
         \/ d.chunk \in vectors' \cup pending'
  PROVE  Matched'
<1>1. /\ doc \in [Path -> {None} \cup Document]
      /\ doc'[p] = d /\ \A q \in Path \ {p} : doc'[q] = doc[q]
  BY DEF Typed, StoreTyped
<1>2. /\ \A c : \A q, r \in Path : Owns(q, c) /\ Owns(r, c) => q = r
      /\ \A q, c : Owns(q, c) /\ q \in Path => c \in Live
  BY LiveIsOwned DEF Matched, ChunksAreOwned, Owns
<1>3. \A c : \A q \in Path \ {p} : Owns(q, c)' <=> Owns(q, c)
  BY <1>1 DEF Owns
<1>4. \A c : Owns(p, c)' <=> Arrives(d, c)
  BY <1>1 DEF Owns, Arrives
<1>5. ASSUME NEW q \in Path, Embedding(q)
      PROVE  /\ hand[q].chunk \notin Live /\ hand[q].chunk \notin vectors /\ hand[q].chunk \notin pending
             /\ hand[q].chunk \notin RetryRows /\ hand[q].chunk \notin found
             /\ \A r \in Path : Embedding(r) /\ hand[q].chunk = hand[r].chunk => q = r
  BY <1>5 DEF Matched, ChunksAreOwned
<1>6. ASSUME NEW c, Arrives(d, c), ~Owns(p, c)
      PROVE  /\ c \notin Live /\ c \notin RetryRows /\ c \notin found
             /\ \A q \in Path \ {p} : Embedding(q) => hand[q].chunk # c
  BY <1>5, <1>6
<1>7. ASSUME NEW c PROVE c \in Live' => c \in Live \/ Arrives(d, c)
  BY <1>3, <1>4, LiveIsOwned
<1>8. \A c : \A q, r \in Path : Owns(q, c)' /\ Owns(r, c)' => q = r
  BY <1>2, <1>3, <1>4, <1>6
<1>9. ASSUME NEW q \in Path, Embedding(q)'
      PROVE  q # p /\ hand'[q] = hand[q] /\ Embedding(q)
  BY <1>9 DEF Embedding
<1>10. RetryRows' \subseteq RetryRows
  BY DEF RetryRows
<1>11. ASSUME NEW q \in Path, Embedding(q)'
       PROVE  hand'[q].chunk \notin Live' \cup vectors' \cup pending' \cup RetryRows' \cup found'
  <2>1. q # p /\ hand'[q].chunk = hand[q].chunk /\ Embedding(q)
    BY <1>9, <1>11
  <2>2. ~Arrives(d, hand[q].chunk)
    BY <1>2, <1>5, <1>6, <2>1
  <2>3. QED
    BY <1>5, <1>7, <1>10, <2>1, <2>2
<1>12. \A q, r \in Path : Embedding(q)' /\ Embedding(r)' /\ hand'[q].chunk = hand'[r].chunk => q = r
  BY <1>5, <1>9
<1>13. found' \cap Live' = {}
  <2>1. found \cap Live = {}
    BY DEF Matched, ChunksAreOwned
  <2>2. QED
    BY <1>2, <1>6, <1>7, <2>1
<1>14. retry' # None /\ retry'.storing # None
         => retry'.rows \cap Live' \subseteq retry'.storing /\ retry'.storing \subseteq retry'.rows
  <2>1. SUFFICES ASSUME retry' # None, retry'.storing # None
                 PROVE  retry'.rows \cap Live' \subseteq retry'.storing /\ retry'.storing \subseteq retry'.rows
    OBVIOUS
  <2>2. retry' = retry /\ retry.rows \cap Live \subseteq retry.storing /\ retry.storing \subseteq retry.rows
        /\ RetryRows = retry.rows
    BY <2>1 DEF Matched, ChunksAreOwned, RetryRows
  <2>3. ASSUME NEW c \in retry.rows, c \in Live' PROVE c \in Live
    BY <1>2, <1>6, <1>7, <2>2, <2>3
  <2>4. QED
    BY <2>2, <2>3
<1>15. ChunksAreOwned'
  <2>1. \A q, r \in Path : doc'[q] # None /\ doc'[r] # None /\ doc'[q].chunk # None /\ doc'[q].chunk = doc'[r].chunk
          => q = r
    BY <1>8 DEF Owns
  <2>2. QED
    BY <1>11, <1>12, <1>13, <1>14, <2>1 DEF ChunksAreOwned
<1>16. YieldsNeedCentroids'
  <2>1. ASSUME NEW q \in Path, hand'[q] # None, hand'[q].stage = "adding" PROVE clustered'
    <3>1. CASE q = p
      BY <2>1, <3>1
    <3>2. CASE q # p
      <4>1. q \in Adding
        BY <2>1, <3>2 DEF Adding
      <4>2. QED
        BY <4>1 DEF Matched, YieldsNeedCentroids
    <3>3. QED
      BY <3>1, <3>2
  <2>2. Adding' # {} => clustered'
    BY <2>1 DEF Adding
  <2>3. retry' # None /\ retry'.storing # None => clustered'
    BY DEF Matched, YieldsNeedCentroids
  <2>4. QED
    BY <2>2, <2>3 DEF YieldsNeedCentroids
<1>17. NoOrphanVectors'
  <2>1. SUFFICES ASSUME ~clustered, NEW c \in vectors' PROVE c \in Live'
    BY DEF NoOrphanVectors
  <2>2. CASE Arrives(d, c)
    BY <1>4, <2>2, LiveIsOwned
  <2>3. CASE c \in vectors /\ ~Owns(p, c)
    <3>1. c \in Live
      BY <2>1, <2>3 DEF Matched, VectorsMatchChunks, NoOrphanVectors
    <3>2. PICK q \in Path : Owns(q, c)
      BY <3>1, LiveIsOwned
    <3>3. Owns(q, c)'
      BY <1>3, <2>3, <3>2
    <3>4. QED
      BY <3>3, LiveIsOwned
  <2>4. QED
    BY <2>2, <2>3
<1>18. EveryChunkIsSearchable'
  <2>1. SUFFICES ASSUME NEW q \in Path, q \notin torn', q \notin halved', doc'[q] # None, q \notin Adding'
                 PROVE  doc'[q].chunk \in vectors' \cup pending'
    BY DEF EveryChunkIsSearchable
  <2>2. CASE q = p
    BY <1>1, <2>1, <2>2 DEF Adding
  <2>3. CASE q # p
    <3>1. q \notin torn /\ q \notin halved /\ doc'[q] = doc[q] /\ doc[q] # None
      BY <1>1, <2>1, <2>3
    <3>2. q \notin Adding
      BY <2>1, <2>3 DEF Adding
    <3>3. Owns(q, doc[q].chunk) /\ (doc[q].chunk \in vectors \/ doc[q].chunk \in pending)
      BY <3>1, <3>2, ChunkIsSearchable DEF Matched, Adding
    <3>4. ~Owns(p, doc[q].chunk)
      BY <1>2, <2>3, <3>3
    <3>5. QED
      BY <3>1, <3>3, <3>4
  <2>4. QED
    BY <2>2, <2>3
<1>19. QED
  BY <1>15, <1>16, <1>17, <1>18 DEF Matched, VectorsMatchChunks

(* Steps that leave the documents alone, and carry nothing new. *)
LEMMA DocumentsKept ==
  ASSUME Typed, Matched, UNCHANGED doc, torn \subseteq torn', halved \subseteq halved',
         clustered => clustered',
         \A q \in Path : hand'[q] = hand[q] \/ (hand'[q] = None /\ (q \in Adding => q \in torn')),
         \A c : c \in vectors' => c \in vectors \/ c \in Live \/ (clustered /\ c \in RetryRows),
         \A c : c \in pending' => c \in pending,
         \A c : c \in Live => (c \in vectors \/ c \in pending => c \in vectors' \/ c \in pending'),
         \A c : c \in found' => c \notin Live /\ (c \in vectors \/ c \in found),
         \A c : c \in RetryRows' => c \in RetryRows \/ c \in pending,
         retry' # None /\ retry'.storing # None
           => clustered' /\ retry'.rows \cap Live \subseteq retry'.storing /\ retry'.storing \subseteq retry'.rows
  PROVE  Matched'
<1>1. Live' = Live
  BY DEF Live, ChunksOf
<1>2. ASSUME NEW q \in Path, Embedding(q)'
      PROVE  /\ Embedding(q) /\ hand'[q] = hand[q]
             /\ hand[q].chunk \notin Live /\ hand[q].chunk \notin vectors /\ hand[q].chunk \notin pending
             /\ hand[q].chunk \notin RetryRows /\ hand[q].chunk \notin found
             /\ \A r \in Path : Embedding(r) /\ hand[q].chunk = hand[r].chunk => q = r
  <2>1. Embedding(q) /\ hand'[q] = hand[q]
    BY <1>2 DEF Embedding
  <2>2. QED
    BY <2>1 DEF Matched, ChunksAreOwned
<1>3. ChunksAreOwned'
  <2>1. \A q \in Path : Embedding(q)'
          => hand'[q].chunk \notin Live' \cup vectors' \cup pending' \cup RetryRows' \cup found'
    BY <1>1, <1>2
  <2>2. \A q, r \in Path : Embedding(q)' /\ Embedding(r)' /\ hand'[q].chunk = hand'[r].chunk => q = r
    BY <1>2
  <2>3. \A q, r \in Path : doc'[q] # None /\ doc'[r] # None /\ doc'[q].chunk # None /\ doc'[q].chunk = doc'[r].chunk
          => q = r
    BY DEF Matched, ChunksAreOwned
  <2>4. found' \cap Live' = {}
    BY <1>1
  <2>5. retry' # None /\ retry'.storing # None
          => retry'.rows \cap Live' \subseteq retry'.storing /\ retry'.storing \subseteq retry'.rows
    BY <1>1
  <2>6. QED
    BY <2>1, <2>2, <2>3, <2>4, <2>5 DEF ChunksAreOwned
<1>4. YieldsNeedCentroids'
  <2>1. Adding' \subseteq Adding
    BY DEF Adding
  <2>2. Adding # {} => clustered
    BY DEF Matched, YieldsNeedCentroids
  <2>3. QED
    BY <2>1, <2>2 DEF YieldsNeedCentroids
<1>5. NoOrphanVectors'
  <2>1. ~clustered => vectors \subseteq Live
    BY DEF Matched, VectorsMatchChunks, NoOrphanVectors
  <2>2. QED
    BY <1>1, <2>1 DEF NoOrphanVectors
<1>6. EveryChunkIsSearchable'
  <2>1. SUFFICES ASSUME NEW q \in Path, q \notin torn', q \notin halved', doc'[q] # None, q \notin Adding'
                 PROVE  doc'[q].chunk \in vectors' \/ doc'[q].chunk \in pending'
    BY DEF EveryChunkIsSearchable
  <2>2. q \notin torn /\ q \notin halved /\ doc[q] # None
    BY <2>1
  <2>3. q \notin Adding
    BY <2>1 DEF Adding
  <2>4. Owns(q, doc[q].chunk) /\ (doc[q].chunk \in vectors \/ doc[q].chunk \in pending)
    BY <2>2, <2>3, ChunkIsSearchable DEF Matched, Adding
  <2>5. doc[q].chunk \in Live
    BY <2>4, LiveIsOwned
  <2>6. QED
    BY <2>4, <2>5
<1>7. QED
  BY <1>3, <1>4, <1>5, <1>6 DEF Matched, VectorsMatchChunks

(* A job begins to embed: its chunk id is one that nothing refers to. *)
LEMMA EmbeddingBegins ==
  ASSUME Typed, Matched, NEW p \in Path, NEW h, h.stage = "embedding", h.chunk \notin InUse, h # None,
         hand[p] = None, hand' = [hand EXCEPT ![p] = h],
         UNCHANGED <<doc, vectors, pending, found, clustered, retry, torn, halved>>
  PROVE  Matched'
<1>1. hand'[p] = h /\ \A q \in Path \ {p} : hand'[q] = hand[q]
  BY DEF Typed, StoreTyped
<1>2. Live' = Live /\ RetryRows' = RetryRows
  BY DEF Live, ChunksOf, RetryRows
<1>3. /\ h.chunk \notin Live \cup vectors \cup pending \cup RetryRows \cup found
      /\ \A q \in Path : hand[q] # None => hand[q].chunk # h.chunk
  BY DEF InUse, RetryRows
<1>4. \A q \in Path : Embedding(q)' <=> q = p \/ Embedding(q)
  BY <1>1 DEF Embedding
<1>5. ChunksAreOwned'
  <2>1. \A q \in Path : Embedding(q)'
          => hand'[q].chunk \notin Live' \cup vectors' \cup pending' \cup RetryRows' \cup found'
    <3>1. SUFFICES ASSUME NEW q \in Path, Embedding(q)'
                   PROVE  hand'[q].chunk \notin Live \cup vectors \cup pending \cup RetryRows \cup found
      BY <1>2
    <3>2. CASE q = p
      BY <1>1, <1>3, <3>2
    <3>3. CASE q # p
      <4>1. Embedding(q) /\ hand'[q] = hand[q]
        BY <1>1, <1>4, <3>1, <3>3
      <4>2. QED
        BY <4>1 DEF Matched, ChunksAreOwned
    <3>4. QED
      BY <3>2, <3>3
  <2>2. \A q, r \in Path : Embedding(q)' /\ Embedding(r)' /\ hand'[q].chunk = hand'[r].chunk => q = r
    <3>1. \A q, r \in Path : Embedding(q) /\ Embedding(r) /\ hand[q].chunk = hand[r].chunk => q = r
      BY DEF Matched, ChunksAreOwned
    <3>2. \A q \in Path : Embedding(q) => hand[q].chunk # h.chunk
      BY <1>3 DEF Embedding
    <3>3. QED
      BY <1>1, <1>4, <3>1, <3>2
  <2>3. /\ \A q, r \in Path : doc'[q] # None /\ doc'[r] # None /\ doc'[q].chunk # None /\ doc'[q].chunk = doc'[r].chunk
             => q = r
        /\ found' \cap Live' = {}
        /\ retry' # None /\ retry'.storing # None
             => retry'.rows \cap Live' \subseteq retry'.storing /\ retry'.storing \subseteq retry'.rows
    BY <1>2 DEF Matched, ChunksAreOwned
  <2>4. QED
    BY <2>1, <2>2, <2>3 DEF ChunksAreOwned
<1>6. Adding' = Adding
  BY <1>1 DEF Adding
<1>7. YieldsNeedCentroids' /\ NoOrphanVectors' /\ EveryChunkIsSearchable'
  BY <1>2, <1>6 DEF Matched, YieldsNeedCentroids, VectorsMatchChunks, NoOrphanVectors, EveryChunkIsSearchable
<1>8. QED
  BY <1>5, <1>7 DEF Matched, VectorsMatchChunks

LEMMA JobsKeepTheMatch ==
  ASSUME Typed, JobsAreSerial, Matched, NEW p \in Path, Serve(p)
  PROVE  Matched'
<1>1. /\ doc \in [Path -> {None} \cup Document] /\ hand \in [Path -> {None} \cup Hand] /\ StoreTyped
  BY DEF Typed, StoreTyped
<1>2. \A c : c \in Dropped(p) <=> c \in vectors /\ ~Owns(p, c)
  BY DroppedIsOwn
<1>3. CASE BeginIndex(p)
  <2>1. hand[p] = None /\ UNCHANGED <<found, clustered, retry>>
    BY <1>3 DEF BeginIndex
  <2>2. CASE UNCHANGED <<index, hand, torn, halved>>
    <3>1. UNCHANGED <<doc, vectors, pending, found, clustered, hand, retry, torn, halved>>
      BY <2>1, <2>2 DEF index
    <3>2. QED
      BY <3>1 DEF Matched, ChunksAreOwned, YieldsNeedCentroids, VectorsMatchChunks, NoOrphanVectors,
         EveryChunkIsSearchable, Live, ChunksOf, Embedding, Adding, RetryRows
  <2>3. CASE IndexEmpty(p) /\ UNCHANGED hand
    <3>1. /\ doc' = [doc EXCEPT ![p] = None] /\ vectors' = Dropped(p) /\ UNCHANGED pending
          /\ torn' = torn \ {p} /\ halved' = halved \ {p}
      BY <2>3 DEF IndexEmpty, DeleteNow
    <3>2. \A c : ~Arrives(None, c)
      BY DEF Arrives
    <3>3. QED
      BY <1>2, <2>1, <2>3, <3>1, <3>2, DocumentReplaced
  <2>4. CASE /\ Chunk \ InUse # {} /\ file[p] \notin {None, {}} /\ UNCHANGED <<index, torn, halved>>
             /\ hand' = [hand EXCEPT ![p] = [content |-> file[p], chunk |-> newChunkId, stage |-> "embedding"]]
    <3>1. PICK h : h = [content |-> file[p], chunk |-> newChunkId, stage |-> "embedding"]
      OBVIOUS
    <3>2. newChunkId \in Chunk /\ newChunkId \notin InUse /\ file[p] \in Content
      BY <2>4, NewChunkIsNew DEF Typed, FilesTyped
    <3>3. h \in Hand /\ h.stage = "embedding" /\ h.chunk \notin InUse
      BY <3>1, <3>2 DEF Hand
    <3>4. h # None
      BY <3>3, TypesAreNotNone
    <3>5. hand' = [hand EXCEPT ![p] = h] /\ UNCHANGED <<doc, vectors, pending, torn, halved>>
      BY <2>4, <3>1 DEF index
    <3>6. QED
      BY <2>1, <3>3, <3>4, <3>5, EmbeddingBegins
  <2>5. QED
    BY <1>3, <2>2, <2>3, <2>4 DEF BeginIndex
<1>4. ASSUME hand[p] # None
      PROVE  /\ NewDocument(hand[p]) \in Document /\ NewDocument(hand[p]).chunk = hand[p].chunk
             /\ \A c : Arrives(NewDocument(hand[p]), c) <=> c = hand[p].chunk
  <2>1. /\ NewDocument(hand[p]) \in Document /\ NewDocument(hand[p]).chunk = hand[p].chunk
        /\ hand[p].chunk # None
    BY <1>1, <1>4, NewDocumentIsTyped, TypesAreNotNone
  <2>2. NewDocument(hand[p]) # None
    BY <2>1, TypesAreNotNone
  <2>3. QED
    BY <2>1, <2>2 DEF Arrives
<1>5. CASE Embedded(p)
  <2>1. PICK d : d = NewDocument(hand[p])
    OBVIOUS
  <2>2. /\ hand[p] # None /\ Embedding(p) /\ doc' = [doc EXCEPT ![p] = d] /\ halved' = halved \ {p}
        /\ UNCHANGED <<pending, found, clustered, retry>>
    BY <1>5, <2>1 DEF Embedded, Stored, Embedding
  <2>3. d \in {None} \cup Document /\ d.chunk = hand[p].chunk /\ \A c : Arrives(d, c) <=> c = hand[p].chunk
    BY <1>4, <2>1, <2>2
  <2>4. CASE vectors' = Dropped(p) \cup {hand[p].chunk} /\ torn' = torn \ {p} /\ EndIndex(p)
    <3>1. hand'[p] = None /\ \A q \in Path \ {p} : hand'[q] = hand[q]
      BY <1>1, <2>4 DEF EndIndex
    <3>2. /\ \A c : c \in vectors /\ ~Owns(p, c) => c \in vectors'
          /\ \A c : c \in vectors' => (c \in vectors /\ ~Owns(p, c)) \/ Arrives(d, c)
          /\ d.chunk \in vectors' \cup pending'
      BY <1>2, <2>3, <2>4
    <3>3. QED
      BY <2>2, <2>3, <2>4, <3>1, <3>2, DocumentReplaced
  <2>5. CASE vectors' = Dropped(p) /\ torn' = torn \cup {p} /\ EndIndex(p)
    <3>1. hand'[p] = None /\ \A q \in Path \ {p} : hand'[q] = hand[q]
      BY <1>1, <2>5 DEF EndIndex
    <3>2. QED
      BY <1>2, <2>2, <2>3, <2>5, <3>1, DocumentReplaced
  <2>6. CASE clustered /\ vectors' = Dropped(p) /\ hand' = [hand EXCEPT ![p].stage = "adding"] /\ UNCHANGED torn
    <3>1. hand[p] \in Hand
      BY <1>1, <2>2
    <3>2. hand'[p] = [hand[p] EXCEPT !.stage = "adding"] /\ \A q \in Path \ {p} : hand'[q] = hand[q]
      BY <1>1, <2>6
    <3>3. hand'[p] \in Hand /\ hand'[p].stage = "adding"
      BY <3>1, <3>2 DEF Hand
    <3>4. hand'[p] # None
      BY <3>3, TypesAreNotNone
    <3>5. QED
      BY <1>2, <2>2, <2>3, <2>6, <3>2, <3>3, <3>4, DocumentReplaced
  <2>7. QED
    BY <1>5, <2>4, <2>5, <2>6 DEF Embedded
<1>6. CASE EmbedFailed(p)
  <2>1. PICK d : d = NewDocument(hand[p])
    OBVIOUS
  <2>2. /\ hand[p] # None /\ Embedding(p) /\ doc' = [doc EXCEPT ![p] = d] /\ halved' = halved \ {p}
        /\ UNCHANGED <<found, clustered, retry>> /\ vectors' = Dropped(p) /\ pending' = pending \cup {hand[p].chunk}
        /\ torn' = torn \ {p} /\ EndIndex(p)
    BY <1>6, <2>1 DEF EmbedFailed, Stored, Embedding, PendingWith
  <2>3. d \in {None} \cup Document /\ d.chunk = hand[p].chunk /\ \A c : Arrives(d, c) <=> c = hand[p].chunk
    BY <1>4, <2>1, <2>2
  <2>4. hand'[p] = None /\ \A q \in Path \ {p} : hand'[q] = hand[q]
    BY <1>1, <2>2 DEF EndIndex
  <2>5. /\ \A c : c \in pending' => c \in pending \/ Arrives(d, c)
        /\ pending \subseteq pending' /\ d.chunk \in vectors' \cup pending'
    BY <2>2, <2>3
  <2>6. QED
    BY <1>2, <2>2, <2>3, <2>4, <2>5, DocumentReplaced
<1>7. CASE Added(p)
  <2>1. /\ hand[p] # None /\ p \in Adding /\ hand[p].chunk # None
    BY <1>1, <1>7, NewDocumentIsTyped, TypesAreNotNone DEF Added, Adding
  <2>2. doc[p] = NewDocument(hand[p])
    BY <2>1 DEF JobsAreSerial
  <2>3. PICK d : d = doc[p]
    OBVIOUS
  <2>4. /\ d \in {None} \cup Document /\ d.chunk = hand[p].chunk /\ doc' = [doc EXCEPT ![p] = d]
        /\ \A c : Arrives(d, c) <=> c = hand[p].chunk
    BY <1>1, <1>4, <1>7, <2>1, <2>2, <2>3 DEF Added
  <2>5. \A c : Arrives(d, c) <=> Owns(p, c)
    BY <2>3 DEF Arrives, Owns
  <2>6. /\ UNCHANGED <<pending, found, clustered, retry, halved>> /\ EndIndex(p)
        /\ \/ vectors' = vectors \cup {hand[p].chunk} /\ torn' = torn \ {p}
           \/ UNCHANGED vectors /\ torn' = torn \cup {p}
    BY <1>7 DEF Added
  <2>7. hand'[p] = None /\ \A q \in Path \ {p} : hand'[q] = hand[q]
    BY <1>1, <2>6 DEF EndIndex
  <2>8. /\ \A c : c \in vectors /\ ~Owns(p, c) => c \in vectors'
        /\ \A c : c \in vectors' => (c \in vectors /\ ~Owns(p, c)) \/ Arrives(d, c)
        /\ torn \ {p} \subseteq torn' /\ (p \in torn' \/ d.chunk \in vectors')
    BY <2>4, <2>5, <2>6
  <2>9. QED
    BY <2>4, <2>5, <2>6, <2>7, <2>8, DocumentReplaced
<1>8. CASE DeleteFile(p) \/ Forget(p)
  <2>1. /\ doc' = [doc EXCEPT ![p] = None] /\ vectors' = Dropped(p) /\ UNCHANGED <<pending, found, clustered, retry, hand>>
        /\ torn \ {p} \subseteq torn' /\ halved' = halved \ {p} /\ ~HeadIs(p, "index")
    BY <1>8 DEF DeleteFile, DeleteNow, Forget, HeadIs
  <2>2. hand[p] = None
    BY <2>1 DEF JobsAreSerial
  <2>3. \A c : ~Arrives(None, c)
    BY DEF Arrives
  <2>4. QED
    BY <1>2, <2>1, <2>2, <2>3, DocumentReplaced
<1>9. QED
  BY <1>3, <1>5, <1>6, <1>7, <1>8 DEF Serve

LEMMA UpkeepKeepsTheMatch ==
  ASSUME Typed, Matched, RetryStep \/ FindOrphans \/ DeleteOrphans \/ Cluster
  PROVE  Matched'
<1>1. retry # None /\ retry.storing # None
        => clustered /\ retry.rows \cap Live \subseteq retry.storing /\ retry.storing \subseteq retry.rows
  BY DEF Matched, ChunksAreOwned, YieldsNeedCentroids
<1>2. found \cap Live = {}
  BY DEF Matched, ChunksAreOwned
<1>3. retry = None \/ retry \in Retry
  BY DEF Typed, StoreTyped
<1>4. ASSUME NEW S \in SUBSET pending, BeginRetry(S) PROVE Matched'
  <2>1. /\ retry = None /\ UNCHANGED <<doc, vectors, clustered, hand, found, torn, halved>>
        /\ pending' = pending \ (S \ Live)
    BY <1>4 DEF BeginRetry, history
  <2>2. CASE retry' = None
    <3>1. RetryRows' = {}
      BY <2>2 DEF RetryRows
    <3>2. QED
      BY <1>2, <2>1, <2>2, <3>1, DocumentsKept
  <2>3. CASE retry' = [rows |-> S \cap Live, storing |-> None]
    <3>1. retry'.rows = S \cap Live /\ retry'.storing = None
      BY <2>3
    <3>2. RetryRows' \subseteq S
      BY <3>1 DEF RetryRows
    <3>3. QED
      BY <1>2, <2>1, <3>1, <3>2, DocumentsKept
  <2>4. QED
    BY <1>4, <2>2, <2>3 DEF BeginRetry
<1>5. ASSUME retry # None, NEW got \in SUBSET retry.rows, RetryEmbedded(got) PROVE Matched'
  <2>1. UNCHANGED <<doc, clustered, hand, found, torn, halved>>
    BY <1>5 DEF RetryEmbedded, history
  <2>2. RetryRows = retry.rows
    BY <1>5 DEF RetryRows
  <2>3. CASE clustered /\ retry' = [rows |-> got, storing |-> got \cap Live] /\ UNCHANGED <<vectors, pending>>
    <3>1. retry'.rows = got /\ retry'.storing = got \cap Live
      BY <2>3
    <3>2. RetryRows' \subseteq RetryRows
      BY <2>2, <3>1 DEF RetryRows
    <3>3. QED
      BY <1>2, <2>1, <2>3, <3>1, <3>2, DocumentsKept
  <2>4. CASE retry' = None /\ vectors' = vectors \cup (got \cap Live) /\ pending' = pending \ got
    <3>1. RetryRows' = {}
      BY <2>4 DEF RetryRows
    <3>2. QED
      BY <1>2, <2>1, <2>4, <3>1, DocumentsKept
  <2>5. QED
    BY <1>5, <2>3, <2>4 DEF RetryEmbedded, StillLive
<1>6. CASE RetryAdded
  <2>1. /\ retry # None /\ retry.storing # None /\ UNCHANGED <<doc, clustered, hand, found, torn, halved>> /\ retry' = None
        /\ \/ vectors' = vectors \cup retry.storing /\ pending' = pending \ retry.rows
           \/ UNCHANGED <<vectors, pending>>
    BY <1>6 DEF RetryAdded, history
  <2>2. RetryRows' = {}
    BY <2>1 DEF RetryRows
  <2>3. clustered /\ retry.rows \cap Live \subseteq retry.storing /\ retry.storing \subseteq retry.rows
    BY <1>1, <2>1
  <2>4. /\ \A c : c \in vectors' => c \in vectors \/ c \in RetryRows
        /\ \A c : c \in Live => (c \in vectors \/ c \in pending => c \in vectors' \/ c \in pending')
    BY <2>1, <2>3 DEF RetryRows
  <2>5. QED
    BY <1>2, <2>1, <2>2, <2>3, <2>4, DocumentsKept
<1>7. CASE FindOrphans
  <2>1. /\ UNCHANGED <<doc, vectors, pending, clustered, hand, retry, torn, halved>> /\ found' = vectors \ Live
    BY <1>7 DEF FindOrphans, index, history
  <2>2. RetryRows' = RetryRows
    BY <2>1 DEF RetryRows
  <2>3. QED
    BY <1>1, <2>1, <2>2, DocumentsKept
<1>8. CASE DeleteOrphans
  <2>1. /\ UNCHANGED <<doc, pending, clustered, hand, retry, torn, halved>> /\ found' = {} /\ vectors' = vectors \ found
    BY <1>8 DEF DeleteOrphans, history
  <2>2. RetryRows' = RetryRows
    BY <2>1 DEF RetryRows
  <2>3. QED
    BY <1>1, <1>2, <2>1, <2>2, DocumentsKept
<1>9. CASE Cluster
  <2>1. /\ UNCHANGED <<doc, vectors, pending, found, hand, retry, torn, halved>> /\ clustered' = TRUE
    BY <1>9 DEF Cluster, index, history
  <2>2. RetryRows' = RetryRows
    BY <2>1 DEF RetryRows
  <2>3. QED
    BY <1>1, <1>2, <2>1, <2>2, DocumentsKept
<1>10. QED
  BY <1>4, <1>5, <1>6, <1>7, <1>8, <1>9 DEF RetryStep

LEMMA KillKeepsTheMatch ==
  ASSUME Typed, JobsAreSerial, Matched, Kill
  PROVE  Matched'
<1>1. /\ doc \in [Path -> {None} \cup Document] /\ hand \in [Path -> {None} \cup Hand] /\ StoreTyped
  BY DEF Typed, StoreTyped
<1>2. /\ UNCHANGED <<pending, clustered>> /\ found' = {} /\ retry' = None
      /\ \A q \in Path : hand'[q] = None
  BY DEF Kill
<1>3. RetryRows' = {}
  BY <1>2 DEF RetryRows
<1>4. CASE CutBetweenJobs
  <2>1. UNCHANGED <<doc, vectors, halved>> /\ torn' = torn \cup Adding
    BY <1>4 DEF CutBetweenJobs
  <2>2. QED
    BY <1>2, <1>3, <2>1, DocumentsKept
<1>5. ASSUME NEW p \in Path, NEW d \in {None} \cup Document, doc' = [doc EXCEPT ![p] = d],
             \A c : Arrives(d, c) => Owns(p, c) \/ (Embedding(p) /\ c = hand[p].chunk),
             vectors' = Dropped(p), torn' = torn \cup Adding \cup {p}, halved \ {p} \subseteq halved'
      PROVE  Matched'
  <2>1. \A c : c \in Dropped(p) <=> c \in vectors /\ ~Owns(p, c)
    BY DroppedIsOwn
  <2>2. QED
    BY <1>2, <1>5, <2>1, DocumentReplaced
<1>6. ASSUME NEW p \in Path
      PROVE  doc = [doc EXCEPT ![p] = doc[p]] /\ doc[p] \in {None} \cup Document /\ \A c : Arrives(doc[p], c) <=> Owns(p, c)
  BY <1>1 DEF Arrives, Owns
<1>7. \A c : ~Arrives(None, c)
  BY DEF Arrives
<1>8. ASSUME NEW p \in Path, CutIndex(p) PROVE Matched'
  <2>1. /\ hand[p] # None /\ Embedding(p) /\ vectors' = Dropped(p) /\ torn' = torn \cup Adding \cup {p}
    BY <1>8 DEF CutIndex, Embedding
  <2>2. CASE UNCHANGED <<doc, halved>>
    BY <1>5, <1>6, <2>1, <2>2
  <2>3. CASE doc' = HalfStored(p) /\ halved' = halved \cup {p}
    <3>1. PICK d : d = [sha |-> hand[p].content,
                        text |-> IF doc[p] = None THEN {} ELSE doc[p].text,
                        chunk |-> IF doc[p] = None THEN None ELSE doc[p].chunk]
      OBVIOUS
    <3>2. doc' = [doc EXCEPT ![p] = d]
      BY <2>3, <3>1 DEF HalfStored
    <3>3. d \in Document
      <4>1. hand[p].content \in Content
        BY <1>1, <2>1, NewDocumentIsTyped
      <4>2. PICK t, c : /\ t = IF doc[p] = None THEN {} ELSE doc[p].text
                        /\ c = IF doc[p] = None THEN None ELSE doc[p].chunk
        OBVIOUS
      <4>3. t \in Content /\ c \in {None} \cup Chunk
        BY <1>1, <4>2 DEF Document, Content
      <4>4. d = [sha |-> hand[p].content, text |-> t, chunk |-> c]
        BY <3>1, <4>2
      <4>5. QED
        BY <4>1, <4>3, <4>4 DEF Document
    <3>4. \A c : Arrives(d, c) => Owns(p, c)
      BY <3>1 DEF Arrives, Owns
    <3>5. QED
      BY <1>5, <2>1, <2>3, <3>2, <3>3, <3>4
  <2>4. CASE Stored(p)
    <3>1. PICK d : d = NewDocument(hand[p])
      OBVIOUS
    <3>2. doc' = [doc EXCEPT ![p] = d] /\ halved' = halved \ {p}
      BY <2>4, <3>1 DEF Stored
    <3>3. d \in Document /\ d.chunk = hand[p].chunk
      BY <1>1, <2>1, <3>1, NewDocumentIsTyped
    <3>4. \A c : Arrives(d, c) => c = hand[p].chunk
      BY <3>3 DEF Arrives
    <3>5. QED
      BY <1>5, <2>1, <3>2, <3>3, <3>4
  <2>5. QED
    BY <1>8, <2>2, <2>3, <2>4 DEF CutIndex
<1>9. ASSUME NEW p \in Path, CutDelete(p) PROVE Matched'
  <2>1. vectors' = Dropped(p) /\ torn' = torn \cup Adding \cup {p}
    BY <1>9 DEF CutDelete
  <2>2. CASE UNCHANGED <<doc, halved>>
    BY <1>5, <1>6, <2>1, <2>2
  <2>3. CASE doc' = [doc EXCEPT ![p] = None] /\ halved' = halved \ {p}
    BY <1>5, <1>7, <2>1, <2>3
  <2>4. QED
    BY <1>9, <2>2, <2>3 DEF CutDelete
<1>10. QED
  BY <1>4, <1>8, <1>9 DEF Kill

-----------------------------------------------------------------------------
StoreInv == Typed /\ DocumentsAreWhole /\ JobsAreSerial /\ Matched

LEMMA StoreInvInit ==
  ASSUME Init
  PROVE  StoreInv
<1>1. Typed
  <2>1. [r \in Remember |-> [stage |-> "idle", base |-> None]] \in [Remember -> Fold]
    BY DEF Fold
  <2>2. FilesTyped
    <3>1. Budget \in 0..Budget
      BY BoundAssumption
    <3>2. QED
      BY <2>1, <3>1 DEF Init, FilesTyped
  <2>3. <<>> \in Seq(Job)
    OBVIOUS
  <2>4. JobsTyped
    BY <2>3 DEF Init, JobsTyped
  <2>5. StoreTyped /\ WalksTyped
    BY DEF Init, StoreTyped, WalksTyped
  <2>6. QED
    BY <2>2, <2>4, <2>5 DEF Typed
<1>2. Live = {} /\ Adding = {} /\ RetryRows = {}
  BY DEF Init, Live, ChunksOf, Adding, RetryRows
<1>3. DocumentsAreWhole /\ JobsAreSerial
  BY DEF Init, DocumentsAreWhole, JobsAreSerial
<1>4. Matched
  BY <1>2 DEF Init, Matched, ChunksAreOwned, YieldsNeedCentroids, VectorsMatchChunks, NoOrphanVectors,
     EveryChunkIsSearchable, Embedding
<1>5. QED
  BY <1>1, <1>3, <1>4 DEF StoreInv

LEMMA StoreInvNext ==
  ASSUME StoreInv, [Next]_vars
  PROVE  StoreInv'
<1>1. Typed'
  BY FilesStayTyped, StoreStaysTyped, JobsStayTyped, WalksStayTyped DEF StoreInv, Typed
<1>2. DocumentsAreWhole' /\ JobsAreSerial'
  BY WholeDocuments, SerialJobs DEF StoreInv
<1>3. ASSUME Elsewhere PROVE Matched'
  BY <1>3, ElsewhereKeepsTheStore DEF StoreInv, Matched, ChunksAreOwned, YieldsNeedCentroids, VectorsMatchChunks,
     NoOrphanVectors, EveryChunkIsSearchable, Live, ChunksOf, Embedding, Adding, RetryRows
<1>4. ASSUME \E p \in Path : Serve(p) PROVE Matched'
  BY <1>4, JobsKeepTheMatch DEF StoreInv
<1>5. ASSUME RetryStep \/ FindOrphans \/ DeleteOrphans \/ Cluster PROVE Matched'
  BY <1>5, UpkeepKeepsTheMatch DEF StoreInv
<1>6. ASSUME Kill PROVE Matched'
  BY <1>6, KillKeepsTheMatch DEF StoreInv
<1>7. Matched'
  BY <1>3, <1>4, <1>5, <1>6 DEF Next, Elsewhere
<1>8. QED
  BY <1>1, <1>2, <1>7 DEF StoreInv

LEMMA StoreInvHolds == Spec => []StoreInv
<1>1. Init => StoreInv
  BY StoreInvInit
<1>2. StoreInv /\ [Next]_vars => StoreInv'
  BY StoreInvNext
<1>3. QED
  BY <1>1, <1>2, PTL DEF Spec

(* The variables keep their types, and a document whose job was not cut short
   between its two writes has its chunk. *)
THEOREM IndexTypeCorrect == Spec => []TypeOK
<1>1. StoreInv => TypeOK
  <2>1. SUFFICES ASSUME StoreInv PROVE TypeOK
    OBVIOUS
  <2>2. \A p \in Path : jobs[p] \in Seq(Job)
    BY <2>1 DEF StoreInv, Typed, JobsTyped
  <2>3. \A p \in Path : \A i \in 1..Len(jobs[p]) : jobs[p][i] \in Job
    BY <2>2
  <2>4. \A p \in Path \ halved : doc[p] # None => doc[p].chunk # None
    BY <2>1 DEF StoreInv, DocumentsAreWhole
  <2>5. QED
    BY <2>1, <2>3, <2>4 DEF StoreInv, Typed, FilesTyped, StoreTyped, WalksTyped, TypeOK
<1>2. QED
  BY <1>1, StoreInvHolds, PTL

(* Indexing, forgetting, embedding again, sweeping and being killed, at every await:
   without centroids no vector is left without its chunk, and the chunk of every
   document has a vector or waits for one, unless its job was cut short. *)
THEOREM ChunksKeepTheirVectors == Spec => []VectorsMatchChunks
<1>1. StoreInv => VectorsMatchChunks
  BY DEF StoreInv, Matched
<1>2. QED
  BY <1>1, StoreInvHolds, PTL

-----------------------------------------------------------------------------
(* Nothing is forgotten: where no event is due for a path any more, what is
   queued, carried, awaited or stored for it will make the index say what the file
   says.  A file that is gone needs a job that drops the document, an empty one
   any job that has not looked at it yet; any other a job that has not looked yet
   or has read what the file says, and none after it that only deletes. *)

WillIndex(k, p) == k # None /\ k.at = p /\ k.next = "index"
WalkWillIndex(p) == \E w \in Walker : WillIndex(walk[w], p)
Unstarted(p) == Len(jobs[p]) > 1 \/ (jobs[p] # <<>> /\ hand[p] = None)
Drops(p) == \E i \in 1..Len(jobs[p]) : jobs[p][i].op # "index"
EndsIndexed(p) == jobs[p] # <<>> /\ jobs[p][Len(jobs[p])].op # "delete"
Matches(p) == doc[p] # None /\ doc[p].text = file[p]
Gone(p) == doc[p] = None /\ hand[p] = None

Sound(p) ==
  /\ file[p] = None => Drops(p) \/ Gone(p)
  /\ file[p] = {} => Unstarted(p) \/ Gone(p)
  /\ file[p] \notin {None, {}} =>
       \/ WalkWillIndex(p)
       \/ EndsIndexed(p) /\ (Unstarted(p) \/ hand[p].content = file[p])
       \/ jobs[p] = <<>> /\ (p \in torn \cup halved \/ Matches(p))

NothingDue(p) ==
  (IF watching THEN p \notin dirty ELSE file[p] = None) \/ p \in selfWrites \ touched
NothingIsForgotten == \A p \in Path \ (swallowed \cup missed) : NothingDue(p) => Sound(p)

(* A job is added to the end of a path's jobs. *)
LEMMA OneMoreJob ==
  ASSUME Typed, JobsAreSerial, NEW p \in Path, NEW op \in {"index", "delete", "forget"},
         NEW by \in {None} \cup Walker, jobs'[p] = Append(jobs[p], [op |-> op, by |-> by]), hand'[p] = hand[p]
  PROVE  /\ Unstarted(p)' /\ jobs'[p] # <<>>
         /\ Drops(p) \/ op # "index" => Drops(p)'
         /\ op # "delete" => EndsIndexed(p)'
<1>1. PICK j, s : j = [op |-> op, by |-> by] /\ s = jobs[p]
  OBVIOUS
<1>2. j \in Job /\ j.op = op /\ s \in Seq(Job) /\ jobs'[p] = Append(s, j)
  BY <1>1 DEF Job, Typed, JobsTyped
<1>3. /\ Append(s, j) # <<>> /\ Len(Append(s, j)) = Len(s) + 1 /\ Append(s, j)[Len(s) + 1] = j
      /\ \A i \in 1..Len(s) : Append(s, j)[i] = s[i]
      /\ Len(s) \in Nat /\ (Len(s) = 0 <=> s = <<>>)
  BY <1>2
<1>4. Unstarted(p)'
  <2>1. CASE s = <<>>
    <3>1. hand[p] = None
      BY <1>1, <2>1 DEF JobsAreSerial, HeadIs
    <3>2. QED
      BY <1>2, <1>3, <3>1 DEF Unstarted
  <2>2. CASE s # <<>>
    BY <1>2, <1>3, <2>2 DEF Unstarted
  <2>3. QED
    BY <2>1, <2>2
<1>5. Drops(p) \/ op # "index" => Drops(p)'
  <2>1. CASE op # "index"
    <3>1. jobs'[p][Len(s) + 1].op # "index" /\ Len(s) + 1 \in 1..Len(jobs'[p])
      BY <1>2, <1>3, <2>1
    <3>2. QED
      BY <3>1 DEF Drops
  <2>2. CASE Drops(p)
    <3>1. PICK i \in 1..Len(s) : s[i].op # "index"
      BY <1>1, <2>2 DEF Drops
    <3>2. jobs'[p][i] = s[i] /\ Len(jobs'[p]) = Len(s) + 1
      BY <1>2, <1>3
    <3>3. i \in 1..Len(s) + 1
      BY ONLY <1>3, i \in 1..Len(s)
    <3>4. QED
      BY <3>1, <3>2, <3>3 DEF Drops
  <2>3. QED
    BY <2>1, <2>2
<1>6. op # "delete" => EndsIndexed(p)'
  BY <1>2, <1>3 DEF EndsIndexed
<1>7. QED
  BY <1>2, <1>3, <1>4, <1>5, <1>6

(* The first job of a path is done. *)
LEMMA OneJobLess ==
  ASSUME Typed, NEW p \in Path, jobs[p] # <<>>, jobs'[p] = Tail(jobs[p]), hand'[p] = None
  PROVE  /\ Len(jobs[p]) > 1 => Unstarted(p)'
         /\ Drops(p) /\ HeadIs(p, "index") => Drops(p)'
         /\ EndsIndexed(p) /\ jobs'[p] # <<>> => EndsIndexed(p)' /\ Unstarted(p)'
         /\ EndsIndexed(p) /\ HeadIs(p, "delete") => jobs'[p] # <<>>
         /\ Len(jobs[p]) > 1 => jobs'[p] # <<>>
<1>1. PICK s, t : s = jobs[p] /\ t = Tail(s)
  OBVIOUS
<1>2. s \in Seq(Job) /\ s # <<>> /\ jobs'[p] = t
  BY <1>1 DEF Typed, JobsTyped
<1>3. /\ Len(s) \in Nat /\ Len(s) > 0 /\ Head(s) = s[1]
      /\ t \in Seq(Job) /\ Len(t) = Len(s) - 1 /\ (t = <<>> <=> Len(s) = 1)
      /\ \A i \in 1..Len(s) - 1 : t[i] = s[i + 1]
  <2>1. t \in Seq(Job) /\ Len(t) = Len(s) - 1 /\ \A i \in 1..Len(t) : t[i] = s[i + 1]
    BY <1>1, <1>2, HeadTailProperties
  <2>2. Len(s) \in Nat \ {0} /\ (t # <<>> => Len(t) \in Nat \ {0}) /\ Len(<<>>) = 0
    BY <1>2, <2>1, EmptySeq
  <2>3. Head(s) = s[1]
    BY <1>2
  <2>4. t = <<>> <=> Len(s) = 1
    BY <2>1, <2>2
  <2>5. QED
    BY <2>1, <2>2, <2>3, <2>4
<1>4. Len(s) > 1 <=> jobs'[p] # <<>>
  <2>1. Len(s) \in Nat /\ Len(s) > 0
    BY <1>3
  <2>2. Len(s) > 1 <=> Len(s) # 1
    <3>1. \A n \in Nat : n > 0 => (n > 1 <=> n # 1)
      OBVIOUS
    <3>2. QED
      BY ONLY <2>1, <3>1
  <2>3. t = <<>> <=> Len(s) = 1
    BY <1>3
  <2>4. QED
    BY <1>2, <2>2, <2>3
<1>5. Len(s) > 1 => Unstarted(p)'
  BY <1>4 DEF Unstarted
<1>6. ASSUME Drops(p), HeadIs(p, "index") PROVE Drops(p)'
  <2>1. PICK i \in 1..Len(s) : s[i].op # "index"
    BY <1>1, <1>6 DEF Drops
  <2>2. i # 1
    BY <1>1, <1>3, <1>6, <2>1 DEF HeadIs
  <2>3. i - 1 \in 1..Len(s) - 1 /\ (i - 1) + 1 = i
    BY <1>3, <2>1, <2>2
  <2>4. t[i - 1] = s[i] /\ i - 1 \in 1..Len(t)
    BY <1>3, <2>3
  <2>5. QED
    BY <1>2, <2>1, <2>4 DEF Drops
<1>7. ASSUME EndsIndexed(p), jobs'[p] # <<>> PROVE EndsIndexed(p)' /\ Unstarted(p)'
  <2>1. Len(s) > 1
    BY <1>4, <1>7
  <2>2. Len(s) - 1 \in 1..Len(s) - 1 /\ (Len(s) - 1) + 1 = Len(s)
    BY <1>3, <2>1
  <2>3. t[Len(t)] = s[Len(s)]
    BY <1>3, <2>2
  <2>4. QED
    BY <1>1, <1>2, <1>5, <1>7, <2>1, <2>3 DEF EndsIndexed
<1>8. ASSUME EndsIndexed(p), HeadIs(p, "delete") PROVE jobs'[p] # <<>>
  <2>1. Len(s) # 1
    BY <1>1, <1>3, <1>8 DEF EndsIndexed, HeadIs
  <2>2. QED
    BY <1>3, <1>4, <2>1
<1>9. QED
  BY <1>1, <1>4, <1>5, <1>6, <1>7, <1>8

(* A path a step leaves alone stays sound. *)
LEMMA SoundStays ==
  ASSUME NEW p \in Path, Sound(p), file'[p] = file[p], doc'[p] = doc[p], hand'[p] = hand[p], jobs'[p] = jobs[p],
         WalkWillIndex(p) => WalkWillIndex(p)', p \in torn \cup halved => p \in torn' \cup halved'
  PROVE  Sound(p)'
<1>1. Drops(p) => Drops(p)'
  BY DEF Drops
<1>2. (Unstarted(p)' <=> Unstarted(p)) /\ (Matches(p)' <=> Matches(p)) /\ (Gone(p)' <=> Gone(p))
  BY DEF Unstarted, Matches, Gone
<1>3. EndsIndexed(p) => EndsIndexed(p)'
  BY DEF EndsIndexed
<1>4. QED
  BY <1>1, <1>2, <1>3 DEF Sound

(* A path whose document is gone, or was there and is, with a job to come. *)
LEMMA SoundWithOneMore ==
  ASSUME Typed, JobsAreSerial, NEW p \in Path, NEW op \in {"index", "delete", "forget"},
         NEW by \in {None} \cup Walker, jobs'[p] = Append(jobs[p], [op |-> op, by |-> by]), hand'[p] = hand[p],
         file'[p] = None => op # "index" \/ (doc'[p] = doc[p] /\ (Drops(p) \/ Gone(p))),
         file'[p] \notin {None, {}} => op # "delete" \/ WalkWillIndex(p)'
  PROVE  Sound(p)'
<1>1. /\ Unstarted(p)'
      /\ Drops(p) \/ op # "index" => Drops(p)'
      /\ op # "delete" => EndsIndexed(p)'
  BY OneMoreJob
<1>2. doc'[p] = doc[p] => (Gone(p) => Gone(p)')
  BY DEF Gone
<1>3. QED
  BY <1>1, <1>2 DEF Sound

LEMMA ElsewhereForgetsNothing ==
  ASSUME Typed, JobsAreSerial, NothingIsForgotten, Elsewhere
  PROVE  NothingIsForgotten'
<1>1. SUFFICES ASSUME NEW q \in Path, q \notin swallowed', q \notin missed', NothingDue(q)'
               PROVE  Sound(q)'
  BY DEF NothingIsForgotten
<1>2. /\ doc'[q] = doc[q] /\ hand'[q] = hand[q] /\ UNCHANGED <<torn, halved>>
  BY ElsewhereKeepsTheStore
<1>3. /\ file \in [Path -> {None} \cup Content] /\ walk \in [Walker -> {None} \cup Walk] /\ JobsTyped
  BY DEF Typed, FilesTyped, WalksTyped
<1>4. q \notin swallowed /\ q \notin missed /\ NothingDue(q) => Sound(q)
  BY DEF NothingIsForgotten
<1>5. ASSUME Sound(q), file'[q] = file[q], jobs'[q] = jobs[q], WalkWillIndex(q) => WalkWillIndex(q)'
      PROVE  Sound(q)'
  BY <1>2, <1>5, SoundStays
<1>6. ASSUME UNCHANGED walk PROVE WalkWillIndex(q) => WalkWillIndex(q)'
  BY <1>6 DEF WalkWillIndex
<1>7. ASSUME NEW w \in Walker, NEW k, walk' = [walk EXCEPT ![w] = k], ~WillIndex(walk[w], q)
      PROVE  WalkWillIndex(q) => WalkWillIndex(q)'
  <2>1. \A v \in Walker \ {w} : walk'[v] = walk[v]
    BY <1>3, <1>7
  <2>2. QED
    BY <1>7, <2>1 DEF WalkWillIndex
<1>8. ASSUME NEW p \in Path, NEW op \in {"index", "delete", "forget"}, NEW by \in {None} \cup Walker,
             jobs' = Queued(p, op, by), q # p
      PROVE  jobs'[q] = jobs[q]
  <2>1. JobsTyped
    BY <1>3
  <2>2. Queued(p, op, by)[q] = jobs[q]
    BY <1>8, <2>1, QueuedElsewhere
  <2>3. QED
    BY <1>8, <2>2
<1>9. ASSUME NEW p \in Path, NEW op \in {"index", "delete", "forget"}, NEW by \in {None} \cup Walker,
             jobs' = Queued(p, op, by)
      PROVE  jobs'[p] = Append(jobs[p], [op |-> op, by |-> by])
  BY <1>3, <1>9, QueuedIsTyped
<1>10. ASSUME NEW p \in Path, Edit(p) PROVE Sound(q)'
  <2>1. PICK c \in (Content \cup {None}) \ {file[p]} :
          /\ file' = [file EXCEPT ![p] = c]
          /\ missed' = IF c = None /\ ~watching THEN missed \cup {p} ELSE missed \ {p}
    BY <1>10 DEF Edit
  <2>2. /\ touched' = touched \cup {p} /\ dirty' = (IF watching THEN dirty \cup {p} ELSE dirty)
        /\ UNCHANGED <<selfWrites, swallowed, watching, walk, jobs>>
    BY <1>10 DEF Edit, worker
  <2>3. q # p
    BY <1>1, <1>3, <2>1, <2>2 DEF NothingDue
  <2>4. file'[q] = file[q]
    BY <1>3, <2>1, <2>3
  <2>5. q \notin swallowed /\ q \notin missed
    BY <1>1, <2>1, <2>2, <2>3
  <2>6. NothingDue(q)
    BY <1>1, <2>2, <2>3, <2>4 DEF NothingDue
  <2>7. QED
    BY <1>4, <1>5, <1>6, <2>2, <2>4, <2>5, <2>6
<1>11. ASSUME NEW p \in Path, WatchEvent(p) PROVE Sound(q)'
  <2>1. UNCHANGED <<file, watching, walk, touched, missed>> /\ dirty' = dirty \ {p}
    BY <1>11 DEF WatchEvent
  <2>2. CASE /\ IsEcho(p) /\ selfWrites' = selfWrites \ {p} /\ UNCHANGED jobs
             /\ swallowed' = IF p \in touched /\ file[p] # None THEN swallowed \cup {p} ELSE swallowed
    <3>1. q \notin swallowed
      BY <1>1, <2>2
    <3>2. NothingDue(q)
      <4>1. CASE q = p
        <5>1. p \notin touched
          BY <1>1, <2>2, <4>1 DEF IsEcho
        <5>2. QED
          BY <2>2, <4>1, <5>1 DEF NothingDue, IsEcho
      <4>2. CASE q # p
        BY <1>1, <2>1, <2>2, <4>2 DEF NothingDue
      <4>3. QED
        BY <4>1, <4>2
    <3>3. QED
      BY <1>1, <1>4, <1>5, <1>6, <2>1, <2>2, <3>1, <3>2
  <2>3. CASE /\ jobs' = Queued(p, IF file[p] = None THEN "delete" ELSE "index", None)
             /\ swallowed' = swallowed \ {p} /\ UNCHANGED selfWrites
    <3>1. PICK op \in {"index", "delete", "forget"} : op = IF file[p] = None THEN "delete" ELSE "index"
      OBVIOUS
    <3>2. CASE q = p
      <4>1. jobs'[p] = Append(jobs[p], [op |-> op, by |-> None])
        BY <1>9, <2>3, <3>1
      <4>2. QED
        BY <1>2, <2>1, <3>1, <3>2, <4>1, SoundWithOneMore
    <3>3. CASE q # p
      <4>1. jobs'[q] = jobs[q]
        BY <1>8, <2>3, <3>1, <3>3
      <4>2. q \notin swallowed /\ q \notin missed /\ NothingDue(q)
        BY <1>1, <2>1, <2>3, <3>3 DEF NothingDue
      <4>3. QED
        BY <1>4, <1>5, <1>6, <2>1, <4>1, <4>2
    <3>4. QED
      BY <3>2, <3>3
  <2>4. QED
    BY <1>11, <2>2, <2>3 DEF WatchEvent
<1>12. ASSUME NEW p \in Path, RequestForget(p) PROVE Sound(q)'
  <2>1. /\ UNCHANGED <<file, watching, walk, dirty, selfWrites, touched, swallowed, missed>>
        /\ jobs' = Queued(p, "forget", None)
    BY <1>12 DEF RequestForget, history
  <2>2. Sound(q)
    BY <1>1, <1>4, <2>1 DEF NothingDue
  <2>3. CASE q = p
    <3>1. jobs'[p] = Append(jobs[p], [op |-> "forget", by |-> None])
      BY <1>9, <2>1
    <3>2. QED
      BY <1>2, <2>3, <3>1, SoundWithOneMore
  <2>4. CASE q # p
    BY <1>5, <1>6, <1>8, <2>1, <2>2, <2>4
  <2>5. QED
    BY <2>3, <2>4
<1>13. ASSUME NEW r \in Remember, WriteMemory(r) PROVE Sound(q)'
  <2>1. PICK p \in Path : p = PathOf[r]
    BY RequestAssumption
  <2>2. PICK c : c = Folded(fold[r].base, NoteOf[r])
    OBVIOUS
  <2>3. /\ file' = [file EXCEPT ![p] = c] /\ missed' = missed \ {p}
        /\ dirty' = (IF watching THEN dirty \cup {p} ELSE dirty) /\ selfWrites' = selfWrites \cup {p}
        /\ touched' = touched \ {p} /\ jobs' = Queued(p, "index", None) /\ UNCHANGED <<watching, walk, swallowed>>
    BY <1>13, <2>1, <2>2 DEF WriteMemory
  <2>4. CASE q = p
    <3>1. file'[p] = c /\ NoteOf[r] \in c
      BY <1>3, <2>3, <2>2 DEF Folded
    <3>2. c \in Content
      BY <2>2, RequestAssumption, <1>13 DEF Typed, FilesTyped, Fold, Folded, Content
    <3>3. c # None
      BY <3>2, TypesAreNotNone
    <3>4. jobs'[p] = Append(jobs[p], [op |-> "index", by |-> None])
      BY <1>9, <2>3
    <3>5. QED
      BY <1>2, <2>4, <3>1, <3>3, <3>4, SoundWithOneMore
  <2>5. CASE q # p
    <3>1. file'[q] = file[q] /\ jobs'[q] = jobs[q]
      BY <1>3, <1>8, <2>3, <2>5
    <3>2. q \notin swallowed /\ q \notin missed /\ NothingDue(q)
      BY <1>1, <2>3, <2>5, <3>1 DEF NothingDue
    <3>3. QED
      BY <1>4, <1>5, <1>6, <2>3, <3>1, <3>2
  <2>6. QED
    BY <2>4, <2>5
<1>14. ASSUME UNCHANGED <<file, watching, dirty, selfWrites, touched, swallowed, missed>> PROVE Sound(q)
  BY <1>1, <1>4, <1>14 DEF NothingDue
<1>15. CASE (\E r \in Remember : BeginRemember(r) \/ WriteFailed(r)) \/ UNCHANGED vars
  <2>1. UNCHANGED <<file, watching, dirty, selfWrites, touched, swallowed, missed, jobs, walk>>
    BY <1>15 DEF BeginRemember, WriteFailed, vars, history
  <2>3. QED
    BY <1>5, <1>6, <1>14, <2>1
<1>16. CASE BeginBoot \/ EndReindex \/ (\E force \in BOOLEAN : BeginReindex(force))
  <2>1. UNCHANGED <<file, watching, dirty, selfWrites, touched, swallowed, missed, jobs>>
    BY <1>16 DEF BeginBoot, EndReindex, BeginReindex, history
  <2>2. PICK w, k : w \in Walker /\ walk' = [walk EXCEPT ![w] = k] /\ (walk[w] = None \/ walk[w].at = None)
    BY <1>16 DEF BeginBoot, EndReindex, BeginReindex, Idle, WalkOver, Walker
  <2>3. ~WillIndex(walk[w], q)
    BY <2>2, TypesAreNotNone DEF WillIndex
  <2>4. QED
    BY <1>5, <1>7, <1>14, <2>1, <2>2, <2>3
<1>17. CASE EndBoot
  <2>1. /\ UNCHANGED <<file, selfWrites, touched, swallowed, missed, jobs>> /\ watching' = TRUE
        /\ dirty' = dirty \cup Present
        /\ walk' = [walk EXCEPT !["boot"] = None] /\ walk["boot"].at = None
    BY <1>17 DEF EndBoot, WalkOver, history
  <2>2. ~WillIndex(walk["boot"], q) /\ "boot" \in Walker
    BY <2>1, TypesAreNotNone DEF WillIndex, Walker
  <2>3. NothingDue(q)
    BY <1>1, <2>1 DEF NothingDue, Present
  <2>4. QED
    BY <1>1, <1>4, <1>5, <1>7, <2>1, <2>2, <2>3
<1>18. ASSUME NEW w \in Walker, NEW p \in Path, VisitFile(w, p) PROVE Sound(q)'
  <2>1. PICK op \in {"index", "delete", "forget"} : op = (IF Refresh(w, p) THEN "delete" ELSE "index")
    OBVIOUS
  <2>2. PICK n : n = (IF Refresh(w, p) THEN "index" ELSE "done")
    OBVIOUS
  <2>3. /\ UNCHANGED <<file, watching, dirty, selfWrites, touched, swallowed, missed>>
        /\ jobs' = Queued(p, op, w) /\ walk[w] # None /\ walk[w].at = None
        /\ walk' = [walk EXCEPT ![w].at = p, ![w].left = @ \ {p}, ![w].next = n]
    BY <1>18, <2>1, <2>2 DEF VisitFile, Fetching, history
  <2>4. walk[w] \in Walk
    BY <1>3, <2>3
  <2>5. PICK k : k = [walk[w] EXCEPT !.at = p, !.left = @ \ {p}, !.next = n]
    OBVIOUS
  <2>6. walk' = [walk EXCEPT ![w] = k] /\ k.at = p /\ k.next = n /\ k \in [left : SUBSET Path, at : {p}, next : {n}, force : BOOLEAN]
    BY <1>3, <2>3, <2>4, <2>5 DEF Walk
  <2>7. Sound(q)
    BY <1>14, <2>3
  <2>8. ~WillIndex(walk[w], q)
    BY <2>3, TypesAreNotNone DEF WillIndex
  <2>9. CASE q = p
    <3>1. jobs'[p] = Append(jobs[p], [op |-> op, by |-> w])
      BY <1>9, <2>3
    <3>2. op = "delete" => WalkWillIndex(p)'
      <4>1. k \in Walk /\ walk'[w] = k
        BY <1>3, <2>2, <2>6 DEF Walk
      <4>2. k # None
        BY <4>1, TypesAreNotNone
      <4>3. QED
        BY <2>1, <2>2, <2>6, <4>1, <4>2 DEF WalkWillIndex, WillIndex
    <3>3. file'[p] = None => doc'[p] = doc[p] /\ (Drops(p) \/ Gone(p))
      BY <1>2, <2>3, <2>7, <2>9 DEF Sound
    <3>4. QED
      BY <1>2, <2>9, <3>1, <3>2, <3>3, SoundWithOneMore
  <2>10. CASE q # p
    BY <1>5, <1>7, <1>8, <2>3, <2>6, <2>7, <2>8, <2>10
  <2>11. QED
    BY <2>9, <2>10
<1>19. ASSUME NEW w \in Walker, AfterRefresh(w) PROVE Sound(q)'
  <2>1. /\ UNCHANGED <<file, watching, dirty, selfWrites, touched, swallowed, missed>>
        /\ walk[w] # None /\ walk[w].at # None /\ jobs' = Queued(walk[w].at, "index", w)
        /\ walk' = [walk EXCEPT ![w].next = "done"]
    BY <1>19 DEF AfterRefresh, JobAwaited, history
  <2>2. walk[w] \in Walk
    BY <1>3, <2>1
  <2>3. PICK p \in Path : p = walk[w].at
    BY <2>1, <2>2 DEF Walk
  <2>4. Sound(q)
    BY <1>14, <2>1
  <2>5. CASE q = p
    <3>1. jobs'[p] = Append(jobs[p], [op |-> "index", by |-> w])
      BY <1>9, <2>1, <2>3
    <3>2. file'[p] = None => doc'[p] = doc[p] /\ (Drops(p) \/ Gone(p))
      BY <1>2, <2>1, <2>4, <2>5 DEF Sound
    <3>3. QED
      BY <1>2, <2>5, <3>1, <3>2, SoundWithOneMore
  <2>6. CASE q # p
    <3>1. walk' = [walk EXCEPT ![w] = [walk[w] EXCEPT !.next = "done"]]
      BY <2>1
    <3>2. ~WillIndex(walk[w], q)
      BY <2>3, <2>6 DEF WillIndex
    <3>3. QED
      BY <1>5, <1>7, <1>8, <2>1, <2>3, <2>4, <2>6, <3>1, <3>2
  <2>7. QED
    BY <2>5, <2>6
<1>20. ASSUME NEW w \in Walker, FileVisited(w) PROVE Sound(q)'
  <2>1. /\ UNCHANGED <<file, watching, dirty, selfWrites, touched, swallowed, missed, jobs>>
        /\ walk[w].next = "done" /\ walk' = [walk EXCEPT ![w] = [walk[w] EXCEPT !.at = None]]
    BY <1>20 DEF FileVisited, history
  <2>2. ~WillIndex(walk[w], q)
    BY <2>1 DEF WillIndex
  <2>3. QED
    BY <1>5, <1>7, <1>14, <2>1, <2>2
<1>21. QED
  BY <1>10, <1>11, <1>12, <1>13, <1>15, <1>16, <1>17, <1>18, <1>19, <1>20 DEF Elsewhere, WalkStep

(* A job that ends with the file indexed as it is, or dropped, or cut short. *)
LEMMA SoundWithOneLess ==
  ASSUME Typed, NEW p \in Path, jobs[p] # <<>>, jobs'[p] = Tail(jobs[p]), hand'[p] = None,
         Sound(p), file'[p] = file[p], walk' = walk,
         file[p] = None => doc'[p] = None \/ (Drops(p) /\ HeadIs(p, "index")),
         file[p] = {} => doc'[p] = None \/ Len(jobs[p]) > 1,
         file[p] \notin {None, {}} /\ ~HeadIs(p, "delete") /\ Len(jobs[p]) = 1 /\ (hand[p] = None \/ hand[p].content = file[p])
           => p \in torn' \cup halved' \/ (doc'[p] # None /\ doc'[p].text = file[p])
  PROVE  Sound(p)'
<1>1. /\ Len(jobs[p]) > 1 => Unstarted(p)'
      /\ Drops(p) /\ HeadIs(p, "index") => Drops(p)'
      /\ EndsIndexed(p) /\ jobs'[p] # <<>> => EndsIndexed(p)' /\ Unstarted(p)'
      /\ EndsIndexed(p) /\ HeadIs(p, "delete") => jobs'[p] # <<>>
      /\ Len(jobs[p]) > 1 => jobs'[p] # <<>>
  BY OneJobLess
<1>2. doc'[p] = None => Gone(p)'
  BY DEF Gone
<1>3. Len(jobs[p]) > 1 \/ Len(jobs[p]) = 1
  <2>1. jobs[p] \in Seq(Job)
    BY DEF Typed, JobsTyped
  <2>2. Len(jobs[p]) \in Nat \ {0}
    BY <2>1, EmptySeq
  <2>3. \A n \in Nat \ {0} : n > 1 \/ n = 1
    OBVIOUS
  <2>4. QED
    BY ONLY <2>2, <2>3
<1>4. ASSUME file[p] \notin {None, {}}
      PROVE  \/ WalkWillIndex(p)'
             \/ EndsIndexed(p)' /\ Unstarted(p)'
             \/ jobs'[p] = <<>> /\ (p \in torn' \cup halved' \/ Matches(p)')
  <2>1. CASE WalkWillIndex(p)
    BY <2>1 DEF WalkWillIndex
  <2>2. CASE EndsIndexed(p) /\ jobs'[p] # <<>>
    BY <1>1, <2>2
  <2>3. CASE EndsIndexed(p) /\ jobs'[p] = <<>> /\ (Unstarted(p) \/ hand[p].content = file[p])
    <3>1. ~HeadIs(p, "delete") /\ ~(Len(jobs[p]) > 1)
      BY <1>1, <2>3
    <3>2. hand[p] = None \/ hand[p].content = file[p]
      BY <2>3, <3>1 DEF Unstarted
    <3>3. Len(jobs[p]) = 1
      BY <1>3, <3>1
    <3>4. p \in torn' \cup halved' \/ (doc'[p] # None /\ doc'[p].text = file[p])
      BY <1>4, <3>1, <3>2, <3>3
    <3>5. QED
      BY <2>3, <3>4 DEF Matches
  <2>4. QED
    BY <1>4, <2>1, <2>2, <2>3 DEF Sound
<1>5. QED
  BY <1>1, <1>2, <1>4 DEF Sound

(* What a job leaves alone: everything of the other paths. *)
LEMMA OthersStaySound ==
  ASSUME Typed, JobsAreSerial, NEW p \in Path, Serve(p), NEW q \in Path, q # p, Sound(q)
  PROVE  Sound(q)'
<1>1. /\ doc \in [Path -> {None} \cup Document] /\ hand \in [Path -> {None} \cup Hand]
      /\ file \in [Path -> {None} \cup Content] /\ JobsTyped
  BY DEF Typed, StoreTyped, FilesTyped
<1>2. jobs[p] # <<>>
  BY DEF Serve, BeginIndex, Embedded, Added, EmbedFailed, DeleteFile, Forget, JobsAreSerial, HeadIs
<1>3. jobs' = jobs \/ jobs' = Ended(p)
  BY DEF Serve, BeginIndex, Embedded, Added, EmbedFailed, DeleteFile, Forget, EndIndex
<1>4. jobs'[q] = jobs[q]
  BY <1>1, <1>2, <1>3, EndedIsTyped
<1>5. doc'[q] = doc[q]
  BY <1>1 DEF Serve, BeginIndex, index, IndexEmpty, DeleteNow, Embedded, Added, EmbedFailed, Stored, DeleteFile, Forget
<1>6. hand'[q] = hand[q]
  BY <1>1 DEF Serve, BeginIndex, Embedded, Added, EmbedFailed, EndIndex, DeleteFile, Forget
<1>7. file'[q] = file[q]
  BY <1>1 DEF Serve, BeginIndex, Embedded, Added, EmbedFailed, DeleteFile, Forget
<1>8. UNCHANGED walk /\ torn \ {p} \subseteq torn' /\ halved \ {p} \subseteq halved'
  BY DEF Serve, BeginIndex, IndexEmpty, DeleteNow, Embedded, Added, EmbedFailed, Stored, DeleteFile, Forget
<1>9. WalkWillIndex(q) => WalkWillIndex(q)'
  BY <1>8 DEF WalkWillIndex
<1>10. QED
  BY <1>4, <1>5, <1>6, <1>7, <1>8, <1>9, SoundStays

LEMMA ForgottenIsSound ==
  ASSUME Typed, JobsAreSerial, NEW p \in Path, Forget(p), file' = [file EXCEPT ![p] = None]
  PROVE  Sound(p)'
<1>1. ~HeadIs(p, "index") /\ hand' = hand /\ doc' = [doc EXCEPT ![p] = None]
  BY DEF Forget, HeadIs
<1>2. file'[p] = None /\ doc'[p] = None /\ hand'[p] = None
  BY <1>1 DEF JobsAreSerial, Typed, FilesTyped, StoreTyped
<1>3. None # {}
  BY TypesAreNotNone DEF Content
<1>4. QED
  BY <1>2, <1>3 DEF Sound, Gone

LEMMA JobsForgetNothing ==
  ASSUME Typed, DocumentsAreWhole, JobsAreSerial, NEW p \in Path, Serve(p), Sound(p)
  PROVE  Sound(p)'
<1>1. /\ doc \in [Path -> {None} \cup Document] /\ hand \in [Path -> {None} \cup Hand]
      /\ file \in [Path -> {None} \cup Content] /\ JobsTyped /\ StoreTyped
  BY DEF Typed, StoreTyped, FilesTyped
<1>2. ASSUME hand[p] # None
      PROVE  /\ HeadIs(p, "index") /\ jobs[p] # <<>> /\ hand[p].content # {} /\ ~HeadIs(p, "delete") /\ ~Gone(p)
             /\ hand[p].stage = "adding" => doc[p] = NewDocument(hand[p])
             /\ NewDocument(hand[p]) # None /\ NewDocument(hand[p]).text = hand[p].content
  <2>1. /\ HeadIs(p, "index") /\ hand[p].content # {} /\ hand[p].stage = "adding" => doc[p] = NewDocument(hand[p])
    BY <1>2 DEF JobsAreSerial, Adding
  <2>2. NewDocument(hand[p]) # None /\ NewDocument(hand[p]).text = hand[p].content
    BY <1>1, <1>2, NewDocumentIsTyped, TypesAreNotNone
  <2>3. QED
    BY <1>2, <2>1, <2>2 DEF HeadIs, Gone, JobsAreSerial, Adding
<1>3. ASSUME jobs' = Ended(p), jobs[p] # <<>> PROVE jobs'[p] = Tail(jobs[p])
  BY <1>1, <1>3, EndedIsTyped
<1>4. CASE BeginIndex(p)
  <2>1. HeadIs(p, "index") /\ jobs[p] # <<>> /\ ~HeadIs(p, "delete") /\ hand[p] = None /\ UNCHANGED <<file, walk>>
    BY <1>4 DEF BeginIndex, HeadIs
  <2>2. CASE (file[p] = None \/ SameSha(p)) /\ jobs' = Ended(p) /\ UNCHANGED <<index, hand, torn, halved>>
    <3>1. jobs'[p] = Tail(jobs[p]) /\ hand'[p] = None /\ doc'[p] = doc[p]
      BY <1>3, <2>1, <2>2 DEF index
    <3>2. file[p] = None => doc'[p] = None \/ (Drops(p) /\ HeadIs(p, "index"))
      BY <2>1, <3>1 DEF Sound, Gone
    <3>3. file[p] # {}
      <4>1. SameSha(p) => file[p] # {}
        BY DEF SameSha, DocumentsAreWhole
      <4>2. None # {}
        BY TypesAreNotNone DEF Content
      <4>3. QED
        BY <2>2, <4>1, <4>2
    <3>4. file[p] # None => p \in torn' \cup halved' \/ (doc'[p] # None /\ doc'[p].text = file[p])
      BY <2>2, <3>1 DEF SameSha, DocumentsAreWhole
    <3>5. QED
      BY <2>1, <3>1, <3>2, <3>3, <3>4, SoundWithOneLess
  <2>3. CASE file[p] = {} /\ IndexEmpty(p) /\ jobs' = Ended(p) /\ UNCHANGED hand
    <3>1. jobs'[p] = Tail(jobs[p]) /\ hand'[p] = None /\ doc'[p] = None
      BY <1>1, <1>3, <2>1, <2>3 DEF IndexEmpty, DeleteNow
    <3>2. QED
      BY <2>1, <2>3, <3>1, SoundWithOneLess
  <2>4. CASE /\ file[p] \notin {None, {}} /\ UNCHANGED <<index, jobs, torn, halved>>
             /\ hand' = [hand EXCEPT ![p] = [content |-> file[p], chunk |-> newChunkId, stage |-> "embedding"]]
    <3>1. hand'[p].content = file[p]
      BY <1>1, <2>4
    <3>2. EndsIndexed(p) => EndsIndexed(p)'
      BY <2>4 DEF EndsIndexed
    <3>3. WalkWillIndex(p) => WalkWillIndex(p)'
      BY <2>1 DEF WalkWillIndex
    <3>4. WalkWillIndex(p) \/ EndsIndexed(p)
      BY <2>1, <2>4 DEF Sound
    <3>5. QED
      BY <2>1, <2>4, <3>1, <3>2, <3>3, <3>4 DEF Sound
  <2>5. QED
    BY <1>4, <2>2, <2>3, <2>4 DEF BeginIndex
<1>5. ASSUME hand[p] # None, EndIndex(p), UNCHANGED <<file, walk>>,
             p \in torn' \/ (doc'[p] # None /\ doc'[p].text = hand[p].content)
      PROVE  Sound(p)'
  <2>1. jobs'[p] = Tail(jobs[p]) /\ hand'[p] = None
    BY <1>1, <1>2, <1>3, <1>5 DEF EndIndex
  <2>2. file[p] = None => Drops(p) /\ HeadIs(p, "index")
    BY <1>2, <1>5 DEF Sound
  <2>3. file[p] = {} => Len(jobs[p]) > 1
    BY <1>2, <1>5 DEF Sound, Unstarted
  <2>4. QED
    BY <1>2, <1>5, <2>1, <2>2, <2>3, SoundWithOneLess
<1>6. CASE Embedded(p)
  <2>1. /\ hand[p] # None /\ UNCHANGED <<file, walk>> /\ doc'[p] = NewDocument(hand[p])
    BY <1>1, <1>6 DEF Embedded, Stored
  <2>2. CASE EndIndex(p)
    BY <1>2, <1>5, <2>1, <2>2
  <2>3. CASE hand' = [hand EXCEPT ![p].stage = "adding"] /\ UNCHANGED <<jobs, torn>>
    <3>1. hand[p] \in Hand /\ hand'[p] = [hand[p] EXCEPT !.stage = "adding"]
      BY <1>1, <2>1, <2>3
    <3>2. hand'[p].content = hand[p].content
      BY <3>1 DEF Hand
    <3>3. /\ Drops(p) => Drops(p)'
          /\ EndsIndexed(p) => EndsIndexed(p)'
          /\ WalkWillIndex(p) => WalkWillIndex(p)'
      BY <2>1, <2>3 DEF Drops, EndsIndexed, WalkWillIndex
    <3>4. Unstarted(p) => Unstarted(p)'
      BY <2>1, <2>3 DEF Unstarted
    <3>5. jobs[p] # <<>> /\ ~Gone(p)
      BY <1>2, <2>1
    <3>6. /\ file[p] = None => Drops(p)
          /\ file[p] = {} => Unstarted(p)
          /\ file[p] \notin {None, {}} =>
               \/ WalkWillIndex(p)
               \/ EndsIndexed(p) /\ (Unstarted(p) \/ hand[p].content = file[p])
      BY <3>5 DEF Sound
    <3>7. QED
      BY <2>1, <3>2, <3>3, <3>4, <3>6 DEF Sound
  <2>4. QED
    BY <1>6, <2>2, <2>3 DEF Embedded
<1>7. CASE EmbedFailed(p)
  <2>1. /\ hand[p] # None /\ UNCHANGED <<file, walk>> /\ doc'[p] = NewDocument(hand[p]) /\ EndIndex(p)
    BY <1>1, <1>7 DEF EmbedFailed, Stored
  <2>2. QED
    BY <1>2, <1>5, <2>1
<1>8. CASE Added(p)
  <2>1. /\ hand[p] # None /\ hand[p].stage = "adding" /\ UNCHANGED <<file, walk, doc>> /\ EndIndex(p)
    BY <1>8 DEF Added
  <2>2. QED
    BY <1>2, <1>5, <2>1
<1>9. CASE DeleteFile(p)
  <2>1. /\ jobs[p] # <<>> /\ HeadIs(p, "delete") /\ ~HeadIs(p, "index") /\ UNCHANGED <<file, walk, hand>>
        /\ doc'[p] = None /\ jobs' = Ended(p)
    BY <1>1, <1>9 DEF DeleteFile, DeleteNow, HeadIs
  <2>2. jobs'[p] = Tail(jobs[p]) /\ hand'[p] = None
    BY <1>3, <2>1 DEF JobsAreSerial
  <2>3. QED
    BY <2>1, <2>2, SoundWithOneLess
<1>10. CASE Forget(p)
  <2>1. /\ jobs[p] # <<>> /\ ~HeadIs(p, "index") /\ UNCHANGED <<walk, hand>>
        /\ doc'[p] = None /\ jobs' = Ended(p)
    BY <1>1, <1>10 DEF Forget, HeadIs
  <2>2. jobs'[p] = Tail(jobs[p]) /\ hand'[p] = None
    BY <1>3, <2>1 DEF JobsAreSerial
  <2>3. CASE file' = [file EXCEPT ![p] = None]
    BY <1>10, <2>3, ForgottenIsSound
  <2>4. CASE UNCHANGED file /\ torn' = torn \cup {p}
    BY <2>1, <2>2, <2>4, SoundWithOneLess
  <2>5. QED
    BY <1>10, <2>3, <2>4 DEF Forget
<1>11. QED
  BY <1>4, <1>6, <1>7, <1>8, <1>9, <1>10 DEF Serve

LEMMA NothingForgottenNext ==
  ASSUME StoreInv, NothingIsForgotten, [Next]_vars
  PROVE  NothingIsForgotten'
<1>1. Typed /\ DocumentsAreWhole /\ JobsAreSerial /\ file \in [Path -> {None} \cup Content]
  BY DEF StoreInv, Typed, FilesTyped
<1>2. ASSUME Elsewhere PROVE NothingIsForgotten'
  BY <1>1, <1>2, ElsewhereForgetsNothing
<1>3. ASSUME NEW p \in Path, Serve(p) PROVE NothingIsForgotten'
  <2>1. SUFFICES ASSUME NEW q \in Path, q \notin swallowed', q \notin missed', NothingDue(q)'
                 PROVE  Sound(q)'
    BY DEF NothingIsForgotten
  <2>2. UNCHANGED <<watching, selfWrites, swallowed, missed>>
    BY <1>3 DEF Serve, BeginIndex, Embedded, Added, EmbedFailed, DeleteFile, Forget
  <2>3. CASE Forget(p) /\ file' = [file EXCEPT ![p] = None]
    <3>1. CASE q = p
      BY <1>1, <2>3, <3>1, ForgottenIsSound
    <3>2. CASE q # p
      <4>1. /\ file'[q] = file[q] /\ (q \in dirty' <=> q \in dirty) /\ (q \in touched' <=> q \in touched)
        BY <1>1, <2>3, <3>2 DEF Forget
      <4>2. Sound(q)
        BY <2>1, <2>2, <4>1 DEF NothingDue, NothingIsForgotten
      <4>3. QED
        BY <1>1, <1>3, <3>2, <4>2, OthersStaySound
    <3>3. QED
      BY <3>1, <3>2
  <2>4. CASE UNCHANGED <<file, dirty, touched>>
    <3>1. Sound(q)
      BY <2>1, <2>2, <2>4 DEF NothingDue, NothingIsForgotten
    <3>2. CASE q = p
      BY <1>1, <1>3, <3>1, <3>2, JobsForgetNothing
    <3>3. CASE q # p
      BY <1>1, <1>3, <3>1, <3>3, OthersStaySound
    <3>4. QED
      BY <3>2, <3>3
  <2>5. QED
    BY <1>3, <2>3, <2>4 DEF Serve, BeginIndex, Embedded, Added, EmbedFailed, DeleteFile, Forget
<1>4. ASSUME RetryStep \/ FindOrphans \/ DeleteOrphans \/ Cluster PROVE NothingIsForgotten'
  <2>1. UNCHANGED <<file, doc, hand, jobs, walk, torn, halved, watching, dirty, selfWrites, touched, swallowed, missed>>
    BY <1>4 DEF RetryStep, BeginRetry, RetryEmbedded, RetryAdded, FindOrphans, DeleteOrphans, Cluster, index, history
  <2>2. SUFFICES ASSUME NEW q \in Path, q \notin swallowed', q \notin missed', NothingDue(q)'
                 PROVE  Sound(q)'
    BY DEF NothingIsForgotten
  <2>3. Sound(q)
    BY <2>1, <2>2 DEF NothingDue, NothingIsForgotten
  <2>4. WalkWillIndex(q) => WalkWillIndex(q)'
    BY <2>1 DEF WalkWillIndex
  <2>5. QED
    BY <2>1, <2>3, <2>4, SoundStays
<1>5. ASSUME Kill PROVE NothingIsForgotten'
  <2>1. /\ UNCHANGED file /\ watching' = FALSE /\ selfWrites' = {} /\ missed' = missed \cup (Path \ Present)
    BY <1>5 DEF Kill
  <2>2. QED
    BY <2>1 DEF NothingIsForgotten, NothingDue, Present
<1>6. QED
  BY <1>2, <1>3, <1>4, <1>5 DEF Next, Elsewhere

LEMMA NothingForgottenHolds == Spec => []NothingIsForgotten
<1>1. Init => NothingIsForgotten
  <2>1. SUFFICES ASSUME Init PROVE NothingIsForgotten
    OBVIOUS
  <2>2. ASSUME NEW q \in Path PROVE file[q] = None /\ Gone(q) /\ None # {}
    BY <2>1, TypesAreNotNone DEF Init, Gone, Content
  <2>3. QED
    BY <2>2 DEF NothingIsForgotten, Sound
<1>2. StoreInv /\ NothingIsForgotten /\ [Next]_vars => NothingIsForgotten'
  BY NothingForgottenNext
<1>3. QED
  BY <1>1, <1>2, StoreInvHolds, PTL DEF Spec

(* Whatever is edited, remembered, forgotten, walked, reported late or coalesced:
   once nothing is under way for a file, no event of it was swallowed or missed and
   no job of it cut short, the index says what the file says. *)
THEOREM QuietFilesAreIndexed == Spec => []SettledMatchesFile
<1>1. StoreInv /\ NothingIsForgotten => SettledMatchesFile
  <2>1. SUFFICES ASSUME StoreInv, NothingIsForgotten, NEW p \in Path, p \notin Excused, Quiet(p)
                 PROVE  IF file[p] \in {None, {}} THEN doc[p] = None ELSE doc[p] # None /\ doc[p].text = file[p]
    BY DEF SettledMatchesFile
  <2>2. Sound(p)
    BY <2>1 DEF Quiet, Excused, NothingIsForgotten, NothingDue
  <2>3. jobs[p] = <<>> /\ ~WalkWillIndex(p)
    BY <2>1 DEF Quiet, WalkWillIndex, WillIndex
  <2>4. ~Drops(p) /\ ~Unstarted(p) /\ ~EndsIndexed(p)
    <3>1. Len(jobs[p]) = 0
      BY <2>3, EmptySeq
    <3>2. QED
      BY <2>3, <3>1 DEF Drops, Unstarted, EndsIndexed
  <2>5. p \notin torn \cup halved
    BY <2>1 DEF Excused
  <2>6. QED
    BY <2>2, <2>3, <2>4, <2>5 DEF Sound, Gone, Matches
<1>2. QED
  BY <1>1, StoreInvHolds, NothingForgottenHolds, PTL
=============================================================================
