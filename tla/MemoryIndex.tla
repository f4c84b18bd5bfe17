----------------------------- MODULE MemoryIndex -----------------------------
(***************************************************************************)
(* The index of curated memory files (src/worker/ingest.ts, the watcher,   *)
(* /remember, /forget, /reindex, the retry of failed embeds and the orphan *)
(* sweep in src/worker/index.ts, memory-writer.ts).  A memory is a         *)
(* markdown file in a watched directory; the index holds a document for it *)
(* (meta.db), a vector for the document's chunk (vector.db) and a row for  *)
(* a chunk that could not be embedded yet (pending-embed.db).              *)
(*                                                                         *)
(* Index and delete jobs of one path run one after the other; everything   *)
(* else interleaves at the awaits: the embedder, the merge of a fold, and, *)
(* once the vectors are clustered, vector.add.  The three databases commit *)
(* one after another, so a kill can leave the first writes of a job        *)
(* without the rest.                                                       *)
(*                                                                         *)
(* What a file says is a set of notes, what indexing stores of it is that  *)
(* set; a document has one chunk.  The pending queue is wired (a worker    *)
(* without one is not modelled); remembered files lie in a watched         *)
(* directory; skills and capability manifests, refused files and the       *)
(* chunks of observations are not modelled.                                *)
(***************************************************************************)
EXTENDS Integers, Sequences, FiniteSets

CONSTANTS
  Path,
  Note,       \* what a memory may say
  Remember,   \* POST /remember requests
  PathOf,     \* the file a request's type and slug name
  NoteOf,     \* what it wants remembered
  MaxChunk,   \* bound: chunk ids in use at a time
  Budget,     \* bound: edits, forgets, forced reindexes and kills
  None

ASSUME RequestAssumption == PathOf \in [Remember -> Path] /\ NoteOf \in [Remember -> Note]
ASSUME BoundAssumption == MaxChunk \in Nat \ {0} /\ Budget \in Nat

VARIABLES
  file,       \* on disk
  doc,        \* documents: [sha, text and chunk], the last two of the chunk row
  vectors,    \* chunks that have a vector
  pending,    \* pending_embed: chunks to be embedded again
  clustered,  \* the collection has centroids
  watching,   \* the watchers are attached
  dirty,      \* paths chokidar owes an event
  selfWrites, \* paths registered
  jobs,       \* pathTails: the serial jobs of a path, the first one running
  hand,       \* what a running index job carries over an await
  walk,       \* the boot pass and /reindex
  retry,      \* processPendingEmbed
  found,      \* the orphan sweep: what it is about to delete
  fold,       \* writeMemory, per request
  budget,
  touched,    \* history: paths written by somebody else since they were registered
  swallowed,  \* history: paths whose suppressed event was not an echo only
  missed,     \* history: paths removed while nobody watched
  torn,       \* history: paths whose last job was cut short
  halved      \* history: those with a document written and its chunks not

index   == <<doc, vectors, pending>>
worker  == <<clustered, watching, jobs, hand, walk, retry, found, fold>>
history == <<touched, swallowed, missed, torn, halved>>
vars == <<file, doc, vectors, pending, clustered, watching, dirty, selfWrites, jobs, hand,
          walk, retry, found, fold, budget, touched, swallowed, missed, torn, halved>>

Chunk == 1..MaxChunk
Content == SUBSET Note
Walker == {"boot", "reindex"}
Document == [sha : Content, text : Content, chunk : {None} \cup Chunk]
Job == [op : {"index", "delete", "forget"}, by : {None} \cup Walker]   \* by: the walk that awaits it
Hand == [content : Content, chunk : Chunk, stage : {"embedding", "adding"}]
Retry == [rows : SUBSET Chunk, storing : {None} \cup SUBSET Chunk]
Walk == [left : SUBSET Path, at : {None} \cup Path, next : {"refresh", "index", "done"}, force : BOOLEAN]
Fold == [stage : {"idle", "folding", "done"}, base : {None} \cup Content]

ASSUME NoneAssumption ==
  /\ None \notin Path \cup Chunk \cup Document \cup Hand \cup Walk \cup Retry
  /\ \A c \in Content \cup SUBSET Chunk : c # None

ChunksOf(d) == {d[p].chunk : p \in {q \in Path : d[q] # None}} \ {None}
Live == ChunksOf(doc)

(* Chunk ids are random: one that nothing refers to any more is as good as new. *)
InUse ==
  Live \cup vectors \cup pending \cup {hand[p].chunk : p \in {q \in Path : hand[q] # None}}
    \cup (IF retry = None THEN {} ELSE retry.rows) \cup found
newChunkId == CHOOSE c \in Chunk \ InUse : \A d \in Chunk \ InUse : c <= d

Init ==
  /\ file = [p \in Path |-> None] /\ doc = [p \in Path |-> None]
  /\ vectors = {} /\ pending = {} /\ clustered = FALSE
  /\ watching = FALSE /\ dirty = {} /\ selfWrites = {}
  /\ jobs = [p \in Path |-> <<>>] /\ hand = [p \in Path |-> None]
  /\ walk = [w \in Walker |-> None] /\ retry = None /\ found = {}
  /\ fold = [r \in Remember |-> [stage |-> "idle", base |-> None]]
  /\ budget = Budget
  /\ touched = {} /\ swallowed = {} /\ missed = {} /\ torn = {} /\ halved = {}

Queued(p, op, by) == [jobs EXCEPT ![p] = Append(@, [op |-> op, by |-> by])]
HeadIs(p, op) == jobs[p] # <<>> /\ Head(jobs[p]).op = op
Spend == budget > 0 /\ budget' = budget - 1

-----------------------------------------------------------------------------
(* Users and the watcher *)

(* Somebody writes or deletes the file. *)
Edit(p) ==
  /\ Spend
  /\ \E c \in (Content \cup {None}) \ {file[p]} :
       /\ file' = [file EXCEPT ![p] = c]
       /\ missed' = IF c = None /\ ~watching THEN missed \cup {p} ELSE missed \ {p}
  /\ touched' = touched \cup {p}
  /\ dirty' = IF watching THEN dirty \cup {p} ELSE dirty
  /\ UNCHANGED <<selfWrites, swallowed, torn, halved>> /\ UNCHANGED index /\ UNCHANGED worker

(* Mutant: the echo is taken for one whatever the event is. *)
IsEchoOfAny(p) == p \in selfWrites

(* type !== 'unlink' && selfWrites.delete(path) *)
IsEcho(p) == p \in selfWrites /\ file[p] # None

(* The debounced event of p: several writes may have become one. *)
WatchEvent(p) ==
  /\ p \in dirty
  /\ dirty' = dirty \ {p}
  /\ IF IsEcho(p)
       THEN /\ selfWrites' = selfWrites \ {p}
            /\ swallowed' = IF p \in touched /\ file[p] # None THEN swallowed \cup {p} ELSE swallowed
            /\ UNCHANGED jobs
       ELSE /\ jobs' = Queued(p, IF file[p] = None THEN "delete" ELSE "index", None)
            /\ swallowed' = swallowed \ {p}
            /\ UNCHANGED selfWrites
  /\ UNCHANGED <<file, index, clustered, watching, hand, walk, retry, found, fold, budget,
                 touched, missed, torn, halved>>

-----------------------------------------------------------------------------
(* indexFileNow, deleteFileNow *)

Ended(p) == [jobs EXCEPT ![p] = Tail(@)]
Dropped(p) == vectors \ (IF doc[p] = None THEN {} ELSE {doc[p].chunk})

(* deleteFileNow: the vectors, then the document. *)
DeleteNow(p) ==
  /\ vectors' = Dropped(p)
  /\ doc' = [doc EXCEPT ![p] = None]
  /\ torn' = torn \ {p} /\ halved' = halved \ {p}
  /\ UNCHANGED pending

(* No chunks: an empty file drops its document. *)
IndexEmpty(p) == DeleteNow(p)

SameSha(p) == doc[p] # None /\ doc[p].sha = file[p]

BeginIndex(p) ==
  /\ HeadIs(p, "index") /\ hand[p] = None
  /\ \/ /\ file[p] = None \/ SameSha(p)     \* statSync throws; unchanged
        /\ jobs' = Ended(p)
        /\ UNCHANGED <<index, hand, torn, halved>>
     \/ /\ file[p] = {} /\ ~SameSha(p)
        /\ IndexEmpty(p)
        /\ jobs' = Ended(p)
        /\ UNCHANGED hand
     \/ /\ file[p] \notin {None, {}} /\ ~SameSha(p)
        /\ Chunk \ InUse # {}
        /\ hand' = [hand EXCEPT ![p] = [content |-> file[p], chunk |-> newChunkId, stage |-> "embedding"]]
        /\ UNCHANGED <<index, jobs, torn, halved>>
  /\ UNCHANGED <<file, dirty, selfWrites, clustered, watching, walk, retry, found, fold,
                 budget, touched, swallowed, missed>>

NewDocument(h) == [sha |-> h.content, text |-> h.content, chunk |-> h.chunk]
Stored(p) ==
  doc' = [doc EXCEPT ![p] = NewDocument(hand[p])] /\ halved' = halved \ {p}

EndIndex(p) == jobs' = Ended(p) /\ hand' = [hand EXCEPT ![p] = None]

(* Embedded: the old vectors and chunks go, the new chunk and its vector come;
   with centroids, vector.add yields before it writes.  It may throw. *)
Embedded(p) ==
  /\ hand[p] # None /\ hand[p].stage = "embedding"
  /\ Stored(p)
  /\ \/ /\ ~clustered
        /\ vectors' = Dropped(p) \cup {hand[p].chunk}
        /\ torn' = torn \ {p}
        /\ EndIndex(p)
     \/ /\ ~clustered
        /\ vectors' = Dropped(p)
        /\ torn' = torn \cup {p}
        /\ EndIndex(p)
     \/ /\ clustered
        /\ vectors' = Dropped(p)
        /\ hand' = [hand EXCEPT ![p].stage = "adding"]
        /\ UNCHANGED <<jobs, torn>>
  /\ UNCHANGED <<file, pending, dirty, selfWrites, clustered, watching, walk, retry, found,
                 fold, budget, touched, swallowed, missed>>

(* vector.add after its yields *)
Added(p) ==
  /\ hand[p] # None /\ hand[p].stage = "adding"
  /\ \/ vectors' = vectors \cup {hand[p].chunk} /\ torn' = torn \ {p}
     \/ UNCHANGED vectors /\ torn' = torn \cup {p}
  /\ EndIndex(p)
  /\ UNCHANGED <<file, doc, pending, dirty, selfWrites, clustered, watching, walk, retry,
                 found, fold, budget, touched, swallowed, missed, halved>>

PendingWith(c) == pending \cup {c}

EmbedFailed(p) ==
  /\ hand[p] # None /\ hand[p].stage = "embedding"
  /\ Stored(p)
  /\ vectors' = Dropped(p)
  /\ pending' = PendingWith(hand[p].chunk)
  /\ torn' = torn \ {p}
  /\ EndIndex(p)
  /\ UNCHANGED <<file, dirty, selfWrites, clustered, watching, walk, retry, found, fold,
                 budget, touched, swallowed, missed>>

DeleteFile(p) ==
  /\ HeadIs(p, "delete")
  /\ DeleteNow(p)
  /\ jobs' = Ended(p)
  /\ UNCHANGED <<file, dirty, selfWrites, clustered, watching, hand, walk, retry, found,
                 fold, budget, touched, swallowed, missed>>

-----------------------------------------------------------------------------
(* POST /remember and POST /forget *)

(* findCollisionTarget, and what the file says now for the fold; then the merge,
   or the search for a near duplicate, is awaited. *)
BeginRemember(r) ==
  /\ fold[r].stage = "idle"
  /\ fold' = [fold EXCEPT ![r] = [stage |-> "folding", base |-> file[PathOf[r]]]]
  /\ UNCHANGED <<file, dirty, selfWrites, clustered, watching, jobs, hand, walk, retry,
                 found, budget, history>>
  /\ UNCHANGED index

Folded(base, n) == (IF base = None THEN {} ELSE base) \cup {n}

(* Write, register, queue the index job. *)
WriteMemory(r) ==
  LET p == PathOf[r]
      c == Folded(fold[r].base, NoteOf[r])
  IN  /\ fold[r].stage = "folding"
      /\ file' = [file EXCEPT ![p] = c]
      /\ missed' = missed \ {p}
      /\ dirty' = IF watching THEN dirty \cup {p} ELSE dirty
      /\ selfWrites' = selfWrites \cup {p}
      /\ touched' = touched \ {p}
      /\ jobs' = Queued(p, "index", None)
      /\ fold' = [fold EXCEPT ![r] = [stage |-> "done", base |-> None]]
      /\ UNCHANGED <<clustered, watching, hand, walk, retry, found, budget, swallowed, torn, halved>>
      /\ UNCHANGED index

(* The directory or the file could not be written. *)
WriteFailed(r) ==
  /\ fold[r].stage = "folding"
  /\ fold' = [fold EXCEPT ![r] = [stage |-> "done", base |-> None]]
  /\ UNCHANGED <<file, dirty, selfWrites, clustered, watching, jobs, hand, walk, retry,
                 found, budget, history>>
  /\ UNCHANGED index

RequestForget(p) ==
  /\ doc[p] # None
  /\ Spend
  /\ jobs' = Queued(p, "forget", None)
  /\ UNCHANGED <<file, dirty, selfWrites, clustered, watching, hand, walk, retry, found,
                 fold, history>>
  /\ UNCHANGED index

(* The index first, then the file, with no turn between; the file may resist. *)
Forget(p) ==
  /\ HeadIs(p, "forget")
  /\ vectors' = Dropped(p)
  /\ doc' = [doc EXCEPT ![p] = None]
  /\ halved' = halved \ {p}
  /\ \/ /\ file' = [file EXCEPT ![p] = None]
        /\ touched' = touched \cup {p}
        /\ dirty' = IF watching /\ file[p] # None THEN dirty \cup {p} ELSE dirty
        /\ torn' = torn \ {p}
     \/ /\ torn' = torn \cup {p}
        /\ UNCHANGED <<file, touched, dirty>>
  /\ jobs' = Ended(p)
  /\ UNCHANGED <<pending, selfWrites, clustered, watching, hand, walk, retry, found, fold,
                 budget, swallowed, missed>>

-----------------------------------------------------------------------------
(* The boot pass and POST /reindex: one file after another, each awaited. *)

Present == {p \in Path : file[p] # None}
Idle(w) == walk[w] = None
NewWalk(force) == [left |-> Present, at |-> None, next |-> "refresh", force |-> force]
Fetching(w) == walk[w] # None /\ walk[w].at = None /\ walk[w].left # {}

BeginBoot ==
  /\ ~watching /\ Idle("boot")
  /\ walk' = [walk EXCEPT !["boot"] = NewWalk(FALSE)]
  /\ UNCHANGED <<file, index, clustered, watching, dirty, selfWrites, jobs, hand, retry,
                 found, fold, budget, history>>

(* A pass over nothing is left out. *)
BeginReindex(force) ==
  /\ Idle("reindex") /\ Present # {}
  /\ IF force THEN Spend ELSE UNCHANGED budget
  /\ walk' = [walk EXCEPT !["reindex"] = NewWalk(force)]
  /\ UNCHANGED <<file, index, clustered, watching, dirty, selfWrites, jobs, hand, retry,
                 found, fold, history>>

(* Mutant: an unchanged file is taken to be indexed. *)
RefreshIfForced(w, p) == walk[w].force

(* A document one chunk of which has no vector is indexed again. *)
Refresh(w, p) ==
  w = "reindex" /\ (walk[w].force \/ (doc[p] # None /\ doc[p].chunk \notin vectors \cup {None}))

JobsOf(w, p) == {i \in 1..Len(jobs[p]) : jobs[p][i].by = w}

VisitFile(w, p) ==
  /\ Fetching(w) /\ p \in walk[w].left
  /\ LET refresh == Refresh(w, p)
     IN  /\ jobs' = Queued(p, IF refresh THEN "delete" ELSE "index", w)
         /\ walk' = [walk EXCEPT ![w].at = p, ![w].left = @ \ {p},
                                 ![w].next = IF refresh THEN "index" ELSE "done"]
  /\ UNCHANGED <<file, index, clustered, watching, dirty, selfWrites, hand, retry, found,
                 fold, budget, history>>

(* The awaited job of this file has ended. *)
JobAwaited(w) == walk[w] # None /\ walk[w].at # None /\ JobsOf(w, walk[w].at) = {}

AfterRefresh(w) ==
  /\ JobAwaited(w) /\ walk[w].next = "index"
  /\ jobs' = Queued(walk[w].at, "index", w)
  /\ walk' = [walk EXCEPT ![w].next = "done"]
  /\ UNCHANGED <<file, index, clustered, watching, dirty, selfWrites, hand, retry, found,
                 fold, budget, history>>

FileVisited(w) ==
  /\ JobAwaited(w) /\ walk[w].next = "done"
  /\ walk' = [walk EXCEPT ![w].at = None]
  /\ UNCHANGED <<file, index, clustered, watching, dirty, selfWrites, jobs, hand, retry,
                 found, fold, budget, history>>

WalkOver(w) == walk[w] # None /\ walk[w].at = None /\ walk[w].left = {}

(* The watchers attach after the pass and report every file there is. *)
EndBoot ==
  /\ WalkOver("boot")
  /\ walk' = [walk EXCEPT !["boot"] = None]
  /\ watching' = TRUE
  /\ dirty' = dirty \cup Present
  /\ UNCHANGED <<file, index, clustered, selfWrites, jobs, hand, retry, found, fold, budget,
                 history>>

EndReindex ==
  /\ WalkOver("reindex")
  /\ walk' = [walk EXCEPT !["reindex"] = None]
  /\ UNCHANGED <<file, index, clustered, watching, dirty, selfWrites, jobs, hand, retry,
                 found, fold, budget, history>>

-----------------------------------------------------------------------------
(* processPendingEmbed, one pass at a time *)

(* Rows whose chunk is gone are dropped, the others are sent. *)
BeginRetry(S) ==
  /\ retry = None /\ S \subseteq pending /\ S # {}
  /\ pending' = pending \ (S \ Live)
  /\ retry' = IF S \cap Live = {} THEN None ELSE [rows |-> S \cap Live, storing |-> None]
  /\ UNCHANGED <<file, doc, vectors, clustered, watching, dirty, selfWrites, jobs, hand, walk,
                 found, fold, budget, history>>

(* Mutant: what was sent is stored. *)
StillLiveUnchecked(got) == got

StillLive(got) == got \cap Live

(* The embedder took `got` of them, the others stay queued; with centroids,
   vector.add yields between the check and the write.  It may throw. *)
RetryEmbedded(got) ==
  /\ retry # None /\ retry.storing = None /\ got \subseteq retry.rows
  /\ \/ /\ clustered /\ StillLive(got) # {}
        /\ retry' = [rows |-> got, storing |-> StillLive(got)]
        /\ UNCHANGED <<vectors, pending>>
     \/ /\ ~clustered \/ StillLive(got) = {}
        /\ retry' = None
        /\ vectors' = vectors \cup StillLive(got)
        /\ pending' = pending \ got
  /\ UNCHANGED <<file, doc, clustered, watching, dirty, selfWrites, jobs, hand, walk, found,
                 fold, budget, history>>

RetryAdded ==
  /\ retry # None /\ retry.storing # None
  /\ retry' = None
  /\ \/ vectors' = vectors \cup retry.storing /\ pending' = pending \ retry.rows
     \/ UNCHANGED <<vectors, pending>>
  /\ UNCHANGED <<file, doc, clustered, watching, dirty, selfWrites, jobs, hand, walk, found,
                 fold, budget, history>>

-----------------------------------------------------------------------------
(* Maintenance and kills *)

(* sweepOrphanVectors: find, then delete, a pause between. *)
FindOrphans ==
  /\ found = {} /\ vectors \ Live # {}
  /\ found' = vectors \ Live
  /\ UNCHANGED <<file, index, clustered, watching, dirty, selfWrites, jobs, hand, walk, retry,
                 fold, budget, history>>

DeleteOrphans ==
  /\ found # {}
  /\ vectors' = vectors \ found
  /\ found' = {}
  /\ UNCHANGED <<file, doc, pending, clustered, watching, dirty, selfWrites, jobs, hand, walk,
                 retry, fold, budget, history>>

(* The IVF sweep built the first centroids. *)
Cluster ==
  /\ ~clustered
  /\ clustered' = TRUE
  /\ UNCHANGED <<file, index, watching, dirty, selfWrites, jobs, hand, walk, retry, found,
                 fold, budget, history>>

Adding == {p \in Path : hand[p] # None /\ hand[p].stage = "adding"}

(* upsertDocument without replaceChunks *)
HalfStored(p) ==
  [doc EXCEPT ![p] = [sha |-> hand[p].content,
                      text |-> IF doc[p] = None THEN {} ELSE doc[p].text,
                      chunk |-> IF doc[p] = None THEN None ELSE doc[p].chunk]]

(* What a kill leaves of the writes of a job: none, or the first of them. *)
CutBetweenJobs == UNCHANGED <<doc, vectors, halved>> /\ torn' = torn \cup Adding

CutIndex(p) ==
  /\ hand[p] # None /\ hand[p].stage = "embedding"
  /\ vectors' = Dropped(p)
  /\ torn' = torn \cup Adding \cup {p}
  /\ \/ UNCHANGED <<doc, halved>>
     \/ doc' = HalfStored(p) /\ halved' = halved \cup {p}
     \/ Stored(p)

CutDelete(p) ==
  /\ HeadIs(p, "delete") \/ HeadIs(p, "forget")
  /\ vectors' = Dropped(p)
  /\ torn' = torn \cup Adding \cup {p}
  /\ \/ UNCHANGED <<doc, halved>>
     \/ doc' = [doc EXCEPT ![p] = None] /\ halved' = halved \ {p}

(* The process is killed and started again; nobody saw what happened to the
   files whose events were still due. *)
Kill ==
  /\ Spend
  /\ CutBetweenJobs \/ \E p \in Path : CutIndex(p) \/ CutDelete(p)
  /\ missed' = missed \cup (Path \ Present)
  /\ watching' = FALSE /\ dirty' = {} /\ selfWrites' = {}
  /\ jobs' = [p \in Path |-> <<>>] /\ hand' = [p \in Path |-> None]
  /\ walk' = [w \in Walker |-> None] /\ retry' = None /\ found' = {}
  /\ fold' = [r \in Remember |-> [stage |-> IF fold[r].stage = "idle" THEN "idle" ELSE "done",
                                  base |-> None]]
  /\ touched' = {} /\ swallowed' = {}
  /\ UNCHANGED <<file, pending, clustered>>

-----------------------------------------------------------------------------
Serve(p) ==
  \/ BeginIndex(p) \/ Embedded(p) \/ Added(p) \/ EmbedFailed(p) \/ DeleteFile(p) \/ Forget(p)

WalkStep(w) ==
  (\E p \in Path : VisitFile(w, p)) \/ AfterRefresh(w) \/ FileVisited(w)

RetryStep ==
  \/ retry = None /\ \E S \in SUBSET pending : BeginRetry(S)
  \/ retry # None /\ \E got \in SUBSET retry.rows : RetryEmbedded(got)
  \/ RetryAdded
RowsDropped ==
  pending \ Live # {} /\ \E S \in SUBSET pending : BeginRetry(S) /\ pending' # pending

Next ==
  \/ \E p \in Path : Edit(p) \/ WatchEvent(p) \/ Serve(p) \/ RequestForget(p)
  \/ \E r \in Remember : BeginRemember(r) \/ WriteMemory(r) \/ WriteFailed(r)
  \/ BeginBoot \/ EndBoot \/ EndReindex \/ (\E force \in BOOLEAN : BeginReindex(force))
  \/ \E w \in Walker : WalkStep(w)
  \/ RetryStep \/ FindOrphans \/ DeleteOrphans \/ Cluster \/ Kill

Spec == Init /\ [][Next]_vars

(* The event loop runs what is due, and an operator reindexes now and then; an
   embedder and a vector store asked again and again succeed one day. *)
Fairness ==
  /\ \A p \in Path :
       /\ WF_vars(WatchEvent(p)) /\ WF_vars(Serve(p))
       /\ SF_vars(Embedded(p) /\ p \notin torn') /\ SF_vars(Added(p) /\ p \notin torn')
  /\ WF_vars(BeginBoot \/ WalkStep("boot") \/ EndBoot)
  /\ WF_vars(BeginReindex(FALSE) \/ WalkStep("reindex") \/ EndReindex)
  /\ WF_vars(RetryStep) /\ SF_vars(RowsDropped)
  /\ WF_vars(FindOrphans \/ DeleteOrphans)

FairSpec == Spec /\ Fairness

-----------------------------------------------------------------------------
(* Properties *)

TypeOK ==
  /\ file \in [Path -> {None} \cup Content]
  /\ doc \in [Path -> {None} \cup Document]
  /\ \A p \in Path \ halved : doc[p] # None => doc[p].chunk # None
  /\ vectors \subseteq Chunk /\ pending \subseteq Chunk /\ found \subseteq Chunk
  /\ clustered \in BOOLEAN /\ watching \in BOOLEAN
  /\ dirty \subseteq Path
  /\ selfWrites \subseteq Path
  /\ \A p \in Path : \A i \in 1..Len(jobs[p]) : jobs[p][i] \in Job
  /\ hand \in [Path -> {None} \cup Hand]
  /\ walk \in [Walker -> {None} \cup Walk]
  /\ retry \in {None} \cup Retry
  /\ fold \in [Remember -> Fold]
  /\ budget \in 0..Budget
  /\ touched \subseteq Path /\ swallowed \subseteq Path /\ missed \subseteq Path /\ torn \subseteq Path /\ halved \subseteq Path

(* "A chunk replaced while its embed was in flight must not get a vector": while
   there are no centroids to yield for, every vector belongs to a chunk, whatever
   is replaced, forgotten or killed under way. *)
NoOrphanVectors == ~clustered => vectors \subseteq Live

(* "It used to return zero vectors, silently": the chunk of an indexed memory has
   a vector or waits for one, unless its job was cut short. *)
EveryChunkIsSearchable ==
  \A p \in Path \ (torn \cup halved) :
    doc[p] # None /\ p \notin Adding => doc[p].chunk \in vectors \cup pending

(* Chunks and vectors belong together: none without the other, through replaced,
   forgotten and cut-short jobs. *)
VectorsMatchChunks == NoOrphanVectors /\ EveryChunkIsSearchable

(* When nothing is under way for a file the index says what the file says: jobs
   of one path never overtake each other and no event but an echo is dropped. *)
Quiet(p) ==
  /\ watching /\ p \notin dirty /\ jobs[p] = <<>>
  /\ \A w \in Walker : walk[w] = None \/ walk[w].at # p
Excused == swallowed \cup missed \cup torn \cup halved

SettledMatchesFile ==
  \A p \in Path \ Excused : Quiet(p) =>
    IF file[p] \in {None, {}} THEN doc[p] = None ELSE doc[p] # None /\ doc[p].text = file[p]

(* "PRESERVES the existing content and folds in the new information": a remember
   takes nothing out of the file it updates. *)
RememberPreserves ==
  [][\A r \in Remember : fold[r].stage = "folding" /\ fold'[r].stage = "done" /\ ~UNCHANGED file
       => file[PathOf[r]] \in {None} \cup SUBSET file'[PathOf[r]]]_vars

(* Plain reindexes repair what a failed write, a kill or a swallowed event left:
   in the end every file is indexed as it is and has its vector. *)
IndexCatchesUp ==
  <>[](\A p \in Present \ halved :
         file[p] # {} => doc[p] # None /\ doc[p].text = file[p] /\ doc[p].chunk \in vectors)
=============================================================================
