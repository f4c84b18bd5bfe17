---------------------------- MODULE VectorClusters ----------------------------
(***************************************************************************)
(* The vectors of vector.db and the clusters (IVF) a search probes: the    *)
(* rows that are added, re-embedded and deleted under the sweep that       *)
(* clusters them, and that sweep's slices (ivf-sweep.ts): the rows of the  *)
(* old table first, then the repair of a bad or outgrown set of centroids, *)
(* the seeding of a new one, the placing of unclustered rows and their     *)
(* rebalancing.  A slice and an add both let other requests run while they *)
(* compare vectors with centroids.                                         *)
(*                                                                         *)
(* A vector is a value with or without a direction ("zero"); which         *)
(* centroid is nearest to it is any of them, and so is how they drift.     *)
(***************************************************************************)
EXTENDS Integers, FiniteSets, FiniteSetsExt

CONSTANTS
  Vector,       \* the embeddings a chunk may get
  VectorChunk,
  Adder,        \* concurrent calls of add()
  MinCorpus, SweepBatch, Regrow,    \* CAPTAIN_MEMO_IVF_*
  MaxCluster    \* bound: cluster ids ever allocated

\* "none" stands for no vector; a store from before may have two clusters.
ASSUME ClustersAssumption ==
  /\ "zero" \in Vector /\ "none" \notin Vector
  /\ {MinCorpus, Regrow} \subseteq Nat /\ {SweepBatch, MaxCluster} \subseteq Nat \ {0}

VARIABLES
  vec,         \* vec_chunks_p: chunk to vector and cluster
  old,         \* vec_chunks, the table before clusters: chunk to vector
  named,       \* vec_chunk_meta: the chunks of the collection
  centroids,   \* vec_cluster_centroids: cluster ids
  flat,        \* the all-zero ones among them, seeded before zero vectors were skipped
  nextId,      \* vec_cluster_id_seq
  builtFor,    \* vec_index_bootstrap
  adding,      \* per add(): the row in hand and the cluster found for it
  clustering,  \* the sweep's slice: what it carries over its yields
  written,     \* history: the vector last written for each named chunk
  relics       \* history: chunks that were in the old table

clusterVars == <<vec, old, named, centroids, flat, nextId, builtFor, adding, clustering, written, relics>>

Unclustered == -1
Parked == -2
NoRow == [cluster |-> Unclustered, vector |-> "none"]
NotAdding == [chunk |-> "none", vector |-> "none", to |-> Unclustered]
NoSlice == [stage |-> "idle", total |-> 0, items |-> {}]

In(c) == vec[c] # NoRow

ClustersTypeOK ==
  /\ \A c \in VectorChunk : vec[c] = NoRow \/ vec[c] \in [cluster : -2 .. MaxCluster, vector : Vector]
  /\ DOMAIN old \subseteq VectorChunk /\ named \subseteq VectorChunk
  /\ centroids \subseteq 0 .. MaxCluster /\ flat \subseteq centroids
  /\ clustering.stage \in {"idle", "seeding", "placing"}

(* A new store; one whose vectors are still in the old table; one clustered on bad seeds. *)
ClustersInit ==
  /\ \/ old = <<>> /\ vec = [c \in VectorChunk |-> NoRow] /\ named = {} /\ centroids = {} /\ flat = {}
     \/ /\ old = [c \in VectorChunk |-> "zero"] /\ vec = [c \in VectorChunk |-> NoRow]
        /\ named = VectorChunk /\ centroids = {} /\ flat = {}
     \/ /\ old = <<>> /\ vec = [c \in VectorChunk |-> [cluster |-> 0, vector |-> "zero"]]
        /\ named = VectorChunk /\ centroids = {0, 1} /\ flat = {1}
  /\ nextId = Cardinality(centroids) /\ builtFor = 0
  /\ adding = [a \in Adder |-> NotAdding] /\ clustering = NoSlice
  /\ written = [c \in named |-> "zero"] /\ relics = DOMAIN old

-----------------------------------------------------------------------------
(* Writers and readers                                                     *)

Put(c, v, cluster) ==
  /\ vec' = [vec EXCEPT ![c] = [cluster |-> cluster, vector |-> v]]
  /\ named' = named \cup {c}
  /\ written' = [x \in named \cup {c} |-> IF x = c THEN v ELSE written[x]]

(* add: without centroids the row goes in at once, otherwise its nearest is looked for. *)
AddVector(a, c, v) ==
  /\ adding[a] = NotAdding
  /\ IF centroids = {} THEN Put(c, v, Unclustered) /\ UNCHANGED adding
     ELSE /\ \E to \in centroids : adding' = [adding EXCEPT ![a] = [chunk |-> c, vector |-> v, to |-> to]]
          /\ UNCHANGED <<vec, named, written>>
  /\ UNCHANGED <<old, centroids, flat, nextId, builtFor, clustering, relics>>

(* Mutant: the row is written under the cluster found before the yields. *)
AddedToAsFound(to) == to

(* The cluster is looked up again before the write: the sweep may have replaced the set. *)
AddedTo(to) == IF to \in centroids THEN to ELSE Unclustered

LandVector(a) ==
  /\ adding[a] # NotAdding
  /\ Put(adding[a].chunk, adding[a].vector, AddedTo(adding[a].to))
  /\ adding' = [adding EXCEPT ![a] = NotAdding]
  /\ UNCHANGED <<old, centroids, flat, nextId, builtFor, clustering, relics>>

(* delete: the old table is not looked at. *)
DeleteVector(c) ==
  /\ c \in named
  /\ vec' = [vec EXCEPT ![c] = NoRow] /\ named' = named \ {c}
  /\ written' = [x \in named \ {c} |-> written[x]]
  /\ UNCHANGED <<old, centroids, flat, nextId, builtFor, adding, clustering, relics>>

(* queryUnfiltered before there are centroids (the old table is searched too), else
   queryClustered: the nearest clusters, all of them at most, and the unclustered rows. *)
Probed ==
  IF centroids = {} THEN {c \in named : In(c) \/ c \in DOMAIN old}
  ELSE {c \in named : In(c) /\ vec[c].cluster \in centroids \cup {Unclustered}}

-----------------------------------------------------------------------------
(* The sweep                                                               *)

(* What a LIMIT without an order may return: a full batch, taken before the rows of the
   collection are picked out of it. *)
SweepSlices(S) == {T \cap named : T \in kSubset(IF Cardinality(S) < SweepBatch THEN Cardinality(S) ELSE SweepBatch, S)}

Placed == {c \in VectorChunk : In(c) /\ vec[c].cluster # Unclustered}

Repairing ==
  centroids # {} /\ \/ Regrow > 0 /\ builtFor > 0 /\ Cardinality(named) >= Regrow * builtFor
                    \/ flat # {}

Ready == clustering.stage = "idle" /\ DOMAIN old = {} /\ Cardinality(named) >= MinCorpus

(* migrateLegacyBatch: a row whose chunk was written anew meanwhile is refused by the new
   table, and the batch with it. *)
MigrateLegacyBatch ==
  /\ clustering.stage = "idle" /\ DOMAIN old # {}
  /\ \E T \in {S \in SUBSET DOMAIN old : S # {} /\ Cardinality(S) <= SweepBatch} :
       /\ \A c \in T : ~In(c)
       /\ vec' = [c \in VectorChunk |-> IF c \in T THEN [cluster |-> Unclustered, vector |-> old[c]] ELSE vec[c]]
       /\ old' = [c \in DOMAIN old \ T |-> old[c]]
  /\ UNCHANGED <<named, centroids, flat, nextId, builtFor, adding, clustering, written, relics>>

Reset(S) == vec' = [c \in VectorChunk |-> IF c \in S THEN [vec[c] EXCEPT !.cluster = Unclustered] ELSE vec[c]]

(* A repair sends the placed rows back, a batch per slice. *)
ResetBatch ==
  /\ Ready /\ Repairing
  /\ \E S \in SweepSlices(Placed) \ {{}} : Reset(S)
  /\ UNCHANGED <<old, named, centroids, flat, nextId, builtFor, adding, clustering, written, relics>>

(* No row left to send back, or no centroids yet: the seeds are read, with yields. *)
StartSeeding ==
  /\ Ready
  /\ centroids = {} \/ (Repairing /\ {} \in SweepSlices(Placed))
  /\ clustering' = [NoSlice EXCEPT !.stage = "seeding", !.total = Cardinality(named)]
  /\ UNCHANGED <<vec, old, named, centroids, flat, nextId, builtFor, adding, written, relics>>

(* The rows added to the old set's clusters while the seeds were read. *)
LeftPlaced == IF centroids = {} THEN {} ELSE Placed \cap named

(* The seeds are read: nothing when none has a direction; the rows placed meanwhile go back
   first; else the new set replaces the old one in one transaction. *)
FinishSeeding ==
  /\ clustering.stage = "seeding" /\ clustering' = NoSlice
  /\ IF \A c \in named : vec[c].vector \in {"none", "zero"}
     THEN UNCHANGED <<vec, centroids, flat, nextId, builtFor>>
     ELSE \E k \in 1 .. 2 :
       /\ nextId + k <= MaxCluster /\ nextId' = nextId + k
       /\ IF LeftPlaced # {}
          THEN /\ \E S \in SweepSlices(Placed) : Reset(S)
               /\ UNCHANGED <<centroids, flat, builtFor>>
          ELSE /\ centroids' = nextId .. nextId + k - 1 /\ flat' = {} /\ builtFor' = clustering.total
               /\ UNCHANGED vec
  /\ UNCHANGED <<old, named, adding, written, relics>>

(* A batch of unclustered rows, or of clustered ones when there is none, is compared with
   the centroids, with yields; a vector without a direction is to be parked. *)
StartPlacing ==
  /\ Ready /\ centroids # {} /\ ~Repairing
  /\ LET waiting == {c \in VectorChunk : In(c) /\ vec[c].cluster = Unclustered}
         settled == {c \in named : In(c) /\ vec[c].cluster >= 0}
     IN  \E S \in {T \in SweepSlices(waiting) : T # {}} \cup (IF {} \in SweepSlices(waiting) THEN SweepSlices(settled) ELSE {}) :
           \E to \in [S -> centroids] :
             /\ S # {}
             /\ clustering' = [NoSlice EXCEPT !.stage = "placing", !.items =
                  {[chunk |-> c, vector |-> vec[c].vector, to |-> IF vec[c].vector = "zero" THEN Parked ELSE to[c]] : c \in S}]
  /\ UNCHANGED <<vec, old, named, centroids, flat, nextId, builtFor, adding, written, relics>>

(* reassignClusterBatch: a row deleted or re-embedded since it was read is left alone. *)
StillThere(i) == vec[i.chunk].vector = i.vector

FinishPlacing ==
  /\ clustering.stage = "placing" /\ clustering' = NoSlice
  /\ vec' = [c \in VectorChunk |->
       IF \E i \in clustering.items : i.chunk = c /\ StillThere(i)
       THEN LET i == CHOOSE i \in clustering.items : i.chunk = c IN [cluster |-> i.to, vector |-> i.vector]
       ELSE vec[c]]
  /\ UNCHANGED <<old, named, centroids, flat, nextId, builtFor, adding, written, relics>>

(* The worker dies: what it had in hand is gone. *)
ClusteringKilled ==
  /\ clustering # NoSlice \/ \E a \in Adder : adding[a] # NotAdding
  /\ clustering' = NoSlice /\ adding' = [a \in Adder |-> NotAdding]
  /\ UNCHANGED <<vec, old, named, centroids, flat, nextId, builtFor, written, relics>>

-----------------------------------------------------------------------------
ClustersNext ==
  \/ \E a \in Adder, c \in VectorChunk, v \in Vector : AddVector(a, c, v)
  \/ \E a \in Adder : LandVector(a)
  \/ \E c \in VectorChunk : DeleteVector(c)
  \/ MigrateLegacyBatch \/ ResetBatch \/ StartSeeding \/ FinishSeeding \/ StartPlacing \/ FinishPlacing
  \/ ClusteringKilled

ClustersSpec == ClustersInit /\ [][ClustersNext]_clusterVars

-----------------------------------------------------------------------------
(* Properties                                                              *)

(* A search that probes every cluster meets every chunk that has a vector with a direction,
   however repairs, adds and placements were interleaved: no row is left under a cluster id
   that the centroids no longer have. *)
EveryVectorIsProbed ==
  \A c \in named : In(c) /\ c \notin Probed => vec[c].vector = "zero" /\ vec[c].cluster = Parked

(* The sweep moves vectors between clusters and changes nothing else: a chunk's vector is
   the one last written for it, and a deleted chunk has none (but one the old table kept). *)
SweepKeepsVectors ==
  \A c \in VectorChunk : In(c) => IF c \in named THEN vec[c].vector = written[c] ELSE c \in relics
=============================================================================
