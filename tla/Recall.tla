------------------------------- MODULE Recall -------------------------------
(***************************************************************************)
(* How memory comes back: the hybrid search (src/worker/search.ts), the    *)
(* filters and the two kinds of answer in src/worker/index.ts, explicit    *)
(* searches and the context injected with each prompt, the envelope that   *)
(* fits an injection into its token budget (src/worker/envelope.ts), and   *)
(* the retrieval counts and audit line each answer leaves.                 *)
(*                                                                         *)
(* A request runs on a reading thread while the writer folds, sinks,       *)
(* supersedes and removes what it is about to show; each query of a        *)
(* request sees the database as it is then.  Texts are their sizes in      *)
(* tokens, and a whole body may count more than its parts do.  Recency and *)
(* buoyancy, boosts and the temporal re-rank only change the order of      *)
(* hits; they are off.                                                     *)
(***************************************************************************)
EXTENDS Integers, Sequences, FiniteSets, SequencesExt, FiniteSetsExt

CONSTANTS
  Client,
  Item,             \* indexed chunks
  Channel,          \* item -> its channel
  Size,             \* item -> the tokens of its snippet
  MaxTop,           \* bound on top_k
  Budget,           \* the token budgets asked for
  PoolFactor,       \* candidates drawn for each slot of an injection
  PerStrategy,      \* perStrategyTopK
  SnippetFloor,     \* a snippet is never cut below this for its own sake
  MaxRequests,      \* bound
  MaxChanges        \* bound on what the writer does meanwhile

VARIABLES
  present,          \* the chunks in the index
  archived, sunk, superseded,
  request,          \* client -> the request it waits for
  answer,           \* client -> the last answer it got
  relay,            \* bumps on their way to the writer
  counted,          \* observation -> its counts as stored, by source
  shown,            \* history: observation -> how often it was returned
  requests, changes

recallVars == <<present, archived, sunk, superseded, request, answer, relay, counted, shown, requests, changes>>

Observations == {i \in Item : Channel[i] = "observation"}
Source == {"auto", "search", "drill"}
NoRequest == [phase |-> "idle"]
NoAnswer == [kind |-> "none"]

RecallInit ==
  /\ present = Item
  /\ archived = {} /\ sunk = {} /\ superseded = {}
  /\ request = [c \in Client |-> NoRequest]
  /\ answer = [c \in Client |-> NoAnswer]
  /\ relay = <<>>
  /\ counted = [o \in Observations |-> [s \in Source |-> 0]]
  /\ shown = [o \in Observations |-> [s \in Source |-> 0]]
  /\ requests = 0 /\ changes = 0

-----------------------------------------------------------------------------
(* Ranking                                                                 *)

(* Best first, and equal scores in the order they came in. *)
Ranked(hits) ==
  LET order == SetToSortSeq(DOMAIN hits, LAMBDA i, j : \/ hits[i].score > hits[j].score
                                                      \/ (hits[i].score = hits[j].score /\ i < j))
  IN  [n \in DOMAIN hits |-> hits[order[n]]]

(* reciprocalRankFusion, with k = 60. *)
Contribution(list, item) ==
  IF \E r \in DOMAIN list : list[r] = item
  THEN 1000000 \div (60 + CHOOSE r \in DOMAIN list : list[r] = item) ELSE 0

Fused(vector, keyword) ==
  LET items == vector \o SelectSeq(keyword, LAMBDA i : i \notin ToSet(vector))
  IN  Ranked([n \in DOMAIN items |->
                [id |-> items[n],
                 score |-> Contribution(vector, items[n]) + Contribution(keyword, items[n])]])

FirstN(s, n) == SubSeq(s, 1, IF n < Len(s) THEN n ELSE Len(s))

(* demoteSuperseded: never drops. *)
Demoted(hits) ==
  Ranked([n \in DOMAIN hits |-> [hits[n] EXCEPT !.score = IF hits[n].id \in superseded THEN @ \div 2 ELSE @]])

-----------------------------------------------------------------------------
(* The envelope                                                            *)

HeaderTokens == 1      \* the envelope's own text
GroupTokens == 1       \* the heading of a channel's group
HitTokens == 1         \* the heading and the link of a hit
MarkerTokens == 1      \* what a cut snippet ends in

Smaller(a, b) == IF a < b THEN a ELSE b
Larger(a, b) == IF a > b THEN a ELSE b

(* fairShares: the smallest first, and what it leaves goes to the others. *)
FairShares(sizes, budget) ==
  LET order == SetToSortSeq(DOMAIN sizes, LAMBDA i, j : sizes[i] < sizes[j] \/ (sizes[i] = sizes[j] /\ i < j))
      give(state, k) ==
        LET share == Smaller(sizes[order[k]], state.left \div (Len(order) - k + 1))
        IN  [left |-> state.left - share, shares |-> [state.shares EXCEPT ![order[k]] = share]]
  IN  FoldLeft(give, [left |-> Larger(0, budget), shares |-> [i \in DOMAIN sizes |-> 0]],
               [k \in DOMAIN sizes |-> k]).shares

(* A group without its snippets, each of which is cut to nothing. *)
Headings(hits) == Len(hits) * HitTokens + GroupTokens * Cardinality({Channel[hits[i]] : i \in DOMAIN hits})
Chrome(hits) == Headings(hits) + Len(hits) * MarkerTokens

(* truncateToTokenBudget: what is cut still ends in the marker. *)
Cut(size, cap) == IF size <= cap THEN size ELSE Larger(cap, MarkerTokens)

(* The body's tokens; `seam` is what the joins add to it. *)
BodyTokens(hits, sizes, shares, seam) ==
  FoldLeft(LAMBDA sum, i : sum + Cut(sizes[i], shares[i]), Headings(hits) + seam * Len(hits),
           [i \in DOMAIN hits |-> i])

(* fitGroup: as many of the best hits as have room for their headings, and
   shares of the rest for their snippets. *)
FitGroup(hits, sizes, budget) ==
  LET n == IF Chrome(hits) <= budget THEN Len(hits)
           ELSE LET fits == {m \in 1 .. Len(hits) - 1 : Chrome(SubSeq(hits, 1, m)) <= budget}
                IN  IF fits = {} THEN 0 ELSE Max(fits)
      kept == SubSeq(hits, 1, n)
  IN  [kept |-> kept, shares |-> FairShares(SubSeq(sizes, 1, n), budget - Chrome(kept))]

(* formatEnvelope.  A fit that still overflows is made again with the overflow
   held back, until it fits or nothing is left. *)
Envelope(hits, budget, flags, seam, cap) ==
  LET sizes == [i \in DOMAIN hits |-> Smaller(Size[hits[i]], cap)]
      frame == HeaderTokens + flags
      envelope(fit) == [kept |-> fit.kept, shares |-> fit.shares, sizes |-> SubSeq(sizes, 1, Len(fit.kept)),
                        tokens |-> frame + BodyTokens(fit.kept, sizes, fit.shares, seam)]
      uncut == envelope([kept |-> hits, shares |-> sizes])
      fitted[slack \in Nat] ==
        LET refit(e) == IF e.tokens <= budget \/ e.kept = <<>> THEN e ELSE fitted[slack + e.tokens - budget]
        IN  refit(envelope(FitGroup(hits, sizes, Larger(0, budget - frame) - slack)))
  IN  IF uncut.tokens - frame <= Larger(0, budget - frame) THEN uncut ELSE fitted[0]

-----------------------------------------------------------------------------
(* A request                                                               *)

(* A prompt that is too short, or a bare `continue`, is answered with an empty
   envelope and leaves no trace. *)
AnswerShort(c) ==
  /\ request[c].phase = "idle" /\ requests < MaxRequests
  /\ requests' = requests + 1
  /\ answer' = [answer EXCEPT ![c] = NoAnswer]
  /\ UNCHANGED <<present, archived, sunk, superseded, request, relay, counted, shown, changes>>

(* The query is embedded, which may fail: an answer by keywords is flagged. *)
BeginRequest(c) ==
  /\ request[c].phase = "idle" /\ requests < MaxRequests
  /\ requests' = requests + 1
  /\ \E kind \in {"inject", "all", "observations"}, top \in 1 .. MaxTop, embedded \in BOOLEAN :
       \E budget \in IF kind = "inject" THEN Budget ELSE {0} :
         request' = [request EXCEPT ![c] = [phase |-> "search", kind |-> kind, top |-> top,
                                            budget |-> budget, embedded |-> embedded]]
  /\ answer' = [answer EXCEPT ![c] = NoAnswer]
  /\ UNCHANGED <<present, archived, sunk, superseded, relay, counted, shown, changes>>

(* How many candidates a request draws. *)
PoolOf(r) == CASE r.kind = "inject" -> r.top * PoolFactor
               [] r.kind = "all" -> r.top
               [] r.kind = "observations" -> Cardinality(Item)

RankLists(items) == {s \in SeqOf(items, PerStrategy) : IsInjective(s)}

(* Both halves rank what is in the index now; one that fails finds nothing. *)
Search(c) ==
  LET r == request[c]
  IN  /\ r.phase = "search"
      /\ \E vector \in IF r.embedded THEN RankLists(present) ELSE {<<>>}, keyword \in RankLists(present) :
           request' = [request EXCEPT ![c] =
                         [phase |-> "filter", kind |-> r.kind, top |-> r.top, budget |-> r.budget,
                          flags |-> IF r.embedded THEN 0 ELSE 1,
                          pool |-> FirstN(Fused(vector, keyword), PoolOf(r))]]
      /\ UNCHANGED <<present, archived, sunk, superseded, answer, relay, counted, shown, requests, changes>>

NotIn(hits, gone) == SelectSeq(hits, LAMBDA h : h.id \notin gone)

(* The chunks that are still there, of the channels asked for, unless they are
   archived.  A search of one channel takes its slots before that. *)
Filter(c) ==
  LET r == request[c]
      found == SelectSeq(r.pool, LAMBDA h : h.id \in present /\ (r.kind = "observations" => h.id \in Observations))
      slots == IF r.kind = "observations" THEN FirstN(found, r.top) ELSE found
  IN  /\ r.phase = "filter"
      /\ request' = [request EXCEPT ![c] =
                       [phase |-> "answer", kind |-> r.kind, top |-> r.top, budget |-> r.budget,
                        flags |-> r.flags, pool |-> NotIn(slots, archived)]]
      /\ UNCHANGED <<present, archived, sunk, superseded, answer, relay, counted, shown, requests, changes>>

Ids(hits) == [i \in DOMAIN hits |-> hits[i].id]

(* dropSunkForAutoInject, then the first top_k. *)
Slots(r) == Ids(FirstN(NotIn(Demoted(r.pool), sunk), r.top))

(* Mutant: every hit that won a slot is counted, also one the budget dropped. *)
AllSlots(hits, envelope) == ToSet(hits)

(* rendered_ids *)
Shown(hits, envelope) == ToSet(hits) \cap ToSet(envelope.kept)

BumpSoon(ids, source) == IF ids = {} THEN relay ELSE Append(relay, [ids |-> ids, source |-> source])
Counting(counts, ids, source) == [o \in Observations |-> [counts[o] EXCEPT ![source] = @ + (IF o \in ids THEN 1 ELSE 0)]]

(* What the model saw is what is audited and counted. *)
AnswerInjection(c) ==
  LET r == request[c]
      cap == Larger(SnippetFloor, r.budget \div r.top)
  IN  /\ r.phase = "answer" /\ r.kind = "inject"
      /\ \E seam \in 0 .. 1, hits \in {Slots(r)} :
           \E envelope \in {Envelope(hits, r.budget, r.flags, seam, cap)} :
             LET audited == Shown(hits, envelope)
             IN  /\ answer' = [answer EXCEPT ![c] =
                      [kind |-> "inject", top |-> r.top, budget |-> r.budget, frame |-> HeaderTokens + r.flags,
                       hits |-> hits, missed |-> (ToSet(Ids(r.pool)) \ sunk) \ ToSet(hits),
                       envelope |-> envelope, audited |-> audited]]
                 /\ relay' = BumpSoon(audited \cap Observations, "auto")
                 /\ shown' = Counting(shown, ToSet(envelope.kept) \cap Observations, "auto")
      /\ request' = [request EXCEPT ![c] = NoRequest]
      /\ UNCHANGED <<present, archived, sunk, superseded, counted, requests, changes>>

AnswerSearch(c) ==
  LET r == request[c]
      results == ToSet(Ids(Demoted(r.pool)))
  IN  /\ r.phase = "answer" /\ r.kind # "inject"
      /\ relay' = BumpSoon(results \cap Observations, "search")
      /\ shown' = Counting(shown, results \cap Observations, "search")
      /\ request' = [request EXCEPT ![c] = NoRequest]
      /\ UNCHANGED <<present, archived, sunk, superseded, answer, counted, requests, changes>>

(* get_full of a chunk, or an observation in full unless it is archived. *)
Drill(c) ==
  /\ request[c].phase = "idle" /\ requests < MaxRequests
  /\ requests' = requests + 1
  /\ \E o \in (Observations \cap present) \cup (Observations \ archived) :
       /\ relay' = BumpSoon({o}, "drill")
       /\ shown' = Counting(shown, {o}, "drill")
  /\ UNCHANGED <<present, archived, sunk, superseded, request, answer, counted, changes>>

(* applyBump: the reader's bumps reach the writer in order, or not at all. *)
ApplyBump ==
  /\ relay # <<>>
  /\ relay' = Tail(relay)
  /\ \/ /\ counted' = Counting(counted, Head(relay).ids, Head(relay).source)
        /\ sunk' = sunk \ Head(relay).ids
     \/ UNCHANGED <<counted, sunk>>
  /\ UNCHANGED <<present, archived, superseded, request, answer, shown, requests, changes>>

-----------------------------------------------------------------------------
(* The writer's passes                                                     *)

Change ==
  /\ changes < MaxChanges
  /\ changes' = changes + 1
  /\ \/ /\ \E o \in Observations : archived' = archived \cup {o} \/ archived' = archived \ {o}
        /\ UNCHANGED <<present, sunk, superseded>>
     \/ /\ \E o \in Observations : sunk' = sunk \cup {o}
        /\ UNCHANGED <<present, archived, superseded>>
     \/ /\ \E o \in Observations : superseded' = superseded \cup {o}
        /\ UNCHANGED <<present, archived, sunk>>
     \/ /\ \E i \in Item : present' = present \ {i}
        /\ UNCHANGED <<archived, sunk, superseded>>
  /\ UNCHANGED <<request, answer, relay, counted, shown, requests>>

RecallNext ==
  \/ \E c \in Client : \/ AnswerShort(c) \/ BeginRequest(c) \/ Search(c) \/ Filter(c)
                       \/ AnswerInjection(c) \/ AnswerSearch(c) \/ Drill(c)
  \/ ApplyBump \/ Change

RecallSpec == RecallInit /\ [][RecallNext]_recallVars

-----------------------------------------------------------------------------
RecallTypeOK ==
  /\ present \subseteq Item /\ archived \cup sunk \cup superseded \subseteq Observations
  /\ \A c \in Client : request[c].phase \in {"idle", "search", "filter", "answer"}
  /\ counted \in [Observations -> [Source -> 0 .. MaxRequests]]

Injections == {answer[c] : c \in {d \in Client : answer[d].kind = "inject"}}

(* "Token-budget enforcement happens inside this function" (envelope.ts): no
   envelope is larger than its budget, unless nothing but its frame is left. *)
WithinBudget ==
  \A a \in Injections : a.envelope.tokens <= a.budget \/ a.envelope.kept = <<>>

(* "a hit whose header does not fit is dropped whole, lowest-ranked first", and
   snippets are "water-filled": nobody is cut while somebody else keeps more
   than one token more. *)
BestHitsKeepMost ==
  \A a \in Injections :
    LET e == a.envelope
        isCut(i) == e.shares[i] < e.sizes[i]
    IN  /\ IsPrefix(e.kept, a.hits)
        /\ \A i, j \in DOMAIN e.kept : isCut(i) => e.shares[j] <= e.shares[i] + 1

(* "neither a folded dup nor an ebbed row consumes a slot a live observation
   should fill" (index.ts): a candidate is left out only when all slots are taken. *)
NoSlotIsWasted ==
  \A a \in Injections : a.missed # {} => Len(a.hits) = a.top

(* "Only what the envelope carries is audited and bumped" (index.ts): the audit
   line names what the envelope shows, and an observation's counts never run
   ahead of how often it was returned, however late the bumps arrive. *)
CountsAreOfWhatWasSeen ==
  /\ \A a \in Injections : a.audited = ToSet(a.envelope.kept)
  /\ \A o \in Observations, s \in Source :
       counted[o][s] + Len(SelectSeq(relay, LAMBDA b : b.source = s /\ o \in b.ids)) <= shown[o][s]

InjectionIsTrue == WithinBudget /\ BestHitsKeepMost /\ NoSlotIsWasted /\ CountsAreOfWhatWasSeen
=============================================================================
