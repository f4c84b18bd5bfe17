--------------------------- MODULE EmbedderMeter ---------------------------
(***************************************************************************)
(* One engine's Embedder: every request for vectors goes through it, in    *)
(* batches sent one after the other, several callers at a time.  Two       *)
(* brakes: a pause for everybody once requests that got no answer cost too *)
(* many tokens, and an hourly budget for the callers somebody waits on     *)
(* (query, remember, worknote), metered in a ring of minutes.  Both are    *)
(* looked at before every batch and before every repeat.                   *)
(***************************************************************************)
EXTENDS Integers, FiniteSets, FiniteSetsExt, Functions

CONSTANTS
  Caller,          \* calls of embed() at a time
  Interactive,     \* those whose source somebody waits on
  Tokens,          \* of each caller's batches
  Batches,         \* of one call
  MaxRetries,      \* attempts at one batch
  Ring,            \* RING_MINUTES
  BudgetLimit,     \* interactive tokens per Ring minutes; 0 is off
  WasteLimit,      \* unanswered tokens per WasteWindow minutes; 0 is off
  WasteWindow,
  PauseFor,        \* minutes either brake holds
  MaxMinute        \* bound of the exploration

ASSUME MeterAssumption ==
  /\ Interactive \subseteq Caller /\ Interactive # {} /\ IsFiniteSet(Caller) /\ Tokens \in [Caller -> Nat \ {0}]
  /\ {Batches, MaxRetries, Ring, PauseFor} \subseteq Nat \ {0}
  /\ {BudgetLimit, WasteLimit, WasteWindow, MaxMinute} \subseteq Nat

VARIABLES
  minute,        \* the clock
  ring,          \* per slot: the minute it holds and the interactive tokens sent in it
  budgetUntil,   \* the budget's own pause ends here
  waste,         \* unanswered tokens by the minute they were sent in vain
  pausedUntil,   \* the waste pause ends here (0: there is none to end)
  call,          \* per caller: where its call is
  spent          \* interactive tokens by minute, kept for the properties

meterVars == <<minute, ring, budgetUntil, waste, pausedUntil, call, spent>>

Minutes == 0 .. MaxMinute

NoCall == [stage |-> "idle", left |-> 0, attempt |-> 0]

MeterTypeOK ==
  /\ minute \in Minutes
  /\ ring \in [0 .. Ring - 1 -> [minute : Minutes, sent : Nat]]
  /\ budgetUntil \in 0 .. MaxMinute + PauseFor /\ pausedUntil \in 0 .. MaxMinute + PauseFor
  /\ waste \in [Minutes -> Nat] /\ spent \in [Minutes -> Nat]
  /\ call \in [Caller -> [stage : {"idle", "sent", "answered", "backoff"}, left : 0 .. Batches, attempt : 0 .. MaxRetries]]

MeterInit ==
  /\ minute = 0 /\ ring = [slot \in 0 .. Ring - 1 |-> [minute |-> 0, sent |-> 0]]
  /\ budgetUntil = 0 /\ pausedUntil = 0
  /\ waste = [m \in Minutes |-> 0] /\ spent = [m \in Minutes |-> 0]
  /\ call = [c \in Caller |-> NoCall]

MinutePasses ==
  /\ minute < MaxMinute /\ minute' = minute + 1
  /\ UNCHANGED <<ring, budgetUntil, waste, pausedUntil, call, spent>>

-----------------------------------------------------------------------------
(* The budget and the ring                                                 *)

(* interactiveWindowTokens: a slot whose minute is older than the ring is not summed. *)
WindowTokens(r) ==
  SumFunction([slot \in 0 .. Ring - 1 |-> IF r[slot].minute + Ring > minute THEN r[slot].sent ELSE 0])

(* assertWithinBudget: once its pause is over, the spend of the hour decides again. *)
OverBudget(c) == c \in Interactive /\ BudgetLimit > 0 /\ (minute < budgetUntil \/ WindowTokens(ring) >= BudgetLimit)

(* assertNotPaused. *)
Refused(c) == minute < pausedUntil \/ OverBudget(c)

(* A refusal trips the budget again when no pause was running. *)
Tripped(over) == IF over /\ minute >= budgetUntil THEN minute + PauseFor ELSE budgetUntil

(* meter: a slot of an earlier hour is reused, not added to. *)
Metered(c) ==
  [ring EXCEPT ![minute % Ring] =
     [minute |-> minute, sent |-> (IF @.minute = minute THEN @.sent ELSE 0) + Tokens[c]]]

(* The request goes out: counted whether or not it is answered, and the one that takes the
   hour to the limit is the last. *)
Send(c, left, attempt) ==
  /\ call' = [call EXCEPT ![c] = [stage |-> "sent", left |-> left, attempt |-> attempt]]
  /\ IF c \in Interactive
     THEN /\ ring' = Metered(c)
          /\ budgetUntil' = Tripped(BudgetLimit > 0 /\ WindowTokens(Metered(c)) >= BudgetLimit)
          /\ spent' = [spent EXCEPT ![minute] = @ + Tokens[c]]
     ELSE UNCHANGED <<ring, budgetUntil, spent>>
  /\ UNCHANGED <<minute, waste, pausedUntil>>

(* The call throws without having sent anything. *)
Refuse(c) ==
  /\ call' = [call EXCEPT ![c] = NoCall]
  /\ budgetUntil' = IF minute < pausedUntil THEN budgetUntil ELSE Tripped(OverBudget(c))
  /\ UNCHANGED <<minute, ring, waste, pausedUntil, spent>>

Request(c, left, attempt) == IF Refused(c) THEN Refuse(c) ELSE Send(c, left, attempt)

-----------------------------------------------------------------------------
(* embed()                                                                 *)

(* Inputs over the model's limit throw here, before anything is counted; an empty list returns.
   Both leave the state as it is. *)
Embed(c) == call[c].stage = "idle" /\ \E n \in 1 .. Batches : Request(c, n - 1, 0)

NextBatch(c) == call[c].stage = "answered" /\ Request(c, call[c].left - 1, 0)

(* An answer after the pause ran out ends it and drops the evidence. *)
Answered(c) ==
  /\ call[c].stage = "sent"
  /\ call' = [call EXCEPT ![c] = IF @.left = 0 THEN NoCall ELSE [@ EXCEPT !.stage = "answered"]]
  /\ IF pausedUntil # 0 /\ minute >= pausedUntil
     THEN pausedUntil' = 0 /\ waste' = [m \in Minutes |-> 0]
     ELSE UNCHANGED <<pausedUntil, waste>>
  /\ UNCHANGED <<minute, ring, budgetUntil, spent>>

(* noteWaste: older evidence is pruned, and enough of it pauses everybody. *)
NoteWaste(c) ==
  LET kept == [m \in Minutes |-> (IF m + WasteWindow >= minute THEN waste[m] ELSE 0)
                                 + (IF m = minute THEN Tokens[c] ELSE 0)]
  IN  /\ waste' = kept
      /\ pausedUntil' = IF WasteLimit > 0 /\ SumFunction(kept) >= WasteLimit THEN minute + PauseFor ELSE pausedUntil

(* Our own timeout, or an answer that never came: never sent again. *)
Lost(c) ==
  /\ call[c].stage = "sent" /\ call' = [call EXCEPT ![c] = NoCall]
  /\ NoteWaste(c)
  /\ UNCHANGED <<minute, ring, budgetUntil, spent>>

(* A 5xx is paid for as well and tried again after a pause, up to MaxRetries attempts. *)
ServerError(c) ==
  /\ call[c].stage = "sent"
  /\ call' = [call EXCEPT ![c] = IF @.attempt + 1 >= MaxRetries THEN NoCall
                                 ELSE [@ EXCEPT !.stage = "backoff", !.attempt = @ + 1]]
  /\ NoteWaste(c)
  /\ UNCHANGED <<minute, ring, budgetUntil, spent>>

(* A 4xx or a refused connection: nothing was done for it. *)
Rejected(c) ==
  /\ call[c].stage = "sent" /\ call' = [call EXCEPT ![c] = NoCall]
  /\ UNCHANGED <<minute, ring, budgetUntil, waste, pausedUntil, spent>>

(* Mutant: the repeat is sent without another look at the brakes. *)
RetryUnchecked(c) == call[c].stage = "backoff" /\ Send(c, call[c].left, call[c].attempt)

(* The brakes may have been pulled during the backoff. *)
Retry(c) == call[c].stage = "backoff" /\ Request(c, call[c].left, call[c].attempt)

MeterNext ==
  \/ MinutePasses
  \/ \E c \in Caller : \/ Embed(c) \/ NextBatch(c) \/ Retry(c)
                       \/ Answered(c) \/ Lost(c) \/ ServerError(c) \/ Rejected(c)

MeterSpec == MeterInit /\ [][MeterNext]_meterVars

-----------------------------------------------------------------------------
(* Whatever interleaving of callers, batches and repeats: in no Ring consecutive minutes do the
   interactive callers together send the budget and more than one request over it. *)
SpendIsBounded ==
  BudgetLimit > 0 =>
    \A from \in Minutes :
      LET window == {m \in Minutes : from <= m /\ m < from + Ring}
          largest == Max({Tokens[c] : c \in Interactive})
      IN  SumFunctionOnSet(spent, window) < BudgetLimit + largest
=============================================================================
