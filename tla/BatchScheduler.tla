--------------------------- MODULE BatchScheduler ---------------------------
(***************************************************************************)
(* Continuous batching: BatchScheduler of src/model/pipeline.rs over       *)
(* prefill_batch and generate_token_batch. Prompts queue up, join the      *)
(* decode pool on the next tick, and every tick decodes one token for each *)
(* sequence of the pool, the sequences in parallel on rayon's workers.     *)
(*                                                                         *)
(* A GenerationState is here what GenerationState.tla shows it to be for   *)
(* these calls, one prompt into an empty state and single tokens behind    *)
(* it: the context it has consumed, answering with the model's choice.     *)
(* Prefill runs on states nobody else holds and drops them all when one    *)
(* fails, so its workers are one step; those of a decode are not.          *)
(***************************************************************************)
EXTENDS Naturals, Sequences, FiniteSets

CONSTANTS
  Token,      \* the vocabulary
  NCtx,       \* context_length
  Eos,        \* eos_id: a token, or anything else for None
  Greedy(_),  \* the target model: the argmax token after a context
  Request,    \* the requests callers make: [tokens : a prompt, max_new : Nat]
  MaxSubmit,  \* bound: how many they make
  NoAnswer    \* not a sequence

Contexts == Seq(Token)

ASSUME NCtxAssumption == NCtx \in Nat \ {0}
ASSUME GreedyAssumption == \A n \in 0..NCtx : \A s \in [1..n -> Token] : Greedy(s) \in Token
ASSUME RequestAssumption ==
  \A req \in Request :
    /\ req = [tokens |-> req.tokens, max_new |-> req.max_new]
    /\ req.tokens \in Contexts /\ req.tokens # <<>>
    /\ req.max_new \in Nat
ASSUME MaxSubmitAssumption == MaxSubmit \in Nat
ASSUME NoAnswerAssumption == NoAnswer \notin Contexts

VARIABLES
  \* BatchScheduler
  pending,    \* queued requests: PendingSeq
  meta,       \* the decode pool: ActiveMeta, slot by slot
  states,     \* the states, paired with meta by slot
  \* the tick in progress
  pc,         \* "idle" between calls, "decode" while workers run
  joined,     \* the ids of its Prefilled events
  todo,       \* the slots no worker has finished
  next_tokens,\* what the finished ones produced, by slot
  failed,     \* a worker returned an error
  \* history variables
  log,        \* what each tick that returned Ok reported
  submitted,  \* the requests, by id (next_id is their number)
  torn        \* ids whose state went ahead in a tick that returned an error

fields == <<pending, meta, states>>
tick == <<pc, joined, todo, next_tokens, failed>>
history == <<log, submitted, torn>>
vars == <<fields, tick, history>>

LastOf(s) == s[Len(s)]

Slots == 1..Len(meta)

Init ==
  /\ pending = <<>> /\ meta = <<>> /\ states = <<>>
  /\ pc = "idle" /\ joined = <<>> /\ todo = {} /\ next_tokens = <<>> /\ failed = FALSE
  /\ log = <<>> /\ submitted = <<>> /\ torn = {}

-----------------------------------------------------------------------------
(* Calls.                                                                  *)

\* Ids count from 1 here, from 0 in the code.
Submit(req) ==
  /\ pc = "idle" /\ Len(submitted) < MaxSubmit
  /\ pending' = Append(pending,
       [id |-> Len(submitted) + 1, tokens |-> req.tokens, max_new |-> req.max_new])
  /\ submitted' = Append(submitted, req)
  /\ UNCHANGED <<meta, states, tick, log, torn>>

\* Mutant of Fits: one position too many.
FitsOneMore(ctx, n) == Len(ctx) + n <= NCtx + 1

\* prefill and generate_token_logits: n more tokens fit the context.
Fits(ctx, n) == Len(ctx) + n <= NCtx

\* prefill_batch: every prompt into a fresh state, or an error.
Prefillable == \A i \in 1..Len(pending) : Fits(<<>>, Len(pending[i].tokens))

\* Mutant of Joined: the new sequences join in front.
JoinedInFront ==
  [i \in 1..Len(pending) |->
     [id |-> pending[i].id, last_token |-> LastOf(pending[i].tokens),
      generated |-> <<>>, max_new |-> pending[i].max_new]] \o meta

\* The pool once the queue has joined it.
Joined ==
  meta \o
  [i \in 1..Len(pending) |->
     [id |-> pending[i].id, last_token |-> LastOf(pending[i].tokens),
      generated |-> <<>>, max_new |-> pending[i].max_new]]

\* step(): the queue joins the pool and the pool starts to decode. An error
\* leaves the queue as it is.
BeginStep ==
  /\ pc = "idle"
  /\ Prefillable
  /\ pending' = <<>>
  /\ meta' = Joined
  /\ states' = states \o [i \in 1..Len(pending) |-> pending[i].tokens]
  /\ IF meta' = <<>>
     THEN UNCHANGED tick
     ELSE /\ pc' = "decode"
          /\ joined' = [i \in 1..Len(pending) |-> pending[i].id]
          /\ todo' = 1..Len(meta')
          /\ next_tokens' = [s \in 1..Len(meta') |-> <<>>]
          /\ failed' = FALSE
  /\ UNCHANGED history

RefuseStep ==
  /\ pc = "idle" /\ ~Prefillable
  /\ UNCHANGED vars

-----------------------------------------------------------------------------
(* The workers of generate_token_batch.                                    *)

\* Mutant of Feed: the prompt's last token is fed over and over.
FeedStale(s) == LastOf(submitted[meta[s].id].tokens)

\* The token worker s feeds: last_tokens[s].
Feed(s) == meta[s].last_token

Decode(s) ==
  /\ pc = "decode" /\ s \in todo
  /\ todo' = todo \ {s}
  /\ IF Fits(states[s], 1)
     THEN /\ states' = [states EXCEPT ![s] = Append(@, Feed(s))]
          /\ next_tokens' = [next_tokens EXCEPT ![s] = <<Greedy(states'[s])>>]
          /\ UNCHANGED failed
     ELSE failed' = TRUE /\ UNCHANGED <<states, next_tokens>>
  /\ UNCHANGED <<pending, meta, pc, joined, history>>

\* After an error, rayon starts no worker that has not started.
Skip(s) ==
  /\ pc = "decode" /\ failed /\ s \in todo
  /\ todo' = todo \ {s}
  /\ UNCHANGED <<fields, pc, joined, next_tokens, failed, history>>

-----------------------------------------------------------------------------
(* The tick ends.                                                          *)

EndTick ==
  /\ pc' = "idle" /\ joined' = <<>> /\ next_tokens' = <<>> /\ failed' = FALSE
  /\ UNCHANGED <<pending, todo, submitted>>

\* Mutant of Abort: the slots that failed are dropped, and the others decode
\* on.
AbortDropsFailed ==
  /\ pc = "decode" /\ todo = {} /\ failed
  /\ torn' = torn \cup {meta[s].id : s \in {x \in Slots : next_tokens[x] # <<>>}}
  /\ EndTick
  /\ LET ok(s) == next_tokens[s] # <<>>
         n == Cardinality({s \in Slots : ok(s)})
     IN /\ meta' = SubSeq(SelectSeq(meta, LAMBDA m : \E s \in Slots : m = meta[s] /\ ok(s)), 1, n)
        /\ states' = [k \in 1..n |-> states[CHOOSE s \in Slots :
                          ok(s) /\ Cardinality({x \in 1..s : ok(x)}) = k]]
  /\ UNCHANGED log

\* An error: the events of the tick are lost, and the metadata does not
\* know which states went ahead.
Abort ==
  /\ pc = "decode" /\ todo = {} /\ failed
  /\ torn' = torn \cup {meta[s].id : s \in {x \in Slots : next_tokens[x] # <<>>}}
  /\ EndTick
  /\ UNCHANGED <<meta, states, log>>

\* A slot after its token.
Advanced(s) ==
  [meta[s] EXCEPT !.generated = @ \o next_tokens[s], !.last_token = next_tokens[s][1]]

\* Mutant of Done: the limit is compared for equality.
DoneEqual(m) == Len(m.generated) = m.max_new \/ m.last_token = Eos

\* Mutant of Done: the limit is checked before the token is counted.
DoneLate(m) == Len(m.generated) > m.max_new \/ m.last_token = Eos

Done(m) == Len(m.generated) >= m.max_new \/ m.last_token = Eos

\* Mutant of Report: the output is taken before the token is pushed.
ReportBeforePush(s) ==
  [id |-> meta[s].id, token |-> next_tokens[s][1],
   output |-> IF Done(Advanced(s)) THEN meta[s].generated ELSE NoAnswer]

\* What a slot reports: its token, and its whole output when it is done. The
\* Decoded and Finished events of a slot are adjacent.
Report(s) ==
  LET m == Advanced(s)
  IN [id |-> m.id, token |-> m.last_token,
      output |-> IF Done(m) THEN m.generated ELSE NoAnswer]

\* The slots that stay.
Kept == {s \in Slots : ~Done(Advanced(s))}

\* The kept slots in order: there is exactly one such listing.
Compactions ==
  {keep \in UNION {[1..n -> Slots] : n \in 0..Len(meta)} :
     /\ {keep[i] : i \in DOMAIN keep} = Kept
     /\ \A i, j \in DOMAIN keep : i < j => keep[i] < keep[j]}

\* Mutant of KeptStates: the states are not compacted with their metadata.
KeptStatesPrefix(keep) == [k \in DOMAIN keep |-> states[k]]

KeptStates(keep) == [k \in DOMAIN keep |-> states[keep[k]]]

Retire ==
  /\ pc = "decode" /\ todo = {} /\ ~failed
  /\ \E keep \in Compactions :
       /\ meta' = [k \in DOMAIN keep |-> Advanced(keep[k])]
       /\ states' = KeptStates(keep)
  /\ log' = Append(log, [joined |-> joined, reports |-> [s \in Slots |-> Report(s)]])
  /\ EndTick
  /\ UNCHANGED torn

Worker == \E s \in todo : Decode(s) \/ Skip(s)

Next ==
  \/ \E req \in Request : Submit(req)
  \/ BeginStep \/ RefuseStep
  \/ Worker \/ Abort \/ Retire

Spec == Init /\ [][Next]_vars

\* A caller that drives the scheduler as run_until_idle does: it calls step
\* while there is work. Workers are never starved by rayon.
FairSpec == Spec /\ WF_vars(BeginStep) /\ WF_vars(Worker) /\ WF_vars(Abort \/ Retire)

-----------------------------------------------------------------------------
(* Properties.                                                             *)

EntryType ==
  [id : 1..MaxSubmit, last_token : Token, generated : Contexts, max_new : Nat]

\* The shape of every variable of the scheduler and of the tick in progress.
TypeOK ==
  /\ pending \in Seq([id : 1..MaxSubmit, tokens : Contexts, max_new : Nat])
  /\ meta \in Seq(EntryType)
  /\ states \in Seq(Contexts) /\ Len(states) = Len(meta)
  /\ \A s \in Slots : Len(states[s]) <= NCtx
  /\ pc \in {"idle", "decode"} /\ failed \in BOOLEAN
  /\ joined \in Seq(1..MaxSubmit)
  /\ todo \subseteq Slots
  /\ pc = "idle" => todo = {} /\ next_tokens = <<>> /\ ~failed
  /\ pc = "decode" => next_tokens \in [Slots -> {<<>>} \cup [1..1 -> Token]]
  /\ log \in Seq([joined : Seq(1..MaxSubmit),
                 reports : Seq([id : 1..MaxSubmit, token : Token,
                                output : Contexts \cup {NoAnswer}])])
  /\ submitted \in Seq(Request) /\ Len(submitted) <= MaxSubmit
  /\ torn \subseteq 1..MaxSubmit

ReportsOf(t) == {log[t].reports[s] : s \in DOMAIN log[t].reports}

\* The outputs reported for an id.
Outputs(id) ==
  UNION {{r.output : r \in {x \in ReportsOf(t) : x.id = id /\ x.output # NoAnswer}} :
           t \in DOMAIN log}

answers == [id \in DOMAIN submitted |->
              IF Outputs(id) = {} THEN NoAnswer ELSE CHOOSE out \in Outputs(id) : TRUE]

C == INSTANCE Completions WITH asked <- submitted

\* The ids the scheduler holds: the pool, and behind it the queue.
Held == [i \in 1..(Len(meta) + Len(pending)) |->
           IF i <= Len(meta) THEN meta[i].id ELSE pending[i - Len(meta)].id]

\* No request is lost, duplicated, overtaken or mixed up with another: the
\* held ids are in submit order whatever joins, retires or fails in between,
\* each carries its own limit and prompt, and an id is held exactly as long
\* as no output was reported for it.
Conserved ==
  /\ \A i, j \in DOMAIN Held : i < j => Held[i] < Held[j]
  /\ \A id \in DOMAIN submitted : (\E i \in DOMAIN Held : Held[i] = id) <=> Outputs(id) = {}
  /\ \A s \in Slots : meta[s].id <= Len(submitted) /\ meta[s].max_new = submitted[meta[s].id].max_new
  /\ \A i \in 1..Len(pending) :
       /\ pending[i].id <= Len(submitted)
       /\ submitted[pending[i].id] = [tokens |-> pending[i].tokens, max_new |-> pending[i].max_new]

\* All that slot s feeds, up to the token it has not fed yet.
Fed(s) == C!Seed(submitted[meta[s].id]) \o meta[s].generated

\* "metadata[i] pairs with states[i]": through every join, compaction and
\* partly finished tick, the state in a slot has consumed what the slot's
\* metadata says, all but its last token, and that one too once its worker
\* is done. Only a torn slot is exempt.
Paired ==
  \A s \in Slots :
    LET done == pc = "decode" /\ next_tokens[s] # <<>>
    IN /\ meta[s].last_token = LastOf(Fed(s))
       /\ meta[s].id \notin torn =>
            /\ states[s] = IF done THEN Fed(s) ELSE SubSeq(Fed(s), 1, Len(Fed(s)) - 1)
            /\ done => next_tokens[s] = <<Greedy(states[s])>>

\* The state of slot s is full, and this tick cannot succeed for it.
Exhausted(s) ==
  /\ ~Fits(states[s], 1)
  /\ pc = "decode" => next_tokens[s] = <<>> /\ (s \in todo \/ failed)

\* A state that went ahead of its metadata in a failed tick never answers:
\* the slot that failed the tick is full, stays, and fails every later one.
TornSilent == torn # {} => \E s \in Slots : Exhausted(s)

\* Ticks 1..last report exactly out for id, one token a tick and without a
\* gap, and its Prefilled event, if the caller ever saw it, came with the
\* first token.
Streamed(id, out, last) ==
  LET first == last - Len(out)
  IN \A t \in DOMAIN log :
       /\ {r.token : r \in {x \in ReportsOf(t) : x.id = id}} =
            IF t \in (first + 1)..last THEN {out[t - first]} ELSE {}
       /\ (\E i \in DOMAIN log[t].joined : log[t].joined[i] = id) => t = first + 1

\* The event stream adds up: the Finished output of an id is the sequence of
\* its Decoded tokens, nothing is reported after it, and a live sequence has
\* reported all it generated, whatever ticks failed in between.
EventsAddUp ==
  /\ \A s \in Slots : Streamed(meta[s].id, meta[s].generated, Len(log))
  /\ \A i \in 1..Len(pending) : Streamed(pending[i].id, <<>>, Len(log))
  /\ \A t \in DOMAIN log : \A r \in ReportsOf(t) :
       r.output # NoAnswer => Streamed(r.id, r.output, t)

\* The scheduler keeps the promise of Completions: each request is answered
\* at most once, with what sequential greedy decoding gives it alone.
RefinesCompletions == C!Spec

\* A request whose prompt and output fit the context. One token is always
\* decoded.
Admissible(req) ==
  /\ Fits(req.tokens, req.max_new)
  /\ Fits(req.tokens, 1)

\* If every request fits the context, every request is answered.
Served ==
  \A id \in 1..MaxSubmit :
    Len(submitted) >= id ~>
      \/ Outputs(id) # {}
      \/ \E i \in DOMAIN submitted : ~Admissible(submitted[i])

\* "Sequences are fully independent": a request that fits is answered,
\* whatever the others are. The code breaks this: step() returns the error of
\* any prompt or slot before it serves the others, and leaves the failing one
\* where it was.
Independent ==
  \A id \in 1..MaxSubmit :
    Len(submitted) >= id /\ Admissible(submitted[id]) ~> Outputs(id) # {}
=============================================================================
