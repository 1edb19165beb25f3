------------------------ MODULE BatchSchedulerProofs ------------------------
(***************************************************************************)
(* For every vocabulary, model, context length and stream of requests:     *)
(* TypeOK, Conserved, Paired and TornSilent of BatchScheduler, from one    *)
(* inductive invariant, EventsAddUp from it and a second one, and that the *)
(* scheduler implements Completions.                                       *)
(***************************************************************************)
EXTENDS BatchScheduler, SeqLemmas, SequenceTheorems, TLAPS

\* The pool and the queue hold requests that were made, with their own limits
\* and prompts.
Ids ==
  /\ \A s \in Slots :
       /\ meta[s].id \in 1..Len(submitted)
       /\ meta[s].max_new = submitted[meta[s].id].max_new
  /\ \A i \in 1..Len(pending) :
       /\ pending[i].id \in 1..Len(submitted)
       /\ submitted[pending[i].id] = [tokens |-> pending[i].tokens, max_new |-> pending[i].max_new]

\* They hold them in submit order, the pool before the queue.
Ordered ==
  /\ \A s, t \in Slots : s < t => meta[s].id < meta[t].id
  /\ \A i, k \in 1..Len(pending) : i < k => pending[i].id < pending[k].id
  /\ \A s \in Slots, i \in 1..Len(pending) : meta[s].id < pending[i].id

\* A worker has no token before it is done, and one after unless there was an
\* error; behind an error is a state without room.
Working ==
  pc = "decode" =>
    /\ \A s \in todo : next_tokens[s] = <<>>
    /\ \A s \in Slots \ todo : next_tokens[s] # <<>> \/ failed
    /\ failed => \E s \in Slots : ~Fits(states[s], 1) /\ next_tokens[s] = <<>>

InPool(id) == \E s \in Slots : meta[s].id = id
Queued(id) == \E i \in 1..Len(pending) : pending[i].id = id

\* Reports are about requests, and an output was reported exactly for those
\* that are held no more.
Reported ==
  /\ \A t \in DOMAIN log : \A r \in ReportsOf(t) : r.id \in 1..Len(submitted)
  /\ \A id \in DOMAIN submitted : Outputs(id) = {} <=> InPool(id) \/ Queued(id)

\* What a slot has generated is a greedy run that has not ended.
Running ==
  \A s \in Slots :
    /\ C!Sequential(submitted[meta[s].id], meta[s].generated)
    /\ \A i \in 1..Len(meta[s].generated) :
         i < meta[s].max_new /\ meta[s].generated[i] # Eos

\* The inductive invariant.
SchedInv ==
  TypeOK /\ Ids /\ Ordered /\ Working /\ Paired /\ TornSilent /\ Reported /\ Running

-----------------------------------------------------------------------------
(* What is known of requests and slots.                                    *)

LEMMA RequestFacts ==
  ASSUME NEW req \in Request
  PROVE  /\ req.tokens \in Seq(Token) /\ req.tokens # <<>> /\ req.max_new \in Nat
         /\ req = [tokens |-> req.tokens, max_new |-> req.max_new]
         /\ LastOf(req.tokens) \in Token /\ Len(req.tokens) \in Nat /\ Len(req.tokens) > 0
         /\ C!Seed(req) = Append(req.tokens, LastOf(req.tokens))
         /\ C!Seed(req) \in Seq(Token) /\ Len(C!Seed(req)) = Len(req.tokens) + 1
<1>1. /\ req.tokens \in Seq(Token) /\ req.tokens # <<>> /\ req.max_new \in Nat
      /\ req = [tokens |-> req.tokens, max_new |-> req.max_new]
  BY RequestAssumption DEF Contexts
<1>2. Len(req.tokens) \in Nat /\ Len(req.tokens) > 0
  BY <1>1, EmptySeq, LenProperties
<1>3. LastOf(req.tokens) \in Token
  BY <1>1, <1>2, ElementOfSeq DEF LastOf
<1>4. C!Seed(req) = Append(req.tokens, LastOf(req.tokens))
  BY DEF C!Seed, LastOf
<1>5. C!Seed(req) \in Seq(Token) /\ Len(C!Seed(req)) = Len(req.tokens) + 1
  BY <1>1, <1>3, <1>4, AppendProperties
<1> QED
  BY <1>1, <1>2, <1>3, <1>4, <1>5

\* A context that starts with a prompt.
LEMMA FedType ==
  ASSUME NEW req \in Request, NEW g \in Seq(Token)
  PROVE  /\ C!Seed(req) \o g \in Seq(Token)
         /\ Len(C!Seed(req) \o g) = Len(req.tokens) + 1 + Len(g)
         /\ Len(C!Seed(req) \o g) \in Nat /\ Len(C!Seed(req) \o g) > 0
         /\ Len(g) \in Nat /\ Len(req.tokens) \in Nat
<1> DEFINE c == C!Seed(req)
           n == Len(req.tokens)
<1>1. c \in Seq(Token) /\ Len(c) = n + 1 /\ n \in Nat
  BY RequestFacts
<1> HIDE DEF c, n
<1>2. c \o g \in Seq(Token) /\ Len(c \o g) = Len(c) + Len(g) /\ Len(g) \in Nat
  BY <1>1, ConcatProperties, LenProperties
<1>3. Len(c \o g) = n + 1 + Len(g) /\ n + 1 + Len(g) \in Nat /\ n + 1 + Len(g) > 0
  BY <1>1, <1>2
<1> QED
  BY <1>1, <1>2, <1>3 DEF c, n

LEMMA SlotFacts ==
  ASSUME SchedInv
  PROVE  /\ Len(meta) \in Nat /\ DOMAIN meta = Slots /\ DOMAIN states = Slots
         /\ Slots \subseteq Nat
         /\ Len(submitted) \in Nat /\ DOMAIN submitted = 1..Len(submitted)
         /\ \A s \in Slots :
              /\ meta[s] \in EntryType /\ meta[s].id \in 1..Len(submitted)
              /\ meta[s].last_token \in Token /\ meta[s].generated \in Seq(Token)
              /\ submitted[meta[s].id] \in Request
              /\ states[s] \in Seq(Token) /\ Len(states[s]) <= NCtx
<1>1. /\ meta \in Seq(EntryType) /\ states \in Seq(Contexts) /\ Len(states) = Len(meta)
      /\ submitted \in Seq(Request) /\ \A s \in Slots : Len(states[s]) <= NCtx
  BY DEF SchedInv, TypeOK
<1>2. /\ Len(meta) \in Nat /\ DOMAIN meta = 1..Len(meta) /\ DOMAIN states = 1..Len(meta)
      /\ Len(submitted) \in Nat /\ DOMAIN submitted = 1..Len(submitted)
  BY <1>1, LenProperties
<1>3. ASSUME NEW s \in Slots
      PROVE  meta[s] \in EntryType /\ states[s] \in Contexts /\ meta[s].id \in 1..Len(submitted)
  BY <1>1, ElementOfSeq DEF Slots, SchedInv, Ids
<1>4. ASSUME NEW s \in Slots PROVE submitted[meta[s].id] \in Request
  BY <1>1, <1>3, ElementOfSeq
<1> QED
  BY <1>1, <1>2, <1>3, <1>4 DEF Slots, EntryType, Contexts

LEMMA QueueFacts ==
  ASSUME SchedInv
  PROVE  /\ Len(pending) \in Nat /\ DOMAIN pending = 1..Len(pending)
         /\ \A i \in 1..Len(pending) :
              /\ pending[i] \in [id : 1..MaxSubmit, tokens : Contexts, max_new : Nat]
              /\ pending[i].id \in 1..Len(submitted) /\ pending[i].id \in 1..MaxSubmit
              /\ submitted[pending[i].id] \in Request
              /\ submitted[pending[i].id].tokens = pending[i].tokens
              /\ submitted[pending[i].id].max_new = pending[i].max_new
              /\ pending[i].tokens \in Seq(Token) /\ pending[i].tokens # <<>>
              /\ pending[i].max_new \in Nat
<1>1. /\ pending \in Seq([id : 1..MaxSubmit, tokens : Contexts, max_new : Nat])
      /\ submitted \in Seq(Request)
  BY DEF SchedInv, TypeOK
<1>2. Len(pending) \in Nat /\ DOMAIN pending = 1..Len(pending)
  BY <1>1, LenProperties
<1>3. ASSUME NEW i \in 1..Len(pending)
      PROVE  /\ pending[i] \in [id : 1..MaxSubmit, tokens : Contexts, max_new : Nat]
             /\ pending[i].id \in 1..Len(submitted)
             /\ submitted[pending[i].id] = [tokens |-> pending[i].tokens, max_new |-> pending[i].max_new]
             /\ submitted[pending[i].id] \in Request
  BY <1>1, ElementOfSeq DEF SchedInv, Ids
<1>4. ASSUME NEW i \in 1..Len(pending)
      PROVE  /\ submitted[pending[i].id].tokens = pending[i].tokens
             /\ submitted[pending[i].id].max_new = pending[i].max_new
             /\ pending[i].tokens \in Seq(Token) /\ pending[i].tokens # <<>>
             /\ pending[i].max_new \in Nat /\ pending[i].id \in 1..MaxSubmit
  <2>0. submitted[pending[i].id] = [tokens |-> pending[i].tokens, max_new |-> pending[i].max_new]
    BY <1>3, Zenon
  <2>1. /\ submitted[pending[i].id].tokens = pending[i].tokens
        /\ submitted[pending[i].id].max_new = pending[i].max_new
    BY <2>0
  <2>2. pending[i].tokens # <<>>
    BY <1>3, <2>1, RequestFacts
  <2> QED
    BY <1>3, <2>1, <2>2 DEF Contexts
<1> QED
  BY <1>2, <1>3, <1>4

\* What a slot has fed or will feed.
LEMMA FedFacts ==
  ASSUME SchedInv, NEW s \in Slots
  PROVE  /\ Fed(s) \in Seq(Token) /\ Len(Fed(s)) \in Nat /\ Len(Fed(s)) > 0
         /\ Fed(s) = C!Seed(submitted[meta[s].id]) \o meta[s].generated
<1>1. submitted[meta[s].id] \in Request /\ meta[s].generated \in Seq(Token)
  BY SlotFacts
<1> QED
  BY <1>1, FedType DEF Fed

\* The outputs that were reported for an id.
LEMMA OutputsMember ==
  ASSUME NEW id, NEW out
  PROVE  out \in Outputs(id) <=>
           \E t \in DOMAIN log : \E r \in ReportsOf(t) :
             r.id = id /\ r.output # NoAnswer /\ out = r.output
BY DEF Outputs

-----------------------------------------------------------------------------
(* The first state, and steps that leave everything alone.                 *)

LEMMA SchedInitInv == Init => SchedInv
<1> SUFFICES ASSUME Init PROVE SchedInv
  OBVIOUS
<1>0. Len(<<>>) = 0 /\ DOMAIN <<>> = {} /\ Slots = {} /\ 1..0 = {}
  BY DEF Init, Slots
<1>1. TypeOK
  <2>1. failed \in BOOLEAN /\ ~failed
    BY Zenon DEF Init
  <2>2. \A S : <<>> \in Seq(S)
    BY EmptySeq
  <2> QED
    BY <1>0, <2>1, <2>2, MaxSubmitAssumption DEF Init, TypeOK
<1>2. Ids /\ Ordered /\ Working /\ Paired /\ TornSilent /\ Reported /\ Running
  BY <1>0 DEF Init, Ids, Ordered, Working, Paired, TornSilent, Reported, Running
<1> QED
  BY <1>1, <1>2 DEF SchedInv

\* What is reported depends on the log alone.
LEMMA LogKept ==
  ASSUME UNCHANGED log
  PROVE  /\ \A t : ReportsOf(t)' = ReportsOf(t)
         /\ \A id : Outputs(id)' = Outputs(id)
BY DEF Outputs, ReportsOf

LEMMA SchedStutter ==
  ASSUME SchedInv, UNCHANGED vars
  PROVE  SchedInv'
<1>1. UNCHANGED <<pending, meta, states, pc, joined, todo, next_tokens, failed, log, submitted, torn>>
  BY DEF vars, fields, tick, history
<1>2. TypeOK'
  <2>1. failed' \in BOOLEAN /\ (pc' = "idle" => ~failed')
    BY <1>1, Zenon DEF SchedInv, TypeOK
  <2> QED
    BY <1>1, <2>1 DEF SchedInv, TypeOK, Slots
<1>3. Ids' /\ Ordered' /\ Running'
  BY <1>1 DEF SchedInv, Ids, Ordered, Running, Slots, C!Sequential, C!Seed
<1>4. Working' /\ TornSilent'
  BY <1>1, Zenon DEF SchedInv, Working, TornSilent, Exhausted, Slots, Fits
<1>5. \A s : Fed(s)' = Fed(s)
  BY <1>1 DEF Fed, C!Seed
<1>6. Paired'
  BY <1>1, <1>5 DEF SchedInv, Paired, Slots
<1>7. Reported'
  BY <1>1, LogKept DEF SchedInv, Reported, InPool, Queued, Slots
<1> QED
  BY <1>2, <1>3, <1>4, <1>6, <1>7 DEF SchedInv

-----------------------------------------------------------------------------
(* A request.                                                              *)

\* It is the last of those that were made, and of the queue.
LEMMA Submitted ==
  ASSUME SchedInv, NEW req \in Request, Submit(req), NEW n, n = Len(submitted)
  PROVE  /\ n \in Nat /\ n + 1 \in 1..MaxSubmit
         /\ submitted' \in Seq(Request) /\ Len(submitted') = n + 1
         /\ DOMAIN submitted' = 1..(n + 1)
         /\ \A id \in 1..n : submitted'[id] = submitted[id]
         /\ submitted'[n + 1] = req
         /\ pending' \in Seq([id : 1..MaxSubmit, tokens : Contexts, max_new : Nat])
         /\ Len(pending') = Len(pending) + 1
         /\ \A i \in 1..Len(pending) : pending'[i] = pending[i]
         /\ pending'[Len(pending) + 1] = [id |-> n + 1, tokens |-> req.tokens, max_new |-> req.max_new]
<1> DEFINE new == [id |-> n + 1, tokens |-> req.tokens, max_new |-> req.max_new]
           P == [id : 1..MaxSubmit, tokens : Contexts, max_new : Nat]
<1>1. /\ n < MaxSubmit /\ submitted' = Append(submitted, req) /\ pending' = Append(pending, new)
  BY DEF Submit
<1>2. /\ submitted \in Seq(Request) /\ pending \in Seq(P) /\ n \in Nat /\ MaxSubmit \in Nat
  BY LenProperties, MaxSubmitAssumption DEF SchedInv, TypeOK
<1>3. n + 1 \in 1..MaxSubmit
  BY <1>1, <1>2
<1>4. new \in P
  BY <1>3, RequestFacts DEF Contexts
<1> HIDE DEF new, P
<1>5. /\ pending' \in Seq(P) /\ Len(pending') = Len(pending) + 1
      /\ \A i \in 1..Len(pending) : pending'[i] = pending[i]
      /\ pending'[Len(pending) + 1] = new
  BY <1>1, <1>2, <1>4, AppendProperties
<1>6. /\ submitted' \in Seq(Request) /\ Len(submitted') = n + 1
      /\ \A id \in 1..n : submitted'[id] = submitted[id]
      /\ submitted'[n + 1] = req
  BY <1>1, <1>2, AppendProperties
<1>7. DOMAIN submitted' = 1..(n + 1)
  BY <1>6, LenProperties
<1> QED
  BY <1>2, <1>3, <1>5, <1>6, <1>7 DEF new, P

LEMMA SubmitInv ==
  ASSUME SchedInv, NEW req \in Request, Submit(req)
  PROVE  SchedInv'
<1>1. PICK n : n = Len(submitted)
  OBVIOUS
<1>2. /\ pc = "idle"
      /\ UNCHANGED <<meta, states, pc, joined, todo, next_tokens, failed, log, torn>>
  BY DEF Submit, tick
<1>3. /\ n \in Nat /\ n + 1 \in 1..MaxSubmit
      /\ submitted' \in Seq(Request) /\ Len(submitted') = n + 1
      /\ DOMAIN submitted' = 1..(n + 1)
      /\ \A id \in 1..n : submitted'[id] = submitted[id]
      /\ submitted'[n + 1] = req
      /\ pending' \in Seq([id : 1..MaxSubmit, tokens : Contexts, max_new : Nat])
      /\ Len(pending') = Len(pending) + 1
      /\ \A i \in 1..Len(pending) : pending'[i] = pending[i]
      /\ pending'[Len(pending) + 1] = [id |-> n + 1, tokens |-> req.tokens, max_new |-> req.max_new]
  BY <1>1, Submitted
<1>4. /\ Len(pending) \in Nat
      /\ \A i \in 1..Len(pending') : i \in 1..Len(pending) \/ i = Len(pending) + 1
      /\ \A id \in 1..(n + 1) : id \in 1..n \/ id = n + 1
  BY <1>3, QueueFacts
<1>5. /\ pending'[Len(pending) + 1].id = n + 1
      /\ pending'[Len(pending) + 1].tokens = req.tokens
      /\ pending'[Len(pending) + 1].max_new = req.max_new
  BY <1>3
<1>6. /\ \A s \in Slots : meta[s].id \in 1..n
      /\ \A i \in 1..Len(pending) : pending[i].id \in 1..n
  BY <1>1, SlotFacts, QueueFacts
<1>7. Slots' = Slots
  BY <1>2 DEF Slots
<1>8. TypeOK'
  <2>1. failed' \in BOOLEAN /\ (pc' = "idle" => ~failed')
    BY <1>2, Zenon DEF SchedInv, TypeOK
  <2>2. Len(submitted') <= MaxSubmit
    BY <1>3, MaxSubmitAssumption
  <2> QED
    BY <1>2, <1>3, <1>7, <2>1, <2>2 DEF SchedInv, TypeOK
<1>9. Ids'
  <2>1. ASSUME NEW s \in Slots
        PROVE  meta[s].id \in 1..(n + 1) /\ meta[s].max_new = submitted'[meta[s].id].max_new
    <3>1. meta[s].id \in 1..n /\ meta[s].max_new = submitted[meta[s].id].max_new
      BY <1>6 DEF SchedInv, Ids
    <3> QED
      BY <1>3, <3>1
  <2>2. ASSUME NEW i \in 1..Len(pending)
        PROVE  /\ pending'[i].id \in 1..(n + 1)
               /\ submitted'[pending'[i].id] =
                    [tokens |-> pending'[i].tokens, max_new |-> pending'[i].max_new]
    <3>1. /\ pending[i].id \in 1..n /\ pending'[i] = pending[i]
          /\ submitted[pending[i].id] =
               [tokens |-> pending[i].tokens, max_new |-> pending[i].max_new]
      BY <1>3, <1>6 DEF SchedInv, Ids
    <3>2. pending[i].id \in 1..(n + 1) /\ submitted'[pending[i].id] = submitted[pending[i].id]
      BY <1>3, <3>1
    <3> QED
      BY <3>1, <3>2
  <2>3. /\ n + 1 \in 1..(n + 1)
        /\ submitted'[n + 1] = [tokens |-> req.tokens, max_new |-> req.max_new]
    BY <1>3, RequestFacts
  <2> QED
    BY <1>2, <1>3, <1>4, <1>5, <1>7, <2>1, <2>2, <2>3 DEF Ids
<1>10. Ordered'
  <2>1. ASSUME NEW i \in 1..Len(pending'), NEW k \in 1..Len(pending'), i < k
        PROVE  pending'[i].id < pending'[k].id
    <3>1. CASE k \in 1..Len(pending)
      <4>1. i \in 1..Len(pending)
        BY <1>4, <2>1, <3>1
      <4> QED
        BY <1>3, <2>1, <3>1, <4>1 DEF SchedInv, Ordered
    <3>2. CASE k = Len(pending) + 1
      <4>1. i \in 1..Len(pending)
        BY <1>4, <2>1, <3>2
      <4>2. pending'[i].id \in 1..n
        BY <1>3, <1>6, <4>1
      <4> QED
        BY <1>3, <1>5, <3>2, <4>2
    <3> QED
      BY <1>4, <3>1, <3>2
  <2>2. ASSUME NEW s \in Slots, NEW i \in 1..Len(pending')
        PROVE  meta[s].id < pending'[i].id
    <3>1. CASE i \in 1..Len(pending)
      BY <1>3, <3>1 DEF SchedInv, Ordered
    <3>2. CASE i = Len(pending) + 1
      <4>1. meta[s].id \in 1..n
        BY <1>6
      <4> QED
        BY <1>3, <1>5, <3>2, <4>1
    <3> QED
      BY <1>4, <3>1, <3>2
  <2> QED
    BY <1>2, <1>7, <2>1, <2>2 DEF SchedInv, Ordered
<1>11. Working' /\ TornSilent'
  BY <1>2, <1>7 DEF SchedInv, Working, TornSilent, Exhausted
<1>12. ASSUME NEW s \in Slots
       PROVE  submitted'[meta[s].id] = submitted[meta[s].id] /\ Fed(s)' = Fed(s)
  <2>1. submitted'[meta[s].id] = submitted[meta[s].id]
    BY <1>3, <1>6
  <2> QED
    BY <1>2, <2>1 DEF Fed, C!Seed
<1>13. Paired'
  BY <1>2, <1>7, <1>12 DEF SchedInv, Paired
<1>14. Running'
  BY <1>2, <1>7, <1>12 DEF SchedInv, Running, C!Sequential, C!Seed
<1>15. Reported'
  <2>1. ASSUME NEW t \in DOMAIN log, NEW r \in ReportsOf(t) PROVE r.id \in 1..n
    BY <1>1 DEF SchedInv, Reported
  <2>2. \A id \in 1..n : Queued(id)' <=> Queued(id)
    <3> SUFFICES ASSUME NEW id \in 1..n PROVE Queued(id)' <=> Queued(id)
      OBVIOUS
    <3>1. id # n + 1
      BY <1>3
    <3>2. \A i \in 1..Len(pending) : i \in 1..Len(pending')
      BY <1>3, <1>4
    <3> QED
      BY <1>3, <1>4, <1>5, <3>1, <3>2 DEF Queued
  <2>3. Queued(n + 1)'
    <3>1. Len(pending) + 1 \in 1..Len(pending')
      BY <1>3, <1>4
    <3> QED
      BY <1>5, <3>1 DEF Queued
  <2>4. Outputs(n + 1) = {}
    <3>1. n + 1 \notin 1..n
      BY <1>3
    <3> QED
      BY <2>1, <3>1, OutputsMember
  <2>5. \A id : InPool(id)' <=> InPool(id)
    BY <1>2, <1>7 DEF InPool
  <2>6. ASSUME NEW id \in 1..n
        PROVE  Outputs(id) = {} <=> InPool(id) \/ Queued(id)
    BY <1>1, SlotFacts DEF SchedInv, Reported
  <2>7. \A id \in 1..(n + 1) : Outputs(id)' = {} <=> InPool(id)' \/ Queued(id)'
    BY <1>2, <1>4, <2>2, <2>3, <2>4, <2>5, <2>6, LogKept
  <2>8. \A t \in DOMAIN log' : \A r \in ReportsOf(t)' : r.id \in 1..(n + 1)
    BY <1>2, <1>3, <2>1, LogKept
  <2> QED
    BY <1>3, <2>7, <2>8 DEF Reported
<1> QED
  BY <1>8, <1>9, <1>10, <1>11, <1>13, <1>14, <1>15 DEF SchedInv
-----------------------------------------------------------------------------
(* A tick begins: the queue joins the pool.                                *)

\* The old slots keep what they hold, and behind them the queue has become
\* slots.
LEMMA Begun ==
  ASSUME SchedInv, BeginStep
  PROVE  /\ meta' \in Seq(EntryType) /\ Len(meta') = Len(meta) + Len(pending)
         /\ states' \in Seq(Contexts) /\ Len(states') = Len(meta')
         /\ \A s \in Slots : meta'[s] = meta[s] /\ states'[s] = states[s]
         /\ \A i \in 1..Len(pending) :
              /\ meta'[Len(meta) + i] =
                   [id |-> pending[i].id, last_token |-> LastOf(pending[i].tokens),
                    generated |-> <<>>, max_new |-> pending[i].max_new]
              /\ states'[Len(meta) + i] = pending[i].tokens
              /\ Len(pending[i].tokens) <= NCtx
<1> DEFINE entry(i) == [id |-> pending[i].id, last_token |-> LastOf(pending[i].tokens),
                        generated |-> <<>>, max_new |-> pending[i].max_new]
           M == [i \in 1..Len(pending) |-> entry(i)]
           S == [i \in 1..Len(pending) |-> pending[i].tokens]
<1>1. meta' = meta \o M /\ states' = states \o S /\ Prefillable
  BY DEF BeginStep, Joined
<1>2. Len(pending) \in Nat
  BY QueueFacts
<1>3. ASSUME NEW i \in 1..Len(pending)
      PROVE  entry(i) \in EntryType /\ pending[i].tokens \in Contexts /\ Len(pending[i].tokens) <= NCtx
  <2>1. /\ submitted[pending[i].id] \in Request
        /\ submitted[pending[i].id].tokens = pending[i].tokens
        /\ pending[i].id \in 1..MaxSubmit /\ pending[i].max_new \in Nat
        /\ pending[i].tokens \in Seq(Token)
    BY QueueFacts
  <2>2. LastOf(pending[i].tokens) \in Token
    BY <2>1, RequestFacts
  <2>3. <<>> \in Contexts
    BY EmptySeq DEF Contexts
  <2>4. entry(i) \in EntryType
    BY <2>1, <2>2, <2>3 DEF EntryType
  <2>5. Len(<<>>) + Len(pending[i].tokens) <= NCtx
    BY <1>1 DEF Prefillable, Fits
  <2>6. Len(pending[i].tokens) <= NCtx
    BY <2>1, <2>5, EmptySeq, LenProperties
  <2> QED
    BY <2>1, <2>4, <2>6 DEF Contexts
<1>4. M \in Seq(EntryType) /\ Len(M) = Len(pending) /\ \A i \in 1..Len(pending) : M[i] = entry(i)
  <2>1. \A i \in 1..Len(pending) : entry(i) \in EntryType
    BY <1>3
  <2> HIDE DEF entry
  <2>2. M \in Seq(EntryType)
    BY <1>2, <2>1, IsASeq
  <2> QED
    BY <1>2, <2>2, LenProperties
<1>5. S \in Seq(Contexts) /\ Len(S) = Len(pending) /\ \A i \in 1..Len(pending) : S[i] = pending[i].tokens
  <2> DEFINE e(i) == pending[i].tokens
  <2>0. \A i \in 1..Len(pending) : e(i) \in Contexts
    BY <1>3
  <2> HIDE DEF e
  <2>1. [i \in 1..Len(pending) |-> e(i)] \in Seq(Contexts)
    BY <1>2, <2>0, IsASeq
  <2> USE DEF e
  <2> QED
    BY <1>2, <2>1, LenProperties
<1> HIDE DEF M, S
<1>6. /\ meta \in Seq(EntryType) /\ states \in Seq(Contexts) /\ Len(states) = Len(meta)
      /\ Len(meta) \in Nat
  BY SlotFacts DEF SchedInv, TypeOK
<1>7. /\ meta' \in Seq(EntryType) /\ Len(meta') = Len(meta) + Len(pending)
      /\ \A i \in 1..(Len(meta) + Len(pending)) :
           meta'[i] = IF i <= Len(meta) THEN meta[i] ELSE M[i - Len(meta)]
  <2>1. /\ meta \o M \in Seq(EntryType) /\ Len(meta \o M) = Len(meta) + Len(M)
        /\ \A i \in 1..(Len(meta) + Len(M)) :
             (meta \o M)[i] = IF i <= Len(meta) THEN meta[i] ELSE M[i - Len(meta)]
    <3>1. meta \in Seq(EntryType) /\ M \in Seq(EntryType)
      BY <1>4, <1>6
    <3> QED
      BY <3>1, ConcatProperties, Zenon
  <2> QED
    BY <1>1, <1>4, <1>6, <2>1
<1>8. /\ states' \in Seq(Contexts) /\ Len(states') = Len(meta) + Len(pending)
      /\ \A i \in 1..(Len(meta) + Len(pending)) :
           states'[i] = IF i <= Len(meta) THEN states[i] ELSE S[i - Len(meta)]
  <2>1. /\ states \o S \in Seq(Contexts) /\ Len(states \o S) = Len(states) + Len(S)
        /\ \A i \in 1..(Len(states) + Len(S)) :
             (states \o S)[i] = IF i <= Len(states) THEN states[i] ELSE S[i - Len(states)]
    <3>1. states \in Seq(Contexts) /\ S \in Seq(Contexts)
      BY <1>5, <1>6
    <3> QED
      BY <3>1, ConcatProperties, Zenon
  <2> QED
    BY <1>1, <1>5, <1>6, <2>1
<1>9. ASSUME NEW s \in Slots PROVE meta'[s] = meta[s] /\ states'[s] = states[s]
  <2>1. s \in 1..(Len(meta) + Len(pending)) /\ s <= Len(meta)
    BY <1>2, <1>6 DEF Slots
  <2> QED
    BY <1>7, <1>8, <2>1
<1>10. ASSUME NEW i \in 1..Len(pending)
       PROVE  meta'[Len(meta) + i] = entry(i) /\ states'[Len(meta) + i] = pending[i].tokens
  <2>1. /\ Len(meta) + i \in 1..(Len(meta) + Len(pending)) /\ ~(Len(meta) + i <= Len(meta))
        /\ Len(meta) + i - Len(meta) = i
    BY <1>2, <1>6
  <2>2. meta'[Len(meta) + i] = M[i] /\ states'[Len(meta) + i] = S[i]
    BY <1>7, <1>8, <2>1
  <2> QED
    BY <1>4, <1>5, <2>2
<1> QED
  BY <1>3, <1>7, <1>8, <1>9, <1>10
LEMMA BeginStepInv ==
  ASSUME SchedInv, BeginStep
  PROVE  SchedInv'
<1> DEFINE n == Len(submitted)
           m == Len(meta)
           q == Len(pending)
<1>1. /\ pc = "idle" /\ pending' = <<>>
      /\ UNCHANGED <<log, submitted, torn>>
      /\ meta' # <<>> =>
           /\ pc' = "decode" /\ failed' = FALSE
           /\ joined' = [i \in 1..q |-> pending[i].id]
           /\ todo' = 1..Len(meta')
           /\ next_tokens' = [s \in 1..Len(meta') |-> <<>>]
      /\ meta' = <<>> => UNCHANGED <<pc, joined, todo, next_tokens, failed>>
  BY DEF BeginStep, tick, history
<1>2. /\ meta' \in Seq(EntryType) /\ Len(meta') = m + q
      /\ states' \in Seq(Contexts) /\ Len(states') = Len(meta')
      /\ \A s \in Slots : meta'[s] = meta[s] /\ states'[s] = states[s]
      /\ \A i \in 1..q :
           /\ meta'[m + i] =
                [id |-> pending[i].id, last_token |-> LastOf(pending[i].tokens),
                 generated |-> <<>>, max_new |-> pending[i].max_new]
           /\ states'[m + i] = pending[i].tokens
           /\ Len(pending[i].tokens) <= NCtx
  BY Begun
<1>3. m \in Nat /\ q \in Nat /\ n \in Nat /\ Slots = 1..m
  BY SlotFacts, QueueFacts DEF Slots
<1>4. CASE meta' = <<>>
  <2>1. m + q = 0
    BY <1>2, <1>4, EmptySeq
  <2>2. m = 0 /\ q = 0
    BY <1>3, <2>1
  <2>3. meta = <<>> /\ pending = <<>> /\ states = <<>> /\ states' = <<>>
    <3>1. meta \in Seq(EntryType) /\ states \in Seq(Contexts) /\ Len(states) = m
      BY DEF SchedInv, TypeOK
    <3>2. pending \in Seq([id : 1..MaxSubmit, tokens : Contexts, max_new : Nat])
      BY DEF SchedInv, TypeOK
    <3> QED
      BY <1>2, <2>1, <2>2, <3>1, <3>2, EmptySeq
  <2>4. UNCHANGED vars
    BY <1>1, <1>4, <2>3 DEF vars, fields, tick, history
  <2> QED
    BY <2>4, SchedStutter
<1>5. CASE meta' # <<>>
  <2>1. /\ pc' = "decode" /\ failed' = FALSE
        /\ joined' = [i \in 1..q |-> pending[i].id]
        /\ todo' = Slots' /\ next_tokens' = [s \in Slots' |-> <<>>]
        /\ Slots' = 1..(m + q)
    BY <1>1, <1>2, <1>5 DEF Slots
  <2>2. /\ Slots \subseteq Slots'
        /\ \A i \in 1..q : m + i \in Slots'
        /\ \A s \in Slots' : s \in Slots \/ s - m \in 1..q
        /\ \A s \in Slots' : s = m + (s - m)
    BY <1>3, <2>1
  <2>3. ASSUME NEW s \in Slots', s \notin Slots
        PROVE  \E i \in 1..q : s = m + i
    BY <2>2, <2>3
  <2>4. ASSUME NEW i \in 1..q
        PROVE  /\ meta'[m + i].id = pending[i].id
               /\ meta'[m + i].last_token = LastOf(pending[i].tokens)
               /\ meta'[m + i].generated = <<>>
               /\ meta'[m + i].max_new = pending[i].max_new
               /\ states'[m + i] = pending[i].tokens
    <3> DEFINE e == [id |-> pending[i].id, last_token |-> LastOf(pending[i].tokens),
                     generated |-> <<>>, max_new |-> pending[i].max_new]
    <3>1. meta'[m + i] = e /\ states'[m + i] = pending[i].tokens
      BY <1>2
    <3>2. /\ e.id = pending[i].id /\ e.last_token = LastOf(pending[i].tokens)
          /\ e.generated = <<>> /\ e.max_new = pending[i].max_new
      OBVIOUS
    <3> HIDE DEF e
    <3> QED
      BY <3>1, <3>2
  <2>5. TypeOK'
    <3>1. failed' \in BOOLEAN
      BY <2>1, Zenon
    <3>2. joined' \in Seq(1..MaxSubmit)
      <4> DEFINE e(i) == pending[i].id
      <4>1. \A i \in 1..q : e(i) \in 1..MaxSubmit
        BY QueueFacts
      <4> HIDE DEF e
      <4>2. [i \in 1..q |-> e(i)] \in Seq(1..MaxSubmit)
        BY <1>3, <4>1, IsASeq
      <4> USE DEF e
      <4> QED
        BY <2>1, <4>2
    <3>3. ASSUME NEW s \in Slots' PROVE Len(states'[s]) <= NCtx
      <4>1. CASE s \in Slots
        BY <1>2, <4>1, SlotFacts
      <4>2. CASE s \notin Slots
        BY <1>2, <2>3, <4>2
      <4> QED
        BY <4>1, <4>2
    <3>4. next_tokens' \in [Slots' -> {<<>>} \cup [1..1 -> Token]]
      BY <2>1
    <3>5. pending' \in Seq([id : 1..MaxSubmit, tokens : Contexts, max_new : Nat])
      BY <1>1, EmptySeq
    <3>6. /\ log' \in Seq([joined : Seq(1..MaxSubmit),
                           reports : Seq([id : 1..MaxSubmit, token : Token,
                                          output : Contexts \cup {NoAnswer}])])
          /\ submitted' \in Seq(Request) /\ Len(submitted') <= MaxSubmit
          /\ torn' \subseteq 1..MaxSubmit
      BY <1>1 DEF SchedInv, TypeOK
    <3>7. pc' \in {"idle", "decode"} /\ pc' # "idle" /\ todo' \subseteq Slots'
      BY <2>1
    <3> QED
      BY <1>2, <3>1, <3>2, <3>3, <3>4, <3>5, <3>6, <3>7 DEF TypeOK
  <2>6. Len(pending') = 0 /\ 1..0 = {}
    BY <1>1
  <2>7. Ids'
    <3>1. ASSUME NEW s \in Slots'
          PROVE  /\ meta'[s].id \in 1..n
                 /\ meta'[s].max_new = submitted[meta'[s].id].max_new
      <4>1. CASE s \in Slots
        BY <1>2, <4>1 DEF SchedInv, Ids
      <4>2. CASE s \notin Slots
        BY <2>3, <2>4, <4>2, QueueFacts
      <4> QED
        BY <4>1, <4>2
    <3> QED
      BY <1>1, <2>6, <3>1 DEF Ids
  <2>8. Ordered'
    <3>1. ASSUME NEW s \in Slots', NEW t \in Slots', s < t
          PROVE  meta'[s].id < meta'[t].id
      <4>1. CASE t \in Slots
        <5>1. s \in Slots
          BY <1>3, <2>1, <3>1, <4>1
        <5> QED
          BY <1>2, <3>1, <4>1, <5>1 DEF SchedInv, Ordered
      <4>2. CASE t \notin Slots
        <5>1. PICK k \in 1..q : t = m + k
          BY <2>3, <4>2
        <5>2. CASE s \in Slots
          <6>1. meta[s].id < pending[k].id
            BY <5>2 DEF SchedInv, Ordered
          <6> QED
            BY <1>2, <2>4, <5>1, <5>2, <6>1
        <5>3. CASE s \notin Slots
          <6>1. PICK i \in 1..q : s = m + i
            BY <2>3, <5>3
          <6>2. i < k
            BY <1>3, <3>1, <5>1, <6>1
          <6>3. pending[i].id < pending[k].id
            BY <6>2 DEF SchedInv, Ordered
          <6> QED
            BY <2>4, <5>1, <6>1, <6>3
        <5> QED
          BY <5>2, <5>3
      <4> QED
        BY <4>1, <4>2
    <3> QED
      BY <2>6, <3>1 DEF Ordered
  <2>9. Working'
    <3>1. Slots' \ todo' = {} /\ ~failed' /\ \A s \in todo' : next_tokens'[s] = <<>>
      BY <2>1
    <3> QED
      BY <3>1, Zenon DEF Working
  <2>10. ASSUME NEW s \in Slots
         PROVE  Fed(s)' = Fed(s)
    BY <1>1, <1>2 DEF Fed, C!Seed
  <2>11. ASSUME NEW i \in 1..q, NEW s, s = m + i
         PROVE  /\ Fed(s)' = Append(pending[i].tokens, LastOf(pending[i].tokens))
                /\ pending[i].tokens \in Seq(Token) /\ LastOf(pending[i].tokens) \in Token
    <3> DEFINE r == submitted[pending[i].id]
               c == C!Seed(r)
    <3>1. r \in Request /\ r.tokens = pending[i].tokens
      BY QueueFacts
    <3>2. c = Append(pending[i].tokens, LastOf(pending[i].tokens)) /\ c \in Seq(Token)
      BY <3>1, RequestFacts
    <3>3. Fed(s)' = c \o <<>>
      BY <1>1, <2>4, <2>11 DEF Fed, C!Seed
    <3>4. pending[i].tokens \in Seq(Token) /\ LastOf(pending[i].tokens) \in Token
      BY <3>1, RequestFacts
    <3> HIDE DEF c
    <3>5. c \o <<>> = c
      BY <3>2, ConcatEmptySeq
    <3> QED
      BY <3>2, <3>3, <3>4, <3>5
  <2>12. Paired'
    <3>1. ASSUME NEW s \in Slots'
          PROVE  /\ meta'[s].last_token = LastOf(Fed(s)')
                 /\ meta'[s].id \notin torn =>
                      states'[s] = SubSeq(Fed(s)', 1, Len(Fed(s)') - 1)
      <4>1. CASE s \in Slots
        BY <1>1, <1>2, <2>10, <4>1 DEF SchedInv, Paired
      <4>2. CASE s \notin Slots
        <5>1. PICK i \in 1..q : s = m + i
          BY <2>3, <4>2
        <5>2. /\ Fed(s)' = Append(pending[i].tokens, LastOf(pending[i].tokens))
              /\ pending[i].tokens \in Seq(Token) /\ LastOf(pending[i].tokens) \in Token
          BY <2>11, <5>1
        <5>3. /\ LastOf(Fed(s)') = LastOf(pending[i].tokens)
              /\ SubSeq(Fed(s)', 1, Len(Fed(s)') - 1) = pending[i].tokens
          BY <5>2, AppendLast DEF LastOf
        <5> QED
          BY <2>4, <5>1, <5>3
      <4> QED
        BY <4>1, <4>2
    <3>2. \A s \in Slots' : next_tokens'[s] = <<>>
      BY <2>1
    <3> QED
      BY <1>1, <3>1, <3>2 DEF Paired
  <2>13. TornSilent'
    <3>1. ASSUME NEW s \in Slots, Exhausted(s) PROVE Exhausted(s)'
      <4>1. ~Fits(states[s], 1) /\ states'[s] = states[s] /\ s \in Slots'
        BY <1>2, <2>2, <3>1 DEF Exhausted
      <4> QED
        BY <2>1, <4>1 DEF Exhausted, Fits
    <3>2. SUFFICES ASSUME torn # {} PROVE \E s \in Slots' : Exhausted(s)'
      BY <1>1 DEF TornSilent
    <3>3. PICK s \in Slots : Exhausted(s)
      BY <3>2 DEF SchedInv, TornSilent
    <3> QED
      BY <2>2, <3>1, <3>3
  <2>14. Reported'
    <3>1. ASSUME NEW id
          PROVE  InPool(id)' <=> InPool(id) \/ Queued(id)
      <4>1. ASSUME InPool(id) PROVE InPool(id)'
        BY <1>2, <2>2, <4>1 DEF InPool
      <4>2. ASSUME Queued(id) PROVE InPool(id)'
        BY <2>2, <2>4, <4>2 DEF InPool, Queued
      <4>3. ASSUME InPool(id)' PROVE InPool(id) \/ Queued(id)
        <5>1. PICK s \in Slots' : meta'[s].id = id
          BY <4>3 DEF InPool
        <5> QED
          BY <1>2, <2>3, <2>4, <5>1 DEF InPool, Queued
      <4> QED
        BY <4>1, <4>2, <4>3
    <3>2. \A id : ~Queued(id)'
      BY <2>6 DEF Queued
    <3> QED
      BY <1>1, <3>1, <3>2, LogKept DEF SchedInv, Reported
  <2>15. Running'
    <3>1. ASSUME NEW s \in Slots'
          PROVE  /\ C!Sequential(submitted[meta'[s].id], meta'[s].generated)
                 /\ \A i \in 1..Len(meta'[s].generated) :
                      i < meta'[s].max_new /\ meta'[s].generated[i] # Eos
      <4>1. CASE s \in Slots
        BY <1>2, <4>1 DEF SchedInv, Running
      <4>2. CASE s \notin Slots
        <5>1. Len(meta'[s].generated) = 0 /\ 1..0 = {}
          BY <2>3, <2>4, <4>2
        <5> QED
          BY <5>1 DEF C!Sequential
      <4> QED
        BY <4>1, <4>2
    <3> QED
      BY <1>1, <3>1 DEF Running, C!Sequential, C!Seed
  <2> QED
    BY <2>5, <2>7, <2>8, <2>9, <2>12, <2>13, <2>14, <2>15 DEF SchedInv
<1> QED
  BY <1>4, <1>5
-----------------------------------------------------------------------------
(* The workers of a tick.                                                  *)

\* They leave the pool, the queue and the log alone.
LEMMA WorkerFrame ==
  ASSUME SchedInv, UNCHANGED <<pending, meta, pc, joined, log, submitted, torn>>
  PROVE  /\ Slots' = Slots /\ \A s : Fed(s)' = Fed(s)
         /\ Ids' /\ Ordered' /\ Reported' /\ Running'
<1>1. Slots' = Slots /\ UNCHANGED <<pending, meta, log, submitted>>
  BY DEF Slots
<1>2. \A s : Fed(s)' = Fed(s)
  BY <1>1 DEF Fed, C!Seed
<1>3. Ids' /\ Ordered'
  BY <1>1 DEF SchedInv, Ids, Ordered
<1>4. Running'
  BY <1>1 DEF SchedInv, Running, C!Sequential, C!Seed
<1>5. Reported'
  BY <1>1, LogKept DEF SchedInv, Reported, InPool, Queued
<1> QED
  BY <1>1, <1>2, <1>3, <1>4, <1>5

\* A worker that does not decode, behind its own error or one before.
LEMMA WorkerFails ==
  ASSUME SchedInv, pc = "decode", NEW s \in todo, todo' = todo \ {s}, failed' = TRUE,
         UNCHANGED <<pending, meta, states, pc, joined, next_tokens, log, submitted, torn>>,
         failed \/ ~Fits(states[s], 1)
  PROVE  SchedInv'
<1>1. /\ Slots' = Slots /\ \A x : Fed(x)' = Fed(x)
      /\ Ids' /\ Ordered' /\ Reported' /\ Running'
  BY WorkerFrame
<1>2. s \in Slots /\ todo' \subseteq Slots
  BY DEF SchedInv, TypeOK
<1>3. TypeOK'
  <2>1. failed' \in BOOLEAN
    BY Zenon
  <2> QED
    BY <1>1, <1>2, <2>1 DEF SchedInv, TypeOK
<1>4. Working'
  <2>1. \E x \in Slots : ~Fits(states[x], 1) /\ next_tokens[x] = <<>>
    <3>1. CASE failed
      BY <3>1 DEF SchedInv, Working
    <3>2. CASE ~Fits(states[s], 1)
      BY <1>2, <3>2 DEF SchedInv, Working
    <3> QED
      BY <3>1, <3>2
  <2>2. \A x \in todo' : next_tokens[x] = <<>>
    BY DEF SchedInv, Working
  <2>3. failed'
    BY Zenon
  <2> QED
    BY <1>1, <2>1, <2>2, <2>3 DEF Working, Fits
<1>5. Paired'
  BY <1>1 DEF SchedInv, Paired
<1>6. TornSilent'
  <2>1. failed'
    BY Zenon
  <2> QED
    BY <1>1, <2>1 DEF SchedInv, TornSilent, Exhausted, Fits
<1> QED
  BY <1>1, <1>3, <1>4, <1>5, <1>6 DEF SchedInv

\* A state takes its token.
LEMMA Fed1 ==
  ASSUME SchedInv, NEW s \in Slots, Fits(states[s], 1)
  PROVE  /\ Append(states[s], Feed(s)) \in Seq(Token)
         /\ Len(Append(states[s], Feed(s))) <= NCtx
         /\ Greedy(Append(states[s], Feed(s))) \in Token
<1> DEFINE c == Append(states[s], Feed(s))
<1>1. states[s] \in Seq(Token) /\ Feed(s) \in Token
  BY SlotFacts DEF Feed
<1>2. c \in Seq(Token) /\ Len(c) = Len(states[s]) + 1 /\ Len(states[s]) \in Nat
  BY <1>1, AppendProperties, LenProperties
<1>3. Len(c) <= NCtx
  BY <1>2 DEF Fits
<1> HIDE DEF c
<1>4. Len(c) \in 0..NCtx /\ c \in [1..Len(c) -> Token]
  BY <1>2, <1>3, NCtxAssumption, LenProperties
<1>5. Greedy(c) \in Token
  BY <1>4, GreedyAssumption
<1> QED
  BY <1>2, <1>3, <1>5 DEF c

LEMMA DecodeInv ==
  ASSUME SchedInv, NEW s \in todo, Decode(s)
  PROVE  SchedInv'
<1>1. /\ pc = "decode" /\ todo' = todo \ {s}
      /\ UNCHANGED <<pending, meta, pc, joined, log, submitted, torn>>
  BY DEF Decode, history
<1>2. s \in Slots
  BY DEF SchedInv, TypeOK
<1>3. CASE ~Fits(states[s], 1)
  <2>1. failed' = TRUE /\ UNCHANGED <<states, next_tokens>>
    BY <1>3 DEF Decode
  <2> QED
    BY <1>1, <1>3, <2>1, WorkerFails
<1>4. CASE Fits(states[s], 1)
  <2> DEFINE c == Append(states[s], Feed(s))
  <2>1. /\ states' = [states EXCEPT ![s] = c] /\ UNCHANGED failed
        /\ next_tokens' = [next_tokens EXCEPT ![s] = <<Greedy(states'[s])>>]
    BY <1>4 DEF Decode
  <2>2. c \in Seq(Token) /\ Len(c) <= NCtx /\ Greedy(c) \in Token
    BY <1>2, <1>4, Fed1
  <2>3. /\ states \in Seq(Contexts) /\ Len(states) = Len(meta) /\ s \in 1..Len(states)
        /\ next_tokens \in [Slots -> {<<>>} \cup [1..1 -> Token]]
        /\ todo \subseteq Slots
    BY <1>1, <1>2 DEF SchedInv, TypeOK, Slots
  <2>4. next_tokens[s] = <<>>
    BY <1>1 DEF SchedInv, Working
  <2>5. /\ Slots' = Slots /\ \A x : Fed(x)' = Fed(x)
        /\ Ids' /\ Ordered' /\ Reported' /\ Running'
    BY <1>1, WorkerFrame
  <2>6. /\ Fed(s) \in Seq(Token) /\ Len(Fed(s)) > 0
        /\ meta[s].last_token = LastOf(Fed(s))
        /\ meta[s].id \notin torn => states[s] = SubSeq(Fed(s), 1, Len(Fed(s)) - 1)
    BY <1>1, <1>2, <2>4, FedFacts DEF SchedInv, Paired
  <2>7. meta[s].id \notin torn => c = Fed(s)
    BY <2>6, LastBehind DEF Feed, LastOf
  <2> HIDE DEF c
  <2>8. /\ states' \in Seq(Contexts) /\ Len(states') = Len(meta)
        /\ states'[s] = c /\ \A x \in Slots : x # s => states'[x] = states[x]
    BY <2>1, <2>2, <2>3, ExceptSeq DEF Contexts, Slots
  <2>9. /\ next_tokens' \in [Slots -> {<<>>} \cup [1..1 -> Token]]
        /\ next_tokens'[s] = <<Greedy(c)>> /\ next_tokens'[s] # <<>>
        /\ \A x \in Slots : x # s => next_tokens'[x] = next_tokens[x]
    BY <1>2, <2>1, <2>2, <2>3, <2>8
  <2>10. TypeOK'
    <3>1. failed' \in BOOLEAN
      BY <2>1, Zenon DEF SchedInv, TypeOK
    <3>2. \A x \in Slots : Len(states'[x]) <= NCtx
      BY <2>2, <2>8, SlotFacts
    <3>3. todo' \subseteq Slots
      BY <1>1, <2>3
    <3> QED
      BY <1>1, <2>5, <2>8, <2>9, <3>1, <3>2, <3>3 DEF SchedInv, TypeOK
  <2>11. Working'
    <3>1. ASSUME failed
          PROVE  \E x \in Slots : ~Fits(states'[x], 1) /\ next_tokens'[x] = <<>>
      <4>1. PICK x \in Slots : ~Fits(states[x], 1) /\ next_tokens[x] = <<>>
        BY <1>1, <3>1 DEF SchedInv, Working
      <4>2. x # s
        BY <1>4, <4>1
      <4> QED
        BY <2>8, <2>9, <4>1, <4>2
    <3>2. \A x \in todo' : next_tokens'[x] = <<>>
      BY <1>1, <2>3, <2>9 DEF SchedInv, Working
    <3>3. \A x \in Slots \ todo' : next_tokens'[x] # <<>> \/ failed
      BY <1>1, <2>3, <2>9 DEF SchedInv, Working
    <3> QED
      BY <1>1, <2>1, <2>5, <3>1, <3>2, <3>3, Zenon DEF Working, Fits
  <2>12. Paired'
    <3>1. ASSUME NEW x \in Slots
          PROVE  /\ meta[x].last_token = LastOf(Fed(x))
                 /\ meta[x].id \notin torn =>
                      /\ states'[x] = IF next_tokens'[x] # <<>> THEN Fed(x)
                                      ELSE SubSeq(Fed(x), 1, Len(Fed(x)) - 1)
                      /\ next_tokens'[x] # <<>> => next_tokens'[x] = <<Greedy(states'[x])>>
      <4>1. CASE x = s
        BY <2>6, <2>7, <2>8, <2>9, <4>1
      <4>2. CASE x # s
        BY <1>1, <2>8, <2>9, <4>2 DEF SchedInv, Paired
      <4> QED
        BY <4>1, <4>2
    <3> QED
      BY <1>1, <2>5, <3>1 DEF Paired
  <2>13. TornSilent'
    <3>1. ASSUME NEW x \in Slots, Exhausted(x) PROVE Exhausted(x)'
      <4>1. x # s /\ ~Fits(states[x], 1)
        BY <1>4, <3>1 DEF Exhausted
      <4>2. states'[x] = states[x] /\ next_tokens'[x] = next_tokens[x] /\ (x \in todo => x \in todo')
        BY <1>1, <2>8, <2>9, <4>1
      <4>3. next_tokens[x] = <<>> /\ (x \in todo \/ failed)
        BY <1>1, <3>1 DEF Exhausted
      <4>4. ~Fits(states'[x], 1) /\ next_tokens'[x] = <<>> /\ (x \in todo' \/ failed')
        BY <2>1, <4>1, <4>2, <4>3, Zenon
      <4> QED
        BY <4>4 DEF Exhausted, Fits
    <3> QED
      BY <1>1, <2>5, <3>1 DEF SchedInv, TornSilent
  <2> QED
    BY <2>5, <2>10, <2>11, <2>12, <2>13 DEF SchedInv
<1> QED
  BY <1>3, <1>4

LEMMA SkipInv ==
  ASSUME SchedInv, NEW s \in todo, Skip(s)
  PROVE  SchedInv'
<1>1. /\ pc = "decode" /\ todo' = todo \ {s}
      /\ UNCHANGED <<pending, meta, states, pc, joined, next_tokens, log, submitted, torn>>
  BY DEF Skip, fields, history
<1>2. failed /\ failed' = failed /\ failed \in BOOLEAN
  BY Zenon DEF Skip, SchedInv, TypeOK
<1>3. failed' = TRUE
  BY <1>2, Zenon
<1> QED
  BY <1>1, <1>2, <1>3, WorkerFails
-----------------------------------------------------------------------------
(* A tick ends with an error.                                              *)

LEMMA AbortInv ==
  ASSUME SchedInv, Abort
  PROVE  SchedInv'
<1>1. /\ pc = "decode" /\ todo = {}
      /\ torn' = torn \cup {meta[s].id : s \in {x \in Slots : next_tokens[x] # <<>>}}
      /\ pc' = "idle" /\ joined' = <<>> /\ next_tokens' = <<>> /\ failed' = FALSE
      /\ UNCHANGED <<pending, meta, states, todo, log, submitted>>
  BY DEF Abort, EndTick
<1>2. failed
  BY Zenon DEF Abort
<1>3. Slots' = Slots /\ \A x : Fed(x)' = Fed(x)
  BY <1>1 DEF Slots, Fed, C!Seed
<1>4. TypeOK'
  <2>1. failed' \in BOOLEAN /\ ~failed'
    BY <1>1, Zenon
  <2>2. torn' \subseteq 1..MaxSubmit
    <3>1. \A s \in Slots : meta[s].id \in 1..MaxSubmit
      BY SlotFacts DEF EntryType
    <3> QED
      BY <1>1, <3>1 DEF SchedInv, TypeOK
  <2>3. joined' \in Seq(1..MaxSubmit)
    BY <1>1, EmptySeq
  <2> QED
    BY <1>1, <1>3, <2>1, <2>2, <2>3 DEF SchedInv, TypeOK
<1>5. Ids' /\ Ordered'
  BY <1>1, <1>3 DEF SchedInv, Ids, Ordered
<1>6. Working'
  BY <1>1 DEF Working
<1>7. Paired'
  <2>1. ASSUME NEW s \in Slots
        PROVE  /\ meta[s].last_token = LastOf(Fed(s))
               /\ meta[s].id \notin torn' => states[s] = SubSeq(Fed(s), 1, Len(Fed(s)) - 1)
    BY <1>1 DEF SchedInv, Paired
  <2> QED
    BY <1>1, <1>3, <2>1 DEF Paired
<1>8. TornSilent'
  <2>1. \E s \in Slots : ~Fits(states[s], 1)
    BY <1>1, <1>2 DEF SchedInv, Working
  <2> QED
    BY <1>1, <1>3, <2>1 DEF TornSilent, Exhausted, Fits
<1>9. Reported' /\ Running'
  BY <1>1, <1>3, LogKept DEF SchedInv, Reported, InPool, Queued, Running, C!Sequential, C!Seed
<1> QED
  BY <1>4, <1>5, <1>6, <1>7, <1>8, <1>9 DEF SchedInv

-----------------------------------------------------------------------------
(* A tick ends well.                                                       *)

\* Then nothing was ever torn, and every slot has the model's choice.
LEMMA AllDone ==
  ASSUME SchedInv, Retire
  PROVE  /\ torn = {}
         /\ \A s \in Slots : /\ next_tokens[s] = <<Greedy(Fed(s))>> /\ Greedy(Fed(s)) \in Token
                             /\ states[s] = Fed(s)
<1>1. pc = "decode" /\ todo = {}
  BY DEF Retire
<1>2. ~failed
  BY Zenon DEF Retire
<1>3. \A s \in Slots : next_tokens[s] # <<>>
  BY <1>1, <1>2 DEF SchedInv, Working
<1>4. torn = {}
  BY <1>1, <1>3 DEF SchedInv, TornSilent, Exhausted
<1>5. \A s \in Slots : states[s] = Fed(s) /\ next_tokens[s] = <<Greedy(states[s])>>
  BY <1>1, <1>3, <1>4 DEF SchedInv, Paired
<1>6. ASSUME NEW s \in Slots PROVE Greedy(Fed(s)) \in Token
  <2>1. /\ next_tokens[s] \in {<<>>} \cup [1..1 -> Token] /\ next_tokens[s] # <<>>
        /\ next_tokens[s] = <<Greedy(Fed(s))>>
    BY <1>1, <1>3, <1>5 DEF SchedInv, TypeOK
  <2>2. next_tokens[s] \in [1..1 -> Token] /\ next_tokens[s][1] = Greedy(Fed(s))
    BY <2>1
  <2> QED
    BY <2>2
<1> QED
  BY <1>4, <1>5, <1>6

\* A slot after its token.
LEMMA Advancing ==
  ASSUME SchedInv, Retire, NEW s \in Slots, NEW g, g = Greedy(Fed(s)), NEW a, a = Advanced(s)
  PROVE  /\ a \in EntryType /\ g \in Token
         /\ a.id = meta[s].id /\ a.max_new = meta[s].max_new /\ a.last_token = g
         /\ a.generated = Append(meta[s].generated, g)
         /\ a.generated \in Seq(Token)
         /\ Len(a.generated) = Len(meta[s].generated) + 1 /\ Len(meta[s].generated) \in Nat
<1> DEFINE old == meta[s].generated
<1>1. next_tokens[s] = <<g>> /\ g \in Token
  BY AllDone
<1>2. meta[s] \in EntryType /\ old \in Seq(Token) /\ submitted[meta[s].id] \in Request
  BY SlotFacts
<1>3. a = [meta[s] EXCEPT !.generated = old \o <<g>>, !.last_token = g]
  BY <1>1 DEF Advanced
<1> HIDE DEF old
<1>4. /\ old \o <<g>> = Append(old, g) /\ Append(old, g) \in Seq(Token)
      /\ Len(Append(old, g)) = Len(old) + 1 /\ Len(old) \in Nat
  BY <1>1, <1>2, AppendIsConcat, AppendProperties, LenProperties
<1>5. /\ a \in EntryType /\ a.id = meta[s].id /\ a.max_new = meta[s].max_new
      /\ a.last_token = g /\ a.generated = Append(old, g)
  BY <1>1, <1>2, <1>3, <1>4 DEF EntryType, Contexts
<1> QED
  BY <1>1, <1>4, <1>5 DEF old

\* What it has fed by then, and its state has consumed all but the token.
LEMMA AdvancedFed ==
  ASSUME SchedInv, Retire, NEW s \in Slots, NEW new, new = Advanced(s).generated,
         NEW f, f = C!Seed(submitted[meta[s].id]) \o new
  PROVE  LastOf(f) = Advanced(s).last_token /\ SubSeq(f, 1, Len(f) - 1) = Fed(s)
<1> DEFINE old == meta[s].generated
           c == C!Seed(submitted[meta[s].id])
<1>1. PICK g : g = Greedy(Fed(s))
  OBVIOUS
<1>2. next_tokens[s] = <<g>> /\ g \in Token /\ meta[s] \in EntryType
  BY <1>1, AllDone, SlotFacts
<1>3. new = old \o <<g>> /\ Advanced(s).last_token = g
  BY <1>2 DEF Advanced, EntryType
<1>4. old \in Seq(Token) /\ submitted[meta[s].id] \in Request
  BY SlotFacts
<1>5. c \in Seq(Token) /\ Fed(s) \in Seq(Token) /\ Fed(s) = c \o old
  BY <1>4, RequestFacts, FedFacts
<1> HIDE DEF old, c
<1>6. new = Append(old, g)
  BY <1>2, <1>3, <1>4, AppendIsConcat
<1>7. c \o Append(old, g) = Append(c \o old, g)
  BY <1>2, <1>4, <1>5, JoinAppend
<1>8. f = Append(Fed(s), g)
  BY <1>5, <1>6, <1>7 DEF c
<1> QED
  <2>1. PICK F : F = Fed(s)
    OBVIOUS
  <2>2. F \in Seq(Token) /\ f = Append(F, g)
    BY <1>5, <1>8, <2>1
  <2>3. f[Len(f)] = g /\ SubSeq(f, 1, Len(f) - 1) = F
    BY <1>2, <2>2, AppendLast
  <2> QED
    BY <1>3, <2>1, <2>3 DEF LastOf

\* Its output so far is a greedy run, which has ended when the slot is done.
LEMMA AdvancedRun ==
  ASSUME SchedInv, Retire, NEW s \in Slots, NEW a, a = Advanced(s),
         NEW req, req = submitted[meta[s].id]
  PROVE  /\ C!Sequential(req, a.generated)
         /\ Done(a) => C!Ended(req, a.generated)
         /\ ~Done(a) => \A i \in 1..Len(a.generated) : i < a.max_new /\ a.generated[i] # Eos
<1> DEFINE old == meta[s].generated
           c == C!Seed(req)
<1>1. PICK g : g = Greedy(Fed(s))
  OBVIOUS
<1>2. /\ a.id = meta[s].id /\ a.max_new = meta[s].max_new /\ a.last_token = g
      /\ a.generated = Append(old, g) /\ g \in Token
      /\ Len(a.generated) = Len(old) + 1 /\ Len(old) \in Nat
  <2>1. /\ a.id = meta[s].id /\ a.max_new = meta[s].max_new /\ a.last_token = g
    BY <1>1, Advancing
  <2>2. g \in Token
    BY <1>1, AllDone
  <2>5. a.generated = Append(meta[s].generated, g)
    <3>1. next_tokens[s] = <<g>> /\ meta[s] \in EntryType
      BY <1>1, AllDone, SlotFacts
    <3>2. a.generated = meta[s].generated \o <<g>>
      BY <3>1 DEF Advanced, EntryType
    <3> QED
      BY <2>2, <3>2, SlotFacts, AppendIsConcat
  <2>3. Len(a.generated) = Len(meta[s].generated) + 1
    BY <1>1, Advancing
  <2>4. Len(meta[s].generated) \in Nat
    BY <1>1, Advancing
  <2> QED
    BY <2>1, <2>2, <2>3, <2>4, <2>5
<1>3. old \in Seq(Token) /\ Fed(s) = c \o old
  BY SlotFacts, FedFacts
<1>4. /\ \A i \in 1..Len(old) : i < a.max_new /\ old[i] # Eos
      /\ \A i \in 1..Len(old) : old[i] = Greedy(c \o SubSeq(old, 1, i - 1))
  BY <1>2 DEF SchedInv, Running, C!Sequential
<1>5. a.max_new \in Nat /\ a.max_new = req.max_new
  BY <1>2, SlotFacts DEF EntryType, SchedInv, Ids
<1> HIDE DEF old, c
<1>6. /\ \A i \in 1..Len(old) : Append(old, g)[i] = old[i]
      /\ Append(old, g)[Len(old) + 1] = g
  BY <1>2, <1>3, AppendProperties
<1>7. \A i \in 1..Len(a.generated) : i \in 1..Len(old) \/ i = Len(old) + 1
  BY <1>2
<1>8. ASSUME NEW i \in 1..Len(a.generated)
      PROVE  a.generated[i] = Greedy(c \o SubSeq(a.generated, 1, i - 1))
  <2>1. i - 1 \in 0..Len(old)
    BY <1>2
  <2>2. SubSeq(Append(old, g), 1, i - 1) = SubSeq(old, 1, i - 1)
    BY <1>2, <1>3, <2>1, FrontOfAppend
  <2>3. CASE i \in 1..Len(old)
    BY <1>2, <1>4, <1>6, <2>2, <2>3
  <2>4. CASE i = Len(old) + 1
    <3>1. i - 1 = Len(old)
      BY <1>2, <2>4
    <3>2. SubSeq(old, 1, i - 1) = old
      BY <1>3, <3>1, SubSeqFull
    <3> QED
      BY <1>1, <1>2, <1>3, <1>6, <2>2, <2>4, <3>2
  <2> QED
    BY <1>7, <2>3, <2>4
<1>9. Len(a.generated) > 0 /\ Len(a.generated) - 1 = Len(old) /\ a.generated[Len(a.generated)] = g
  BY <1>2, <1>6
<1>10. ASSUME Done(a) PROVE C!Ended(req, a.generated)
  <2>1. Len(a.generated) >= req.max_new \/ a.generated[Len(a.generated)] = Eos
    BY <1>2, <1>5, <1>9, <1>10 DEF Done
  <2>2. \A i \in 1..(Len(a.generated) - 1) : i < req.max_new /\ a.generated[i] # Eos
    BY <1>2, <1>4, <1>5, <1>6, <1>9
  <2> QED
    BY <1>9, <2>1, <2>2 DEF C!Ended
<1>11. ASSUME ~Done(a), NEW i \in 1..Len(a.generated)
       PROVE  i < a.max_new /\ a.generated[i] # Eos
  <2>1. Len(old) + 1 < a.max_new /\ g # Eos
    BY <1>2, <1>5, <1>11 DEF Done
  <2> QED
    BY <1>2, <1>4, <1>6, <1>7, <2>1
<1> QED
  BY <1>8, <1>10, <1>11 DEF C!Sequential, c
\* The listing of the slots that stay.
LEMMA Kept1 ==
  ASSUME SchedInv, NEW keep \in Compactions
  PROVE  /\ Len(keep) \in Nat /\ DOMAIN keep = 1..Len(keep)
         /\ \A j \in 1..Len(keep) : keep[j] \in Slots /\ keep[j] \in Kept
         /\ \A s \in Kept : \E j \in 1..Len(keep) : keep[j] = s
         /\ \A i, j \in 1..Len(keep) : i < j => keep[i] < keep[j]
<1>1. PICK n \in 0..Len(meta) : keep \in [1..n -> Slots]
  BY DEF Compactions
<1>2. n \in Nat /\ keep \in Seq(Slots)
  BY <1>1, SlotFacts
<1>3. Len(keep) = n /\ DOMAIN keep = 1..n
  BY <1>1, <1>2, LenProperties
<1>4. {keep[i] : i \in DOMAIN keep} = Kept /\ \A i, j \in DOMAIN keep : i < j => keep[i] < keep[j]
  BY DEF Compactions
<1> QED
  BY <1>1, <1>2, <1>3, <1>4

\* What a successful tick leaves of the pool.
LEMMA Retired ==
  ASSUME SchedInv, Retire
  PROVE  \E keep \in Compactions :
           /\ meta' \in Seq(EntryType) /\ Len(meta') = Len(keep)
           /\ states' \in Seq(Contexts) /\ Len(states') = Len(keep)
           /\ Slots' = 1..Len(keep)
           /\ \A j \in 1..Len(keep) :
                /\ meta'[j] = Advanced(keep[j]) /\ states'[j] = Fed(keep[j])
                /\ Len(states'[j]) <= NCtx
<1>1. PICK keep \in Compactions :
        /\ meta' = [k \in DOMAIN keep |-> Advanced(keep[k])]
        /\ states' = KeptStates(keep)
  BY DEF Retire
<1> DEFINE n == Len(keep)
<1>2. n \in Nat /\ DOMAIN keep = 1..n /\ \A j \in 1..n : keep[j] \in Slots
  BY Kept1
<1>3. ASSUME NEW j \in 1..n
      PROVE  /\ Advanced(keep[j]) \in EntryType
             /\ states[keep[j]] \in Contexts /\ Len(states[keep[j]]) <= NCtx
             /\ states[keep[j]] = Fed(keep[j])
  <2>1. keep[j] \in Slots
    BY <1>2
  <2>2. \A x \in Slots : Advanced(x) \in EntryType
    BY Advancing
  <2> QED
    BY <2>1, <2>2, AllDone, SlotFacts DEF Contexts
<1> HIDE DEF n
<1>4. meta' \in Seq(EntryType) /\ Len(meta') = n /\ \A j \in 1..n : meta'[j] = Advanced(keep[j])
  <2> DEFINE e(j) == Advanced(keep[j])
  <2>1. meta' = [j \in 1..n |-> e(j)] /\ \A j \in 1..n : e(j) \in EntryType
    BY <1>1, <1>2, <1>3
  <2> HIDE DEF e
  <2>2. [j \in 1..n |-> e(j)] \in Seq(EntryType)
    BY <1>2, <2>1, IsASeq
  <2>3. Len(meta') = n /\ meta' \in Seq(EntryType) /\ \A j \in 1..n : meta'[j] = e(j)
    BY <1>2, <2>1, <2>2, LenProperties
  <2> QED
    BY <2>3 DEF e
<1>5. states' \in Seq(Contexts) /\ Len(states') = n /\ \A j \in 1..n : states'[j] = states[keep[j]]
  <2> DEFINE e(j) == states[keep[j]]
  <2>1. states' = [j \in 1..n |-> e(j)] /\ \A j \in 1..n : e(j) \in Contexts
    BY <1>1, <1>2, <1>3 DEF KeptStates
  <2> HIDE DEF e
  <2>2. [j \in 1..n |-> e(j)] \in Seq(Contexts)
    BY <1>2, <2>1, IsASeq
  <2>3. Len(states') = n /\ states' \in Seq(Contexts) /\ \A j \in 1..n : states'[j] = e(j)
    BY <1>2, <2>1, <2>2, LenProperties
  <2> QED
    BY <2>3 DEF e
<1>6. Slots' = 1..n
  BY <1>4 DEF Slots
<1>7. \A j \in 1..n : states'[j] = Fed(keep[j]) /\ Len(states'[j]) <= NCtx
  BY <1>3, <1>5
<1> QED
  BY <1>4, <1>5, <1>6, <1>7 DEF n

\* What it adds to the log.
LEMMA RetiredLog ==
  ASSUME SchedInv, Retire
  PROVE  /\ log' \in Seq([joined : Seq(1..MaxSubmit),
                          reports : Seq([id : 1..MaxSubmit, token : Token,
                                         output : Contexts \cup {NoAnswer}])])
         /\ DOMAIN log' = DOMAIN log \cup {Len(log) + 1}
         /\ \A t \in DOMAIN log : log'[t] = log[t] /\ ReportsOf(t)' = ReportsOf(t)
         /\ \A t : t = Len(log) + 1 => /\ log'[t].joined = joined
                                       /\ ReportsOf(t)' = {Report(s) : s \in Slots}
<1> DEFINE R == [id : 1..MaxSubmit, token : Token, output : Contexts \cup {NoAnswer}]
           L == [joined : Seq(1..MaxSubmit), reports : Seq(R)]
           reps == [s \in Slots |-> Report(s)]
           entry == [joined |-> joined, reports |-> reps]
           n == Len(log)
<1>1. log' = Append(log, entry)
  BY DEF Retire
<1>2. log \in Seq(L) /\ joined \in Seq(1..MaxSubmit)
  BY DEF SchedInv, TypeOK
<1>3. ASSUME NEW s \in Slots PROVE Report(s) \in R
  <2>1. PICK a : a = Advanced(s)
    OBVIOUS
  <2>2. a \in EntryType
    BY <2>1, Advancing
  <2> QED
    BY <2>1, <2>2 DEF Report, EntryType
<1>4. reps \in Seq(R)
  <2>1. Slots = 1..Len(meta) /\ Len(meta) \in Nat
    BY SlotFacts DEF Slots
  <2> HIDE DEF R
  <2>2. [s \in 1..Len(meta) |-> Report(s)] \in Seq(R)
    BY <1>3, <2>1, IsASeq
  <2> QED
    BY <2>1, <2>2
<1>5. entry \in L /\ entry.reports = reps /\ entry.joined = joined
  BY <1>2, <1>4
<1> HIDE DEF entry, L, reps
<1>6. log' \in Seq(L) /\ Len(log') = n + 1 /\ n \in Nat
      /\ (\A t \in 1..n : log'[t] = log[t]) /\ log'[n + 1] = entry
  BY <1>1, <1>2, <1>5, AppendProperties, LenProperties
<1>7. DOMAIN log' = 1..(n + 1) /\ DOMAIN log = 1..n
  BY <1>2, <1>6, LenProperties
<1>8. DOMAIN log' = DOMAIN log \cup {n + 1}
  BY <1>6, <1>7
<1>9. ASSUME NEW t \in DOMAIN log PROVE ReportsOf(t)' = ReportsOf(t)
  BY <1>6, <1>7 DEF ReportsOf
<1>10. ASSUME NEW t, t = n + 1 PROVE ReportsOf(t)' = {Report(s) : s \in Slots}
  <2>1. log'[t].reports = reps
    BY <1>5, <1>6, <1>10
  <2>2. DOMAIN reps = Slots /\ \A s \in Slots : reps[s] = Report(s)
    BY DEF reps
  <2> QED
    BY <2>1, <2>2 DEF ReportsOf
<1> QED
  BY <1>5, <1>6, <1>7, <1>8, <1>9, <1>10 DEF L

\* The outputs it reports are those of the slots that are done.
LEMMA RetiredOutputs ==
  ASSUME SchedInv, Retire, NEW id, NEW out
  PROVE  out \in Outputs(id)' <=>
           \/ out \in Outputs(id)
           \/ \E s \in Slots : /\ meta[s].id = id /\ Done(Advanced(s))
                               /\ out = Advanced(s).generated
<1> DEFINE news == \E r \in {Report(s) : s \in Slots} :
                     r.id = id /\ r.output # NoAnswer /\ out = r.output
<1>1. /\ DOMAIN log' = DOMAIN log \cup {Len(log) + 1}
      /\ \A t \in DOMAIN log : ReportsOf(t)' = ReportsOf(t)
      /\ \A t : t = Len(log) + 1 => ReportsOf(t)' = {Report(s) : s \in Slots}
  BY RetiredLog
<1>2. out \in Outputs(id)' <=>
        \E t \in DOMAIN log' : \E r \in ReportsOf(t)' :
          r.id = id /\ r.output # NoAnswer /\ out = r.output
  BY DEF Outputs
<1>3. out \in Outputs(id)' <=> out \in Outputs(id) \/ news
  BY <1>1, <1>2, OutputsMember
<1>4. ASSUME NEW s \in Slots
      PROVE  /\ Report(s).id = meta[s].id
             /\ Report(s).output = IF Done(Advanced(s)) THEN Advanced(s).generated ELSE NoAnswer
             /\ Advanced(s).generated # NoAnswer
  <2>1. PICK a : a = Advanced(s)
    OBVIOUS
  <2>2. a.id = meta[s].id /\ a.generated \in Seq(Token)
    BY <2>1, Advancing
  <2>3. a.generated # NoAnswer
    BY <2>2, NoAnswerAssumption DEF Contexts
  <2>4. /\ Report(s).id = a.id
        /\ Report(s).output = IF Done(a) THEN a.generated ELSE NoAnswer
    BY <2>1 DEF Report
  <2> QED
    BY <2>1, <2>2, <2>3, <2>4
<1>5. news <=> \E s \in Slots : /\ meta[s].id = id /\ Done(Advanced(s))
                                /\ out = Advanced(s).generated
  BY <1>4
<1> QED
  BY <1>3, <1>5
\* An id is held in one slot, and not in the queue as well.
LEMMA HeldOnce ==
  ASSUME SchedInv, NEW s \in Slots
  PROVE  /\ \A x \in Slots : meta[x].id = meta[s].id => x = s
         /\ ~Queued(meta[s].id)
         /\ Outputs(meta[s].id) = {}
<1>1. Slots \subseteq Nat /\ meta[s].id \in 1..Len(submitted) /\ Len(submitted) \in Nat
  BY SlotFacts
<1>2. ASSUME NEW x \in Slots, meta[x].id = meta[s].id, x # s PROVE FALSE
  <2>1. x < s \/ s < x
    BY <1>1, <1>2
  <2>2. meta[x].id < meta[s].id \/ meta[s].id < meta[x].id
    BY <2>1 DEF SchedInv, Ordered
  <2> QED
    BY <1>1, <1>2, <2>2
<1>3. ASSUME NEW i \in 1..Len(pending), pending[i].id = meta[s].id PROVE FALSE
  <2>1. meta[s].id < pending[i].id
    BY DEF SchedInv, Ordered
  <2> QED
    BY <1>1, <1>3, <2>1
<1>4. Outputs(meta[s].id) = {}
  <2>1. meta[s].id \in DOMAIN submitted /\ InPool(meta[s].id)
    BY <1>1, SlotFacts DEF InPool
  <2> QED
    BY <2>1 DEF SchedInv, Reported
<1> QED
  BY <1>2, <1>3, <1>4 DEF Queued

LEMMA RetireInv ==
  ASSUME SchedInv, Retire
  PROVE  SchedInv'
<1>1. /\ pc' = "idle" /\ joined' = <<>> /\ next_tokens' = <<>> /\ failed' = FALSE
      /\ UNCHANGED <<pending, todo, submitted, torn>> /\ todo = {}
  BY DEF Retire, EndTick
<1>2. torn = {}
  BY AllDone
<1>3. PICK keep \in Compactions :
        /\ meta' \in Seq(EntryType) /\ Len(meta') = Len(keep)
        /\ states' \in Seq(Contexts) /\ Len(states') = Len(keep)
        /\ Slots' = 1..Len(keep)
        /\ \A j \in 1..Len(keep) :
             /\ meta'[j] = Advanced(keep[j]) /\ states'[j] = Fed(keep[j])
             /\ Len(states'[j]) <= NCtx
  BY Retired
<1>4. /\ Len(keep) \in Nat
      /\ \A j \in Slots' : keep[j] \in Slots /\ keep[j] \in Kept
      /\ \A s \in Kept : \E j \in Slots' : keep[j] = s
      /\ \A i, j \in Slots' : i < j => keep[i] < keep[j]
  BY <1>3, Kept1
<1>5. ASSUME NEW j \in Slots', NEW s, s = keep[j]
      PROVE  /\ s \in Slots /\ meta'[j].id = meta[s].id /\ meta'[j].max_new = meta[s].max_new
             /\ C!Sequential(submitted[meta'[j].id], meta'[j].generated)
             /\ \A i \in 1..Len(meta'[j].generated) :
                  i < meta'[j].max_new /\ meta'[j].generated[i] # Eos
             /\ meta'[j].last_token = LastOf(Fed(j)')
             /\ states'[j] = SubSeq(Fed(j)', 1, Len(Fed(j)') - 1)
  <2>1. PICK a : a = Advanced(s)
    OBVIOUS
  <2>2. s \in Slots /\ s \in Kept /\ meta'[j] = a /\ states'[j] = Fed(s)
    BY <1>3, <1>4, <1>5, <2>1
  <2>3. ~Done(a)
    BY <2>1, <2>2 DEF Kept
  <2>4. a.id = meta[s].id /\ a.max_new = meta[s].max_new
    BY <2>1, <2>2, Advancing
  <2>5. /\ C!Sequential(submitted[meta[s].id], a.generated)
        /\ \A i \in 1..Len(a.generated) : i < a.max_new /\ a.generated[i] # Eos
    BY <2>1, <2>2, <2>3, AdvancedRun
  <2>6. Fed(j)' = C!Seed(submitted[meta[s].id]) \o a.generated
    BY <1>1, <2>2, <2>4 DEF Fed, C!Seed
  <2>7. LastOf(Fed(j)') = a.last_token /\ SubSeq(Fed(j)', 1, Len(Fed(j)') - 1) = Fed(s)
    <3>1. PICK f : f = Fed(j)'
      OBVIOUS
    <3>2. f = C!Seed(submitted[meta[s].id]) \o a.generated
      BY <2>6, <3>1
    <3>3. LastOf(f) = a.last_token /\ SubSeq(f, 1, Len(f) - 1) = Fed(s)
      BY <2>1, <2>2, <3>2, AdvancedFed
    <3> QED
      BY <3>1, <3>3
  <2> QED
    BY <2>2, <2>4, <2>5, <2>7
<1>6. Slots \subseteq Nat /\ Slots' \subseteq Nat
  BY <1>3, SlotFacts
<1>7. TypeOK'
  <2>1. failed' \in BOOLEAN /\ ~failed'
    BY <1>1, Zenon
  <2>2. log' \in Seq([joined : Seq(1..MaxSubmit),
                      reports : Seq([id : 1..MaxSubmit, token : Token,
                                     output : Contexts \cup {NoAnswer}])])
    BY RetiredLog
  <2>3. joined' \in Seq(1..MaxSubmit)
    BY <1>1, EmptySeq
  <2>4. /\ pending' \in Seq([id : 1..MaxSubmit, tokens : Contexts, max_new : Nat])
        /\ submitted' \in Seq(Request) /\ Len(submitted') <= MaxSubmit
        /\ torn' \subseteq 1..MaxSubmit
    BY <1>1 DEF SchedInv, TypeOK
  <2>5. todo' \subseteq Slots' /\ todo' = {} /\ pc' \in {"idle", "decode"} /\ pc' # "decode"
    BY <1>1
  <2>6. /\ meta' \in Seq(EntryType) /\ states' \in Seq(Contexts) /\ Len(states') = Len(meta')
        /\ \A j \in Slots' : Len(states'[j]) <= NCtx
    BY <1>3
  <2> QED
    BY <1>1, <2>1, <2>2, <2>3, <2>4, <2>5, <2>6 DEF TypeOK
<1>8. Ids'
  <2>1. ASSUME NEW j \in Slots'
        PROVE  /\ meta'[j].id \in 1..Len(submitted)
               /\ meta'[j].max_new = submitted[meta'[j].id].max_new
    BY <1>5 DEF SchedInv, Ids
  <2> QED
    BY <1>1, <2>1 DEF SchedInv, Ids
<1>9. Ordered'
  <2>1. ASSUME NEW i \in Slots', NEW j \in Slots', i < j
        PROVE  meta'[i].id < meta'[j].id
    <3>1. keep[i] \in Slots /\ keep[j] \in Slots /\ keep[i] < keep[j]
      BY <1>4, <2>1
    <3>2. meta[keep[i]].id < meta[keep[j]].id
      BY <3>1 DEF SchedInv, Ordered
    <3> QED
      BY <1>5, <3>2
  <2>2. ASSUME NEW j \in Slots', NEW i \in 1..Len(pending)
        PROVE  meta'[j].id < pending[i].id
    <3>1. keep[j] \in Slots
      BY <1>4
    <3>2. meta[keep[j]].id < pending[i].id
      BY <3>1 DEF SchedInv, Ordered
    <3> QED
      BY <1>5, <3>2
  <2> QED
    BY <1>1, <2>1, <2>2 DEF SchedInv, Ordered
<1>10. Working'
  BY <1>1 DEF Working
<1>11. Paired'
  <2>1. ASSUME NEW j \in Slots'
        PROVE  /\ meta'[j].last_token = LastOf(Fed(j)')
               /\ states'[j] = SubSeq(Fed(j)', 1, Len(Fed(j)') - 1)
    BY <1>5
  <2> QED
    BY <1>1, <2>1 DEF Paired
<1>12. TornSilent'
  BY <1>1, <1>2 DEF TornSilent
<1>13. Running'
  <2>1. ASSUME NEW j \in Slots'
        PROVE  /\ C!Sequential(submitted[meta'[j].id], meta'[j].generated)
               /\ \A i \in 1..Len(meta'[j].generated) :
                    i < meta'[j].max_new /\ meta'[j].generated[i] # Eos
    BY <1>5
  <2> QED
    BY <1>1, <2>1 DEF Running, C!Sequential, C!Seed
<1>14. Reported'
  <2>1. ASSUME NEW t \in DOMAIN log', NEW r \in ReportsOf(t)'
        PROVE  r.id \in 1..Len(submitted)
    <3>1. CASE t \in DOMAIN log
      BY <3>1, RetiredLog DEF SchedInv, Reported
    <3>2. CASE t = Len(log) + 1
      <4>1. PICK s \in Slots : r = Report(s)
        BY <3>2, RetiredLog
      <4>2. PICK a : a = Advanced(s)
        OBVIOUS
      <4>3. r.id = a.id /\ a.id = meta[s].id
        BY <4>1, <4>2, Advancing DEF Report
      <4> QED
        BY <4>3, SlotFacts
    <3> QED
      BY <3>1, <3>2, RetiredLog
  <2>2. \A id : Queued(id)' <=> Queued(id)
    BY <1>1 DEF Queued
  <2>3. ASSUME NEW id
        PROVE  InPool(id)' <=> \E s \in Kept : meta[s].id = id
    BY <1>4, <1>5 DEF InPool
  <2>4. ASSUME NEW id, NEW s \in Kept, meta[s].id = id PROVE Outputs(id)' = {}
    <3>1. s \in Slots /\ ~Done(Advanced(s))
      BY DEF Kept
    <3>2. Outputs(id) = {} /\ \A x \in Slots : meta[x].id = id => x = s
      BY <2>4, <3>1, HeldOnce
    <3>3. \A out : out \notin Outputs(id)'
      BY <3>1, <3>2, RetiredOutputs
    <3> QED
      BY <3>3
  <2>5. ASSUME NEW id \in DOMAIN submitted, Queued(id) PROVE Outputs(id)' = {}
    <3>1. Outputs(id) = {}
      BY <2>5 DEF SchedInv, Reported
    <3>2. \A x \in Slots : meta[x].id # id
      BY <2>5, HeldOnce
    <3>3. \A out : out \notin Outputs(id)'
      BY <3>1, <3>2, RetiredOutputs
    <3> QED
      BY <3>3
  <2>6. ASSUME NEW id \in DOMAIN submitted, Outputs(id)' = {}
        PROVE  Queued(id) \/ \E s \in Kept : meta[s].id = id
    <3>1. Outputs(id) = {}
      BY <2>6, RetiredOutputs
    <3>2. CASE Queued(id)
      BY <3>2
    <3>3. CASE InPool(id)
      <4>1. PICK s \in Slots : meta[s].id = id
        BY <3>3 DEF InPool
      <4>2. ~Done(Advanced(s))
        BY <2>6, <4>1, RetiredOutputs
      <4> QED
        BY <4>1, <4>2 DEF Kept
    <3> QED
      BY <3>1, <3>2, <3>3 DEF SchedInv, Reported
  <2>7. \A id \in DOMAIN submitted : Outputs(id)' = {} <=> InPool(id)' \/ Queued(id)'
    BY <2>2, <2>3, <2>4, <2>5, <2>6
  <2> QED
    BY <1>1, <2>1, <2>7 DEF Reported
<1> QED
  BY <1>7, <1>8, <1>9, <1>10, <1>11, <1>12, <1>13, <1>14 DEF SchedInv
-----------------------------------------------------------------------------
(* The event stream.                                                       *)

\* Ids are announced by Prefilled when they join, and so before they have
\* generated anything.
JoinedOnce ==
  /\ \A t \in DOMAIN log : \A i \in DOMAIN log[t].joined : log[t].joined[i] \in 1..Len(submitted)
  /\ \A i \in DOMAIN joined : \E s \in Slots : meta[s].id = joined[i] /\ meta[s].generated = <<>>

\* EventsAddUp, part by part.
SlotStreams ==
  \A s \in Slots : \A id, out, n :
    id = meta[s].id /\ out = meta[s].generated /\ n = Len(log) => Streamed(id, out, n)

QueueStreams ==
  \A i \in 1..Len(pending) : \A id, out, n :
    id = pending[i].id /\ out = <<>> /\ n = Len(log) => Streamed(id, out, n)

DoneStreams ==
  \A t \in DOMAIN log : \A r \in ReportsOf(t) : \A id, out :
    id = r.id /\ out = r.output /\ out # NoAnswer => Streamed(id, out, t)

EventInv == SlotStreams /\ QueueStreams /\ DoneStreams /\ JoinedOnce

TokensOf(t, id) == {r.token : r \in {x \in ReportsOf(t) : x.id = id}}

JoinedIn(t, id) == \E i \in DOMAIN log[t].joined : log[t].joined[i] = id

LEMMA StreamedMeans ==
  ASSUME NEW id, NEW out, NEW last
  PROVE  Streamed(id, out, last) <=>
           \A t \in DOMAIN log :
             /\ TokensOf(t, id) = IF t \in (last - Len(out) + 1)..last
                                  THEN {out[t - (last - Len(out))]} ELSE {}
             /\ JoinedIn(t, id) => t = last - Len(out) + 1
BY Zenon DEF Streamed, TokensOf, JoinedIn

LEMMA StreamKept ==
  ASSUME UNCHANGED log, NEW id, NEW out, NEW last
  PROVE  Streamed(id, out, last)' <=> Streamed(id, out, last)
<1>1. \A t : ReportsOf(t)' = ReportsOf(t)
  BY LogKept
<1>2. \A t : TokensOf(t, id)' = TokensOf(t, id) /\ (JoinedIn(t, id)' <=> JoinedIn(t, id))
  BY <1>1 DEF TokensOf, JoinedIn
<1>3. Streamed(id, out, last)' <=>
        \A t \in DOMAIN log' :
          /\ TokensOf(t, id)' = IF t \in (last - Len(out) + 1)..last
                                THEN {out[t - (last - Len(out))]} ELSE {}
          /\ JoinedIn(t, id)' => t = last - Len(out) + 1
  BY Zenon DEF Streamed, TokensOf, JoinedIn
<1> QED
  BY <1>2, <1>3, StreamedMeans, Zenon

\* What a successful tick adds for one id.
LEMMA RetiredStream ==
  ASSUME SchedInv, JoinedOnce, Retire, NEW id, NEW n, n = Len(log)
  PROVE  /\ n \in Nat /\ DOMAIN log = 1..n /\ DOMAIN log' = 1..(n + 1)
         /\ \A t \in 1..n : /\ TokensOf(t, id)' = TokensOf(t, id)
                            /\ JoinedIn(t, id)' <=> JoinedIn(t, id)
         /\ \A s \in Slots : meta[s].id = id => TokensOf(n + 1, id)' = {Advanced(s).last_token}
         /\ ~InPool(id) => TokensOf(n + 1, id)' = {}
         /\ JoinedIn(n + 1, id)' => \E s \in Slots : meta[s].id = id /\ meta[s].generated = <<>>
<1>1. n \in Nat /\ DOMAIN log = 1..n
  BY LenProperties DEF SchedInv, TypeOK
<1>2. /\ DOMAIN log' = DOMAIN log \cup {n + 1}
      /\ \A t \in DOMAIN log : log'[t] = log[t] /\ ReportsOf(t)' = ReportsOf(t)
      /\ log'[n + 1].joined = joined /\ ReportsOf(n + 1)' = {Report(s) : s \in Slots}
  BY RetiredLog
<1>3. DOMAIN log' = 1..(n + 1)
  BY <1>1, <1>2
<1>4. \A t \in 1..n : TokensOf(t, id)' = TokensOf(t, id) /\ (JoinedIn(t, id)' <=> JoinedIn(t, id))
  BY <1>1, <1>2 DEF TokensOf, JoinedIn
<1>5. ASSUME NEW s \in Slots
      PROVE  Report(s).id = meta[s].id /\ Report(s).token = Advanced(s).last_token
  <2>1. PICK a : a = Advanced(s)
    OBVIOUS
  <2>2. a.id = meta[s].id
    BY <2>1, Advancing
  <2> QED
    BY <2>1, <2>2 DEF Report
<1>6. ASSUME NEW s \in Slots, meta[s].id = id
      PROVE  TokensOf(n + 1, id)' = {Advanced(s).last_token}
  <2>1. \A x \in Slots : Report(x).id = id <=> x = s
    BY <1>5, <1>6, HeldOnce
  <2> QED
    BY <1>2, <1>5, <2>1 DEF TokensOf
<1>7. ASSUME ~InPool(id) PROVE TokensOf(n + 1, id)' = {}
  <2>1. \A x \in Slots : Report(x).id # id
    BY <1>5, <1>7 DEF InPool
  <2> QED
    BY <1>2, <2>1 DEF TokensOf
<1>8. ASSUME JoinedIn(n + 1, id)'
      PROVE  \E s \in Slots : meta[s].id = id /\ meta[s].generated = <<>>
  <2>1. PICK i \in DOMAIN joined : joined[i] = id
    BY <1>2, <1>8 DEF JoinedIn
  <2> QED
    BY <2>1 DEF JoinedOnce
<1> QED
  BY <1>1, <1>3, <1>4, <1>6, <1>7, <1>8

\* The stream of an id goes on with its token.
LEMMA StreamGoesOn ==
  ASSUME SchedInv, JoinedOnce, Retire, NEW n, n = Len(log), NEW s \in Slots,
         NEW id, id = meta[s].id, NEW old, old = meta[s].generated, Streamed(id, old, n),
         NEW out, out = Advanced(s).generated, NEW last, last = n + 1
  PROVE  Streamed(id, out, last)'
<1>1. /\ n \in Nat /\ DOMAIN log = 1..n /\ DOMAIN log' = 1..(n + 1)
      /\ \A t \in 1..n : TokensOf(t, id)' = TokensOf(t, id) /\ (JoinedIn(t, id)' <=> JoinedIn(t, id))
      /\ TokensOf(n + 1, id)' = {Advanced(s).last_token}
      /\ JoinedIn(n + 1, id)' => \E x \in Slots : meta[x].id = id /\ meta[x].generated = <<>>
  BY RetiredStream
<1>2. PICK g : g = Greedy(Fed(s))
  OBVIOUS
<1>3. /\ g \in Token /\ old \in Seq(Token) /\ meta[s] \in EntryType /\ next_tokens[s] = <<g>>
  BY <1>2, AllDone, SlotFacts
<1>4. out = old \o <<g>> /\ Advanced(s).last_token = g
  BY <1>3 DEF Advanced, EntryType
<1>5. /\ Len(out) = Len(old) + 1 /\ Len(old) \in Nat
      /\ \A i \in 1..Len(old) : out[i] = old[i]
      /\ out[Len(old) + 1] = g
  BY <1>3, <1>4, AppendIsConcat, AppendProperties, LenProperties
<1>6. last - Len(out) = n - Len(old) /\ n - Len(old) \in Int
  BY <1>1, <1>5
<1> DEFINE first == n - Len(old)
<1>7. \A t \in 1..n :
        /\ TokensOf(t, id) = IF t \in (first + 1)..n THEN {old[t - first]} ELSE {}
        /\ JoinedIn(t, id) => t = first + 1
  BY <1>1, StreamedMeans
<1>8. SUFFICES ASSUME NEW t \in 1..(n + 1)
              PROVE  /\ TokensOf(t, id)' = IF t \in (first + 1)..last THEN {out[t - first]} ELSE {}
                     /\ JoinedIn(t, id)' => t = first + 1
  <2>1. Streamed(id, out, last)' <=>
          \A t \in DOMAIN log' :
            /\ TokensOf(t, id)' = IF t \in (last - Len(out) + 1)..last
                                  THEN {out[t - (last - Len(out))]} ELSE {}
            /\ JoinedIn(t, id)' => t = last - Len(out) + 1
    BY Zenon DEF Streamed, TokensOf, JoinedIn
  <2> QED
    BY <1>1, <1>6, <2>1
<1>9. CASE t \in 1..n
  <2>1. t \in (first + 1)..n <=> t \in (first + 1)..last
    BY <1>1, <1>5, <1>9
  <2>2. t \in (first + 1)..n => t - first \in 1..Len(old)
    BY <1>1, <1>5, <1>9
  <2>3. t \in (first + 1)..n => out[t - first] = old[t - first]
    BY <1>5, <2>2
  <2> QED
    BY <1>1, <1>7, <1>9, <2>1, <2>3
<1>10. CASE t = n + 1
  <2>1. t \in (first + 1)..last /\ t - first = Len(old) + 1
    <3>1. PICK k : k = Len(old)
      OBVIOUS
    <3>2. k \in Nat /\ n \in Nat /\ first = n - k /\ t = n + 1 /\ last = n + 1
      BY <1>1, <1>5, <1>10, <3>1
    <3> HIDE DEF first
    <3>3. first + 1 <= t /\ t \in Int /\ first + 1 \in Int /\ last \in Int /\ t <= last
      BY <3>2
    <3>4. t \in (first + 1)..last
      BY <3>3
    <3>5. t - first = k + 1
      BY <3>2
    <3> QED
      BY <3>1, <3>4, <3>5
  <2>2. TokensOf(t, id)' = {out[t - first]}
    BY <1>1, <1>4, <1>5, <1>10, <2>1
  <2>3. ASSUME JoinedIn(t, id)' PROVE t = first + 1
    <3>1. PICK x \in Slots : meta[x].id = id /\ meta[x].generated = <<>>
      BY <1>1, <1>10, <2>3
    <3>2. x = s
      BY <3>1, HeldOnce
    <3>3. Len(old) = 0
      BY <3>1, <3>2
    <3> QED
      BY <1>1, <1>10, <3>3
  <2> QED
    BY <2>1, <2>2, <2>3
<1> QED
  BY <1>1, <1>9, <1>10

\* The stream of an id that is in no slot is not added to: what is finished
\* has ended, and what waits has not begun.
LEMMA StreamRests ==
  ASSUME SchedInv, JoinedOnce, Retire, NEW n, n = Len(log), NEW id, ~InPool(id),
         NEW out, NEW last, NEW next, Streamed(id, out, last), Len(out) \in Nat,
         \/ last \in 1..n /\ next = last
         \/ last = n /\ next = n + 1 /\ Len(out) = 0
  PROVE  Streamed(id, out, next)'
<1>1. /\ n \in Nat /\ DOMAIN log = 1..n /\ DOMAIN log' = 1..(n + 1)
      /\ \A t \in 1..n : TokensOf(t, id)' = TokensOf(t, id) /\ (JoinedIn(t, id)' <=> JoinedIn(t, id))
      /\ TokensOf(n + 1, id)' = {} /\ ~JoinedIn(n + 1, id)'
  BY RetiredStream DEF InPool
<1>2. \A t \in 1..n :
        /\ TokensOf(t, id) = IF t \in (last - Len(out) + 1)..last
                             THEN {out[t - (last - Len(out))]} ELSE {}
        /\ JoinedIn(t, id) => t = last - Len(out) + 1
  BY <1>1, StreamedMeans
<1>3. SUFFICES ASSUME NEW t \in 1..(n + 1)
              PROVE  /\ TokensOf(t, id)' = IF t \in (next - Len(out) + 1)..next
                                           THEN {out[t - (next - Len(out))]} ELSE {}
                     /\ JoinedIn(t, id)' => t = next - Len(out) + 1
  <2>1. Streamed(id, out, next)' <=>
          \A t \in DOMAIN log' :
            /\ TokensOf(t, id)' = IF t \in (next - Len(out) + 1)..next
                                  THEN {out[t - (next - Len(out))]} ELSE {}
            /\ JoinedIn(t, id)' => t = next - Len(out) + 1
    BY Zenon DEF Streamed, TokensOf, JoinedIn
  <2> QED
    BY <1>1, <2>1
<1>4. CASE t = n + 1
  <2>1. t \notin (next - Len(out) + 1)..next
    BY <1>1, <1>4
  <2> QED
    BY <1>1, <1>4, <2>1
<1>5. CASE t \in 1..n
  <2>1. CASE next = last
    BY <1>1, <1>2, <1>5, <2>1
  <2>2. CASE last = n /\ next = n + 1 /\ Len(out) = 0
    <3>1. /\ t \notin (last - Len(out) + 1)..last /\ t \notin (next - Len(out) + 1)..next
          /\ t # last - Len(out) + 1
      BY <1>1, <1>5, <2>2
    <3> QED
      BY <1>1, <1>2, <1>5, <3>1
  <2> QED
    BY <2>1, <2>2
<1> QED
  BY <1>1, <1>4, <1>5

\* Nothing moves between queue, pool and log.
LEMMA EventFrame ==
  ASSUME EventInv, UNCHANGED <<pending, meta, log, submitted>>, joined' = joined \/ joined' = <<>>
  PROVE  EventInv'
<1>1. Slots' = Slots /\ UNCHANGED <<pending, meta, log, submitted>>
  BY DEF Slots
<1>2. \A id, out, n : Streamed(id, out, n)' <=> Streamed(id, out, n)
  BY StreamKept
<1>3. \A t : ReportsOf(t)' = ReportsOf(t)
  BY LogKept
<1>4. SlotStreams' /\ QueueStreams'
  BY <1>1, <1>2 DEF EventInv, SlotStreams, QueueStreams
<1>5. DoneStreams'
  BY <1>1, <1>2, <1>3 DEF EventInv, DoneStreams
<1>6. JoinedOnce'
  <2>1. DOMAIN <<>> = {}
    OBVIOUS
  <2> QED
    BY <1>1, <2>1 DEF EventInv, JoinedOnce
<1> QED
  BY <1>4, <1>5, <1>6 DEF EventInv

\* A request that was never heard of has an empty stream.
LEMMA EventSubmit ==
  ASSUME SchedInv, EventInv, NEW req \in Request, Submit(req)
  PROVE  EventInv'
<1>1. PICK n : n = Len(submitted)
  OBVIOUS
<1>2. UNCHANGED <<meta, log, joined>> /\ Slots' = Slots
  BY DEF Submit, tick, Slots
<1>3. /\ n \in Nat /\ Len(submitted') = n + 1
      /\ Len(pending') = Len(pending) + 1
      /\ \A i \in 1..Len(pending) : pending'[i] = pending[i]
      /\ pending'[Len(pending) + 1].id = n + 1
  <2>1. pending'[Len(pending) + 1] = [id |-> n + 1, tokens |-> req.tokens, max_new |-> req.max_new]
    BY <1>1, Submitted
  <2>2. pending'[Len(pending) + 1].id = n + 1
    BY <2>1
  <2> QED
    BY <1>1, <2>2, Submitted
<1>4. \A i \in 1..Len(pending') : i \in 1..Len(pending) \/ i = Len(pending) + 1
  BY <1>3, QueueFacts
<1>5. \A id, out, t : Streamed(id, out, t)' <=> Streamed(id, out, t)
  BY <1>2, StreamKept
<1>6. \A t : ReportsOf(t)' = ReportsOf(t)
  BY <1>2, LogKept
<1>7. ASSUME NEW id, NEW out, NEW m, id = n + 1, out = <<>>, m = Len(log)
      PROVE  Streamed(id, out, m)
  <2>1. m \in Nat /\ DOMAIN log = 1..m
    BY <1>7, LenProperties DEF SchedInv, TypeOK
  <2>2. Len(out) = 0 /\ id \notin 1..n
    BY <1>3, <1>7
  <2>3. ASSUME NEW t \in DOMAIN log
        PROVE  /\ TokensOf(t, id) = {} /\ ~JoinedIn(t, id)
               /\ t \notin (m - Len(out) + 1)..m
    <3>1. \A r \in ReportsOf(t) : r.id # id
      BY <1>1, <2>2 DEF SchedInv, Reported
    <3>2. ~JoinedIn(t, id)
      BY <1>1, <2>2 DEF EventInv, JoinedOnce, JoinedIn
    <3>3. t \notin (m - Len(out) + 1)..m
      BY <2>1, <2>2
    <3> QED
      BY <3>1, <3>2, <3>3 DEF TokensOf
  <2> QED
    BY <2>3, StreamedMeans
<1>8. SlotStreams'
  BY <1>2, <1>5 DEF EventInv, SlotStreams
<1>9. QueueStreams'
  <2>1. ASSUME NEW i \in 1..Len(pending'), NEW id, NEW out, NEW m,
               id = pending'[i].id, out = <<>>, m = Len(log)
        PROVE  Streamed(id, out, m)
    <3>1. CASE i \in 1..Len(pending)
      BY <1>3, <2>1, <3>1 DEF EventInv, QueueStreams
    <3>2. CASE i = Len(pending) + 1
      BY <1>3, <1>7, <2>1, <3>2
    <3> QED
      BY <1>4, <3>1, <3>2
  <2> QED
    BY <1>2, <1>5, <2>1 DEF QueueStreams
<1>10. DoneStreams'
  BY <1>2, <1>5, <1>6 DEF EventInv, DoneStreams
<1>11. JoinedOnce'
  <2>1. \A id \in 1..n : id \in 1..(n + 1)
    BY <1>3
  <2> QED
    BY <1>1, <1>2, <1>3, <2>1 DEF EventInv, JoinedOnce
<1> QED
  BY <1>8, <1>9, <1>10, <1>11 DEF EventInv

\* Those that join have an empty stream, and are announced.
LEMMA EventBegin ==
  ASSUME SchedInv, EventInv, BeginStep
  PROVE  EventInv'
<1> DEFINE m == Len(meta)
           q == Len(pending)
<1>1. /\ pending' = <<>> /\ UNCHANGED <<log, submitted>>
      /\ meta' # <<>> => joined' = [i \in 1..q |-> pending[i].id]
      /\ meta' = <<>> => UNCHANGED joined
  BY DEF BeginStep, tick, history
<1>2. /\ meta' \in Seq(EntryType) /\ Len(meta') = m + q
      /\ \A s \in Slots : meta'[s] = meta[s]
  BY Begun
<1>3. ASSUME NEW i \in 1..q
      PROVE  meta'[m + i].id = pending[i].id /\ meta'[m + i].generated = <<>>
  <2> DEFINE e == [id |-> pending[i].id, last_token |-> LastOf(pending[i].tokens),
                   generated |-> <<>>, max_new |-> pending[i].max_new]
  <2>1. meta'[m + i] = e
    BY Begun
  <2>2. e.id = pending[i].id /\ e.generated = <<>>
    OBVIOUS
  <2> HIDE DEF e
  <2> QED
    BY <2>1, <2>2
<1>4. m \in Nat /\ q \in Nat /\ Slots = 1..m /\ Slots' = 1..(m + q)
  BY <1>2, SlotFacts, QueueFacts DEF Slots
<1>5. /\ \A s \in Slots' : s \in Slots \/ \E i \in 1..q : s = m + i
      /\ \A i \in 1..q : m + i \in Slots'
  <2>1. ASSUME NEW s \in Slots', s \notin Slots PROVE s - m \in 1..q /\ s = m + (s - m)
    BY <1>4, <2>1
  <2> QED
    BY <1>4, <2>1
<1>6. \A id, out, t : Streamed(id, out, t)' <=> Streamed(id, out, t)
  BY <1>1, StreamKept
<1>7. \A t : ReportsOf(t)' = ReportsOf(t)
  BY <1>1, LogKept
<1>8. SlotStreams'
  <2>1. ASSUME NEW s \in Slots', NEW id, NEW out, NEW n,
               id = meta'[s].id, out = meta'[s].generated, n = Len(log)
        PROVE  Streamed(id, out, n)
    <3>1. CASE s \in Slots
      BY <1>2, <2>1, <3>1 DEF EventInv, SlotStreams
    <3>2. CASE \E i \in 1..q : s = m + i
      <4>1. PICK i \in 1..q : s = m + i
        BY <3>2
      <4>2. id = pending[i].id /\ out = <<>>
        BY <1>3, <2>1, <4>1
      <4> QED
        BY <2>1, <4>2 DEF EventInv, QueueStreams
    <3> QED
      BY <1>5, <3>1, <3>2
  <2> QED
    BY <1>1, <1>6, <2>1 DEF SlotStreams
<1>9. QueueStreams'
  BY <1>1 DEF QueueStreams
<1>10. DoneStreams'
  BY <1>1, <1>6, <1>7 DEF EventInv, DoneStreams
<1>11. JoinedOnce'
  <2>1. \A i \in DOMAIN joined' : \E s \in Slots' : meta'[s].id = joined'[i] /\ meta'[s].generated = <<>>
    <3>1. CASE meta' # <<>>
      BY <1>1, <1>3, <1>5, <3>1
    <3>2. CASE meta' = <<>>
      <4>1. m + q = 0
        BY <1>2, <3>2, EmptySeq
      <4>2. Slots = {}
        BY <1>4, <4>1
      <4> QED
        BY <1>1, <3>2, <4>2 DEF EventInv, JoinedOnce
    <3> QED
      BY <3>1, <3>2
  <2> QED
    BY <1>1, <2>1 DEF EventInv, JoinedOnce
<1> QED
  BY <1>8, <1>9, <1>10, <1>11 DEF EventInv

\* A report that was made is of its type.
LEMMA ReportType ==
  ASSUME SchedInv, NEW t \in DOMAIN log, NEW r \in ReportsOf(t)
  PROVE  r \in [id : 1..MaxSubmit, token : Token, output : Contexts \cup {NoAnswer}]
<1> DEFINE R == [id : 1..MaxSubmit, token : Token, output : Contexts \cup {NoAnswer}]
           L == [joined : Seq(1..MaxSubmit), reports : Seq(R)]
<1>1. log \in Seq(L)
  BY DEF SchedInv, TypeOK
<1> HIDE DEF R
<1>2. log[t] \in L
  BY <1>1, LenProperties, ElementOfSeq
<1>3. log[t].reports \in Seq(R)
  BY <1>2
<1>4. PICK s \in DOMAIN log[t].reports : r = log[t].reports[s]
  BY DEF ReportsOf
<1>5. r \in R
  BY <1>3, <1>4, LenProperties, ElementOfSeq
<1> QED
  BY <1>5 DEF R

\* A successful tick.
LEMMA EventRetire ==
  ASSUME SchedInv, EventInv, Retire
  PROVE  EventInv'
<1>1. PICK n : n = Len(log)
  OBVIOUS
<1>2. /\ n \in Nat /\ DOMAIN log = 1..n /\ DOMAIN log' = 1..(n + 1) /\ Len(log') = n + 1
      /\ \A t \in 1..n : log'[t] = log[t] /\ ReportsOf(t)' = ReportsOf(t)
      /\ log'[n + 1].joined = joined /\ ReportsOf(n + 1)' = {Report(s) : s \in Slots}
      /\ \A t \in 1..(n + 1) : t \in 1..n \/ t = n + 1
  <2>1. n \in Nat /\ DOMAIN log = 1..n
    BY <1>1, LenProperties DEF SchedInv, TypeOK
  <2>2. /\ DOMAIN log' = DOMAIN log \cup {n + 1}
        /\ \A t \in DOMAIN log : log'[t] = log[t] /\ ReportsOf(t)' = ReportsOf(t)
        /\ log'[n + 1].joined = joined /\ ReportsOf(n + 1)' = {Report(s) : s \in Slots}
    BY <1>1, RetiredLog
  <2>3. \A t \in 1..(n + 1) : t \in 1..n \/ t = n + 1
    BY <2>1
  <2>4. DOMAIN log' = 1..(n + 1)
    BY <2>1, <2>2
  <2>5. Len(log') \in Nat /\ DOMAIN log' = 1..Len(log')
    BY RetiredLog, LenProperties
  <2>6. Len(log') = n + 1
    BY <2>1, <2>4, <2>5
  <2> QED
    BY <2>1, <2>2, <2>3, <2>4, <2>6
<1>3. UNCHANGED <<pending, submitted>> /\ joined' = <<>> /\ JoinedOnce
  BY DEF Retire, EndTick, EventInv
<1>4. ASSUME NEW s \in Slots, NEW id, id = meta[s].id,
             NEW out, out = Advanced(s).generated, NEW last, last = n + 1
      PROVE  Streamed(id, out, last)'
  <2>1. PICK old : old = meta[s].generated
    OBVIOUS
  <2>2. Streamed(id, old, n)
    BY <1>1, <1>4, <2>1 DEF EventInv, SlotStreams
  <2> QED
    BY <1>1, <1>3, <1>4, <2>1, <2>2, StreamGoesOn
<1>5. SlotStreams'
  <2>1. PICK keep \in Compactions :
          Slots' = 1..Len(keep) /\ \A j \in 1..Len(keep) : meta'[j] = Advanced(keep[j])
    BY Retired
  <2>2. ASSUME NEW j \in Slots', NEW id, NEW out, NEW last,
               id = meta'[j].id, out = meta'[j].generated, last = Len(log')
        PROVE  Streamed(id, out, last)'
    <3>1. PICK s : s = keep[j]
      OBVIOUS
    <3>2. s \in Slots /\ meta'[j] = Advanced(s)
      BY <2>1, <3>1, Kept1
    <3>3. PICK a : a = Advanced(s)
      OBVIOUS
    <3>4. a.id = meta[s].id
      BY <3>2, <3>3, Advancing
    <3>5. id = meta[s].id /\ out = Advanced(s).generated /\ last = n + 1
      BY <1>2, <2>2, <3>2, <3>3, <3>4
    <3> QED
      BY <1>4, <3>2, <3>5
  <2> QED
    BY <2>2 DEF SlotStreams
<1>6. QueueStreams'
  <2>1. ASSUME NEW i \in 1..Len(pending), NEW id, NEW out, NEW last,
               id = pending[i].id, out = <<>>, last = n + 1
        PROVE  Streamed(id, out, last)'
    <3>1. Streamed(id, out, n)
      BY <1>1, <2>1 DEF EventInv, QueueStreams
    <3>2. ~InPool(id)
      BY <2>1, HeldOnce DEF InPool, Queued
    <3>3. Len(out) \in Nat /\ Len(out) = 0
      BY <2>1
    <3> QED
      BY <1>1, <1>3, <2>1, <3>1, <3>2, <3>3, StreamRests
  <2> QED
    BY <1>2, <1>3, <2>1 DEF QueueStreams
<1>7. DoneStreams'
  <2>1. ASSUME NEW t \in 1..n, NEW r \in ReportsOf(t), NEW id, NEW out,
               id = r.id, out = r.output, out # NoAnswer
        PROVE  Streamed(id, out, t)'
    <3>1. Streamed(id, out, t)
      BY <1>2, <2>1 DEF EventInv, DoneStreams
    <3>2. out \in Outputs(id)
      BY <1>2, <2>1, OutputsMember
    <3>3. ~InPool(id)
      BY <3>2, HeldOnce DEF InPool
    <3>4. Len(out) \in Nat
      <4>1. out \in Contexts
        BY <1>2, <2>1, ReportType
      <4> QED
        BY <4>1, LenProperties DEF Contexts
    <3> QED
      BY <1>1, <1>3, <3>1, <3>3, <3>4, StreamRests
  <2>2. ASSUME NEW t, t = n + 1, NEW r \in {Report(s) : s \in Slots}, NEW id, NEW out,
               id = r.id, out = r.output, out # NoAnswer
        PROVE  Streamed(id, out, t)'
    <3>1. PICK s \in Slots : r = Report(s)
      BY <2>2
    <3>2. PICK a : a = Advanced(s)
      OBVIOUS
    <3>3. a.id = meta[s].id
      BY <3>2, Advancing
    <3>4. id = meta[s].id /\ out = Advanced(s).generated
      BY <2>2, <3>1, <3>2, <3>3 DEF Report
    <3> QED
      BY <1>4, <2>2, <3>4
  <2>3. ASSUME NEW t \in DOMAIN log', NEW r \in ReportsOf(t)', NEW id, NEW out,
               id = r.id, out = r.output, out # NoAnswer
        PROVE  Streamed(id, out, t)'
    <3>1. CASE t \in 1..n
      BY <1>2, <2>1, <2>3, <3>1
    <3>2. CASE t = n + 1
      BY <1>2, <2>2, <2>3, <3>2
    <3> QED
      BY <1>2, <3>1, <3>2
  <2> QED
    BY <2>3 DEF DoneStreams
<1>8. JoinedOnce'
  <2>1. \A i \in DOMAIN joined : joined[i] \in 1..Len(submitted)
    BY <1>3, SlotFacts DEF JoinedOnce
  <2>2. \A t \in DOMAIN log' : \A i \in DOMAIN log'[t].joined : log'[t].joined[i] \in 1..Len(submitted)
    BY <1>2, <1>3, <2>1 DEF JoinedOnce
  <2>3. DOMAIN <<>> = {}
    OBVIOUS
  <2> QED
    BY <1>3, <2>2, <2>3 DEF JoinedOnce
<1> QED
  BY <1>5, <1>6, <1>7, <1>8 DEF EventInv

LEMMA EventNextInv == SchedInv /\ EventInv /\ [Next]_vars => EventInv'
<1> SUFFICES ASSUME SchedInv, EventInv, [Next]_vars PROVE EventInv'
  OBVIOUS
<1>1. CASE \E req \in Request : Submit(req)
  BY <1>1, EventSubmit
<1>2. CASE BeginStep
  BY <1>2, EventBegin
<1>3. CASE RefuseStep \/ UNCHANGED vars
  BY <1>3, EventFrame DEF RefuseStep, vars, fields, tick, history
<1>4. CASE Worker
  BY <1>4, EventFrame DEF Worker, Decode, Skip, fields, history
<1>5. CASE Abort
  BY <1>5, EventFrame DEF Abort, EndTick
<1>6. CASE Retire
  BY <1>6, EventRetire
<1> QED
  BY <1>1, <1>2, <1>3, <1>4, <1>5, <1>6 DEF Next

LEMMA EventInit == Init => EventInv
<1> SUFFICES ASSUME Init PROVE EventInv
  OBVIOUS
<1>1. DOMAIN <<>> = {} /\ Slots = {} /\ 1..0 = {} /\ Len(<<>>) = 0
  BY DEF Init, Slots
<1> QED
  BY <1>1 DEF Init, EventInv, SlotStreams, QueueStreams, DoneStreams, JoinedOnce

LEMMA EventsByPart == EventInv => EventsAddUp
<1> SUFFICES ASSUME EventInv PROVE EventsAddUp
  OBVIOUS
<1>1. \A s \in Slots : Streamed(meta[s].id, meta[s].generated, Len(log))
  BY DEF EventInv, SlotStreams
<1>2. \A i \in 1..Len(pending) : Streamed(pending[i].id, <<>>, Len(log))
  BY DEF EventInv, QueueStreams
<1>3. \A t \in DOMAIN log : \A r \in ReportsOf(t) :
        r.output # NoAnswer => Streamed(r.id, r.output, t)
  BY DEF EventInv, DoneStreams
<1> QED
  BY <1>1, <1>2, <1>3 DEF EventsAddUp

-----------------------------------------------------------------------------
(* The theorems.                                                           *)

LEMMA SchedNextInv == SchedInv /\ [Next]_vars => SchedInv'
<1> SUFFICES ASSUME SchedInv, [Next]_vars PROVE SchedInv'
  OBVIOUS
<1>1. CASE \E req \in Request : Submit(req)
  BY <1>1, SubmitInv
<1>2. CASE BeginStep
  BY <1>2, BeginStepInv
<1>3. CASE RefuseStep
  BY <1>3, SchedStutter DEF RefuseStep
<1>4. CASE Worker
  BY <1>4, DecodeInv, SkipInv DEF Worker
<1>5. CASE Abort
  BY <1>5, AbortInv
<1>6. CASE Retire
  BY <1>6, RetireInv
<1>7. CASE UNCHANGED vars
  BY <1>7, SchedStutter
<1> QED
  BY <1>1, <1>2, <1>3, <1>4, <1>5, <1>6, <1>7 DEF Next

\* The inductive invariant holds throughout.
THEOREM SchedCorrect == Spec => []SchedInv
<1>1. Init => SchedInv
  BY SchedInitInv
<1>2. SchedInv /\ [Next]_vars => SchedInv'
  BY SchedNextInv
<1> QED
  BY <1>1, <1>2, PTL DEF Spec

\* Every variable of the scheduler keeps its shape, and no state outgrows the
\* context, whatever is submitted and whatever fails.
THEOREM SchedTypeCorrect == Spec => []TypeOK
<1>1. SchedInv => TypeOK
  BY DEF SchedInv
<1> QED
  BY <1>1, SchedCorrect, PTL

\* The state in a slot has consumed what its metadata says: PendingSeq,
\* ActiveMeta and GenerationState stay paired (pipeline.rs, step).
THEOREM PairedAlways == Spec => []Paired
<1>1. SchedInv => Paired
  BY DEF SchedInv
<1> QED
  BY <1>1, SchedCorrect, PTL

\* A state that ran ahead of its metadata in a failed tick never answers.
THEOREM TornNeverAnswers == Spec => []TornSilent
<1>1. SchedInv => TornSilent
  BY DEF SchedInv
<1> QED
  BY <1>1, SchedCorrect, PTL

\* The scheduler holds what was submitted, in order, until it is answered.
LEMMA HeldInOrder == SchedInv => Conserved
<1> SUFFICES ASSUME SchedInv PROVE Conserved
  OBVIOUS
<1> DEFINE m == Len(meta)
           q == Len(pending)
<1>1. /\ m \in Nat /\ q \in Nat /\ Slots = 1..m /\ DOMAIN Held = 1..(m + q)
      /\ \A i \in 1..(m + q) : (i <= m /\ i \in Slots) \/ (~(i <= m) /\ i - m \in 1..q)
      /\ \A s \in Slots : s \in 1..(m + q) /\ s <= m
      /\ \A i \in 1..q : m + i \in 1..(m + q) /\ ~(m + i <= m) /\ m + i - m = i
  BY SlotFacts, QueueFacts DEF Slots, Held
<1>2. \A i \in 1..(m + q) : Held[i] = IF i <= m THEN meta[i].id ELSE pending[i - m].id
  BY DEF Held
<1>3. ASSUME NEW i \in 1..(m + q), NEW k \in 1..(m + q), i < k
      PROVE  Held[i] < Held[k]
  <2>1. CASE k <= m
    <3>1. i <= m /\ i \in Slots /\ k \in Slots
      BY <1>1, <1>3, <2>1
    <3> QED
      BY <1>2, <1>3, <2>1, <3>1 DEF SchedInv, Ordered
  <2>2. CASE ~(k <= m) /\ i <= m
    <3>1. i \in Slots /\ k - m \in 1..q
      BY <1>1, <2>2
    <3> QED
      BY <1>2, <2>2, <3>1 DEF SchedInv, Ordered
  <2>3. CASE ~(k <= m) /\ ~(i <= m)
    <3>1. i - m \in 1..q /\ k - m \in 1..q /\ i - m < k - m
      BY <1>1, <1>3, <2>3
    <3> QED
      BY <1>2, <2>3, <3>1 DEF SchedInv, Ordered
  <2> QED
    BY <2>1, <2>2, <2>3
<1>4. ASSUME NEW id
      PROVE  (\E i \in 1..(m + q) : Held[i] = id) <=> InPool(id) \/ Queued(id)
  <2>1. ASSUME InPool(id) PROVE \E i \in 1..(m + q) : Held[i] = id
    BY <1>1, <1>2, <2>1 DEF InPool
  <2>2. ASSUME Queued(id) PROVE \E i \in 1..(m + q) : Held[i] = id
    <3>1. PICK i \in 1..q : pending[i].id = id
      BY <2>2 DEF Queued
    <3>2. Held[m + i] = id
      BY <1>1, <1>2, <3>1
    <3> QED
      BY <1>1, <3>2
  <2>3. ASSUME NEW i \in 1..(m + q), Held[i] = id PROVE InPool(id) \/ Queued(id)
    BY <1>1, <1>2, <2>3 DEF InPool, Queued
  <2> QED
    BY <2>1, <2>2, <2>3
<1>5. \A id \in DOMAIN submitted : (\E i \in DOMAIN Held : Held[i] = id) <=> Outputs(id) = {}
  BY <1>1, <1>4 DEF SchedInv, Reported
<1>6. /\ \A s \in Slots : meta[s].id <= Len(submitted) /\ meta[s].max_new = submitted[meta[s].id].max_new
      /\ \A i \in 1..q :
           /\ pending[i].id <= Len(submitted)
           /\ submitted[pending[i].id] = [tokens |-> pending[i].tokens, max_new |-> pending[i].max_new]
  BY SlotFacts DEF SchedInv, Ids
<1> QED
  BY <1>1, <1>3, <1>5, <1>6 DEF Conserved

\* No request is lost, duplicated, overtaken or mixed up with another, and
\* one is held exactly until its output is reported.
THEOREM NothingLost == Spec => []Conserved
BY SchedCorrect, HeldInOrder, PTL

\* The Finished output of a request is the sequence of its Decoded tokens,
\* one in every tick from the one that announced it, whatever ticks failed in
\* between.
THEOREM EventsComplete == Spec => []EventsAddUp
<1>1. Init => EventInv
  BY EventInit
<1>2. SchedInv /\ EventInv /\ [Next]_vars => EventInv'
  BY EventNextInv
<1>3. EventInv => EventsAddUp
  BY EventsByPart
<1> QED
  BY <1>1, <1>2, <1>3, SchedCorrect, PTL DEF Spec

-----------------------------------------------------------------------------
(* The scheduler implements Completions.                                   *)

LEMMA InitAnswers == Init => C!Init
<1> SUFFICES ASSUME Init PROVE submitted = <<>> /\ answers = <<>>
  BY DEF C!Init
<1>1. submitted = <<>> /\ DOMAIN submitted = {}
  BY DEF Init
<1>2. answers = <<>>
  BY <1>1 DEF answers
<1> QED
  BY <1>1, <1>2

\* Where nothing is submitted or reported, the answers stay.
LEMMA AnswersKept ==
  ASSUME UNCHANGED <<log, submitted>>
  PROVE  UNCHANGED C!vars
<1>1. \A id : Outputs(id)' = Outputs(id)
  BY LogKept
<1>2. answers' = answers
  <2> DEFINE e(id) == IF Outputs(id) = {} THEN NoAnswer ELSE CHOOSE out \in Outputs(id) : TRUE
             f(id) == IF Outputs(id)' = {} THEN NoAnswer ELSE CHOOSE out \in Outputs(id)' : TRUE
  <2>1. /\ answers = [id \in DOMAIN submitted |-> e(id)]
        /\ answers' = [id \in DOMAIN submitted |-> f(id)]
    BY DEF answers
  <2>2. ASSUME NEW id PROVE f(id) = e(id)
    <3>1. Outputs(id)' = Outputs(id)
      BY <1>1
    <3> QED
      BY <3>1
  <2> HIDE DEF e, f
  <2> QED
    BY <2>1, <2>2
<1> QED
  BY <1>2 DEF C!vars

LEMMA SubmitAsks ==
  ASSUME SchedInv, NEW req \in Request, Submit(req)
  PROVE  C!Ask(req)
<1>1. PICK n : n = Len(submitted)
  OBVIOUS
<1>2. /\ n \in Nat /\ n + 1 \in 1..MaxSubmit
      /\ DOMAIN submitted' = 1..(n + 1) /\ DOMAIN submitted = 1..n
  BY <1>1, Submitted, SlotFacts
<1>3. UNCHANGED log /\ submitted' = Append(submitted, req)
  BY DEF Submit
<1>4. Outputs(n + 1) = {}
  <2>1. ASSUME NEW t \in DOMAIN log, NEW r \in ReportsOf(t) PROVE r.id # n + 1
    <3>1. r.id \in 1..n
      BY <1>1, <2>1 DEF SchedInv, Reported
    <3> QED
      BY <1>2, <3>1
  <2> QED
    BY <2>1, OutputsMember
<1> DEFINE S == {answers[id] : id \in 1..n} \cup {NoAnswer}
           e(id) == IF Outputs(id) = {} THEN NoAnswer ELSE CHOOSE out \in Outputs(id) : TRUE
<1>5. answers = [id \in 1..n |-> e(id)]
  BY <1>2 DEF answers
<1>6. answers' = [id \in 1..(n + 1) |-> e(id)]
  <2> DEFINE f(id) == IF Outputs(id)' = {} THEN NoAnswer ELSE CHOOSE out \in Outputs(id)' : TRUE
  <2>1. answers' = [id \in 1..(n + 1) |-> f(id)]
    BY <1>2 DEF answers
  <2>2. \A id : Outputs(id)' = Outputs(id)
    BY <1>3, LogKept
  <2>3. ASSUME NEW id PROVE f(id) = e(id)
    <3>1. Outputs(id)' = Outputs(id)
      BY <2>2
    <3> QED
      BY <3>1
  <2> HIDE DEF e, f
  <2> QED
    BY <2>1, <2>3
<1>7. e(n + 1) = NoAnswer
  BY <1>4
<1>8. \A id \in 1..n : e(id) \in S
  BY <1>5
<1> HIDE DEF e
<1>9. \A id \in 1..(n + 1) : e(id) \in S
  BY <1>2, <1>7, <1>8
<1> HIDE DEF S
<1>10. NoAnswer \in S
  BY DEF S
<1>11. answers \in Seq(S) /\ Len(answers) = n
  <2>1. [id \in 1..n |-> e(id)] \in Seq(S)
    BY <1>2, <1>8, IsASeq
  <2> QED
    BY <1>2, <1>5, <2>1, LenProperties
<1>12. answers' \in Seq(S) /\ Len(answers') = n + 1
  <2>1. n + 1 \in Nat
    BY <1>2
  <2>2. [id \in 1..(n + 1) |-> e(id)] \in Seq(S)
    BY <1>9, <2>1, IsASeq
  <2> QED
    BY <1>6, <2>1, <2>2, LenProperties
<1>13. PICK old : old = answers
  OBVIOUS
<1>14. /\ Append(old, NoAnswer) \in Seq(S) /\ Len(Append(old, NoAnswer)) = n + 1
       /\ \A id \in 1..n : Append(old, NoAnswer)[id] = old[id]
       /\ Append(old, NoAnswer)[n + 1] = NoAnswer
  BY <1>10, <1>11, <1>13, AppendProperties
<1>15. \A id \in 1..(n + 1) : answers'[id] = Append(old, NoAnswer)[id]
  BY <1>2, <1>5, <1>6, <1>7, <1>13, <1>14
<1>16. answers' = Append(old, NoAnswer)
  BY <1>12, <1>14, <1>15, SeqEqual
<1> QED
  BY <1>3, <1>13, <1>16 DEF C!Ask

LEMMA RetireAnswers ==
  ASSUME SchedInv, Retire
  PROVE  C!Answer
<1> DEFINE n == Len(submitted)
<1>1. UNCHANGED submitted
  BY DEF Retire, EndTick
<1>2. n \in Nat /\ DOMAIN submitted = 1..n
  BY SlotFacts
<1> DEFINE e(id) == IF Outputs(id) = {} THEN NoAnswer ELSE CHOOSE out \in Outputs(id) : TRUE
           f(id) == IF Outputs(id)' = {} THEN NoAnswer ELSE CHOOSE out \in Outputs(id)' : TRUE
<1>3. answers = [id \in 1..n |-> e(id)] /\ answers' = [id \in 1..n |-> f(id)]
  BY <1>1, <1>2 DEF answers
<1>4. Len(answers) = n /\ Len(answers') = n
  BY <1>2, <1>3
<1>5. ASSUME NEW id \in 1..n
      PROVE  \/ f(id) = e(id)
             \/ /\ e(id) = NoAnswer
                /\ C!Sequential(submitted[id], f(id)) /\ C!Ended(submitted[id], f(id))
  <2>1. CASE \E s \in Slots : meta[s].id = id
    <3>1. PICK s \in Slots : meta[s].id = id
      BY <2>1
    <3>2. Outputs(id) = {} /\ \A x \in Slots : meta[x].id = id => x = s
      BY <3>1, HeldOnce
    <3>3. PICK a : a = Advanced(s)
      OBVIOUS
    <3>4. \A out : out \in Outputs(id)' <=> Done(a) /\ out = a.generated
      BY <3>1, <3>2, <3>3, RetiredOutputs
    <3>5. CASE Done(a)
      <4>1. f(id) = a.generated
        BY <3>4, <3>5
      <4>2. C!Sequential(submitted[id], a.generated) /\ C!Ended(submitted[id], a.generated)
        BY <3>1, <3>3, <3>5, AdvancedRun
      <4> QED
        BY <3>2, <4>1, <4>2
    <3>6. CASE ~Done(a)
      BY <3>2, <3>4, <3>6
    <3> QED
      BY <3>5, <3>6
  <2>2. CASE ~\E s \in Slots : meta[s].id = id
    <3>1. \A out : out \in Outputs(id)' <=> out \in Outputs(id)
      BY <2>2, RetiredOutputs
    <3>2. Outputs(id)' = Outputs(id)
      BY <3>1
    <3> QED
      BY <3>2
  <2> QED
    BY <2>1, <2>2
<1> HIDE DEF e, f
<1>6. \A id \in 1..n : answers[id] = e(id) /\ answers'[id] = f(id)
  BY <1>3
<1> QED
  BY <1>1, <1>4, <1>5, <1>6 DEF C!Answer

LEMMA NextAnswers == SchedInv /\ [Next]_vars => [C!Next]_(C!vars)
<1> SUFFICES ASSUME SchedInv, [Next]_vars PROVE [C!Next]_(C!vars)
  OBVIOUS
<1>1. CASE \E req \in Request : Submit(req)
  BY <1>1, SubmitAsks DEF C!Next
<1>2. CASE BeginStep
  BY <1>2, AnswersKept DEF BeginStep, history
<1>3. CASE RefuseStep \/ UNCHANGED vars
  BY <1>3, AnswersKept DEF RefuseStep, vars, history
<1>4. CASE Worker
  BY <1>4, AnswersKept DEF Worker, Decode, Skip, history
<1>5. CASE Abort
  BY <1>5, AnswersKept DEF Abort, EndTick
<1>6. CASE Retire
  BY <1>6, RetireAnswers DEF C!Next
<1> QED
  BY <1>1, <1>2, <1>3, <1>4, <1>5, <1>6 DEF Next

\* Every request is answered at most once, and with what sequential greedy
\* decoding gives it alone, in whatever company it was decoded.
THEOREM ImplementsCompletions == Spec => RefinesCompletions
<1>1. Init => C!Init
  BY InitAnswers
<1>2. SchedInv /\ [Next]_vars => [C!Next]_(C!vars)
  BY NextAnswers
<1> QED
  BY <1>1, <1>2, SchedCorrect, PTL DEF Spec, RefinesCompletions, C!Spec
=============================================================================
