------------------------- MODULE GenerationStateInv -------------------------
(***************************************************************************)
(* The inductive invariant of GenerationState: what holds between any two  *)
(* steps of a call, strong enough to imply Aligned and StateExact and to   *)
(* carry the refinement of TokenContext.                                   *)
(***************************************************************************)
EXTENDS GenerationState

\* Where a call is, and what its locals are worth there.
CallShape ==
  /\ pc = "idle" <=> op = "none"
  /\ pc # "idle" => reply = NoReply
  /\ todo # <<>> => op = "chunked"
  /\ op = "chunked" => chunk > 0
  /\ pc = "chunk" => todo # <<>> /\ op = "chunked"
  /\ pc = "judge" => op = "verify"

PassShape ==
  /\ pc \in {"layers", "judge"} =>
       pass # <<>> /\ Len(hidden) = Len(pass)
  /\ pc = "layers" => t \in 1..Len(pass)
  /\ pc = "layers" /\ layer \notin DeltaLayers => t = 1
  /\ op = "generate" => Len(pass) = 1
  /\ op = "verify" => Len(pass) = 1 + Len(draft) /\ Tail(pass) = draft

SnapShape ==
  Speculating =>
    /\ snap.pos = Len(snap.fed)
    /\ \A l \in FullLayers : snap.n_used[l] = snap.pos
    /\ pc = "layers" => fed = snap.fed /\ clean = snap.clean
    /\ pc = "judge" =>
         /\ fed = snap.fed \o pass
         /\ clean = (snap.clean /\ (Len(pass) = 1 \/ snap.pos = 0))

\* The state between two passes.
RestExact == pc # "layers" /\ clean => Exact

\* Inside a pass that started clean and will end clean: every state and every
\* activation is the reference for exactly the tokens that went through it.
Sequence == fed \o pass

DeltaCount(l) ==
  IF l < layer THEN Len(Sequence)
  ELSE IF l = layer THEN pos + t - 1
  ELSE pos

PassExact ==
  pc = "layers" /\ CleanPass =>
    /\ \A l \in DeltaLayers :
         /\ conv[l] = SubSeq(Sequence, 1, DeltaCount(l))
         /\ ssm[l] = SubSeq(Sequence, 1, DeltaCount(l))
    /\ \A l \in FullLayers : \A i \in 1..n_used[l] :
         rows[l][i] = RefRow(l, Sequence, i)
    /\ \A q \in 1..Len(pass) :
         hidden[q] = Input(IF q < t THEN layer + 1 ELSE layer, Sequence, pos + q)

\* What a rollback will find: the copied states, and the rows it left behind.
SnapExact ==
  Speculating /\ snap.clean =>
    /\ \A l \in DeltaLayers : snap.conv[l] = snap.fed /\ snap.ssm[l] = snap.fed
    /\ \A l \in FullLayers : \A i \in 1..snap.pos :
         rows[l][i] = RefRow(l, snap.fed, i)

\* The activations that the verdict on a draft reads, and what it leaves.
JudgeExact ==
  pc = "judge" /\ clean =>
    \A q \in 1..Len(pass) : hidden[q] = SubSeq(fed, 1, snap.pos + q)

AcceptedExact ==
  op = "refeed" /\ snap.clean /\ snap.fed = <<>> =>
    \A i \in 2..Len(pass) : pass[i] = Greedy(SubSeq(pass, 1, i - 1))

IInv ==
  /\ TypeOK /\ Aligned
  /\ CallShape /\ PassShape /\ SnapShape
  /\ RestExact /\ PassExact /\ SnapExact /\ JudgeExact /\ AcceptedExact
=============================================================================
