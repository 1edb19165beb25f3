-------------------------------- MODULE Chat --------------------------------
(***************************************************************************)
(* run's two other modes: the chat loop with its truncated history, and    *)
(* the single completion (src/bin/run.rs), with the template that renders  *)
(* a conversation (src/chat.rs) and the decoder that streams an answer     *)
(* (src/tokenizer/mod.rs).                                                 *)
(*                                                                         *)
(* A text is a sequence of characters, a prompt a sequence of tokens. One  *)
(* character, "char", takes two tokens of a byte each, "hi" and "lo"; a    *)
(* mark of the template ("user:" for <|im_start|>user\n) is one token.     *)
(* Blanks are left out, so trimming is the identity. Any token may follow  *)
(* a prompt: sampling and --argmax choose among them. The state a turn     *)
(* decodes with is fresh; it has consumed the prompt, the last prompt      *)
(* token once more and the answer but its last token.                      *)
(***************************************************************************)
EXTENDS Naturals, Sequences, SequencesExt

CONSTANTS
  Char,           \* what the texts given to the program are made of
  Token,          \* what the model may answer with
  stop_ids,       \* the tokens that end an answer; decoding skips them
  max_ctx,        \* context_length
  Lines,          \* what the user may type in chat
  Prompts,        \* the prompts of single completions
  SystemPrompts,  \* the values of --system, <<>> for none
  NPredict,       \* the values of --n-predict
  MaxConversation \* bound: messages of a conversation

ASSUME StopAssumption == stop_ids \subseteq Token
ASSUME LinesAssumption == \A line \in Lines \cup Prompts : line # <<>>
ASSUME TextAssumption == Lines \cup Prompts \cup SystemPrompts \subseteq Seq(Char)
ASSUME RoomAssumption == max_ctx \in Nat /\ NPredict \subseteq Nat

VARIABLES
  pc,       \* "start", "read", "truncate", "prefill", "decode", "answer", "done",
            \* "unread" (stdin failed), "error" (a turn or a completion did)
  opts,     \* the options: chat_mode, system, enable_thinking, n_predict
  history,  \* the conversation the program keeps
  msgs,     \* the copy encode_with_truncation works on
  tokens,   \* the encoded prompt
  gen,      \* the tokens of the answer
  printed,  \* what stdout has shown of it
  said      \* every message since the start or the last /reset

vars == <<pc, opts, history, msgs, tokens, gen, printed, said>>

FFFD == "FFFD" \* the replacement character

-----------------------------------------------------------------------------
(* The tokenizer.                                                          *)

Bytes(text, id) ==
  IF id \in stop_ids THEN text
  ELSE IF id = "lo" /\ text # <<>> /\ Last(text) = "hi" THEN Append(Front(text), "char")
  ELSE Append(text, id)

Text(ids) ==
  LET text[n \in 0..Len(ids)] == IF n = 0 THEN <<>> ELSE Bytes(text[n - 1], ids[n])
  IN text[Len(ids)]

\* Bytes that make no character decode to the replacement character.
Decode(ids) ==
  LET text == Text(ids)
  IN [i \in DOMAIN text |-> IF text[i] \in {"hi", "lo"} THEN FFFD ELSE text[i]]

Encode(text) ==
  FlattenSeq([i \in DOMAIN text |-> IF text[i] = "char" THEN <<"hi", "lo">> ELSE <<text[i]>>])

\* Mutant of Available: a trailing replacement character is shown at once.
AvailableAll(full) == Len(full)

\* How much of a decoded text may be shown: not a trailing replacement
\* character, which the next token may complete.
Available(full) == IF full # <<>> /\ Last(full) = FFFD THEN Len(full) - 1 ELSE Len(full)

\* StreamingDecoder::push: shown is what it returned for the tokens before.
Push(ids, shown) ==
  LET full == Decode(ids)
  IN IF Available(full) <= Len(shown) THEN shown
     ELSE shown \o SubSeq(full, Len(shown) + 1, Available(full))

-----------------------------------------------------------------------------
(* The template.                                                           *)

Message(role, text) == [role |-> role, content |-> text]

IsClose(c) == c = "</think>"

\* Mutant of Body: the text behind the first </think>.
BodyOfFirst(text) == SubSeq(text, SelectInSeq(text, IsClose) + 1, Len(text))

\* The text behind the last </think>, all of it if there is none.
Body(text) == SubSeq(text, SelectLastInSeq(text, IsClose) + 1, Len(text))

\* The text before the first </think>, behind the last <think> in it.
Reasoning(text) ==
  LET before == SubSeq(text, 1, SelectInSeq(text, IsClose) - 1)
  IN SubSeq(before, SelectLastInSeq(before, LAMBDA c : c = "<think>") + 1, Len(before))

IsUser(m) == m.role = "user"

\* render_chat succeeds: a user message, and no system message but the first.
Renders(ms) ==
  /\ \E i \in DOMAIN ms : IsUser(ms[i])
  /\ \A i \in DOMAIN ms : ms[i].role = "system" => i = 1

\* Answers behind the last question keep their reasoning.
RenderMessage(ms, i) ==
  LET text == ms[i].content
      shown == IF ms[i].role # "assistant" THEN text
               ELSE IF i > SelectLastInSeq(ms, IsUser)
                 THEN <<"<think>">> \o Reasoning(text) \o <<"</think>">> \o Body(text)
                 ELSE Body(text)
  IN <<ms[i].role>> \o shown \o <<"<|im_end|>">>

Render(ms) ==
  FlattenSeq([i \in DOMAIN ms |-> RenderMessage(ms, i)])
    \o <<"assistant", "<think>">>
    \o (IF opts.enable_thinking THEN <<>> ELSE <<"</think>">>)

-----------------------------------------------------------------------------
(* The program.                                                            *)

System == IF opts.system = <<>> THEN <<>> ELSE <<Message("system", opts.system)>>

Init ==
  /\ pc = "start"
  /\ opts \in [chat_mode : BOOLEAN, system : SystemPrompts,
               enable_thinking : BOOLEAN, n_predict : NPredict]
  /\ history = <<>> /\ msgs = <<>> /\ tokens = <<>>
  /\ gen = <<>> /\ printed = <<>> /\ said = <<>>

StartChat ==
  /\ pc = "start" /\ opts.chat_mode
  /\ history' = System /\ said' = System
  /\ pc' = "read"
  /\ UNCHANGED <<opts, msgs, tokens, gen, printed>>

StartCompletion(prompt) ==
  /\ pc = "start" /\ ~opts.chat_mode
  /\ tokens' = Encode(prompt)
  /\ pc' = "prefill"
  /\ UNCHANGED <<opts, history, msgs, gen, printed, said>>

\* A line that is no command. A blank line changes nothing.
Say(line) ==
  /\ pc = "read"
  /\ Len(said) < MaxConversation
  /\ history' = Append(history, Message("user", line))
  /\ said' = Append(said, Message("user", line))
  /\ msgs' = history'
  /\ pc' = "truncate"
  /\ UNCHANGED <<opts, tokens, gen, printed>>

\* /reset
Reset ==
  /\ pc = "read"
  /\ history' = System
  /\ said' = System
  /\ UNCHANGED <<pc, opts, msgs, tokens, gen, printed>>

\* /quit, /exit or the end of stdin.
Quit ==
  /\ pc = "read"
  /\ pc' = "done"
  /\ UNCHANGED <<opts, history, msgs, tokens, gen, printed, said>>

\* stdin cannot be read, or what it holds is not text: the error ends the
\* program.
ReadFails ==
  /\ pc = "read"
  /\ pc' = "unread"
  /\ UNCHANGED <<opts, history, msgs, tokens, gen, printed, said>>

SystemCount(ms) == IF ms # <<>> /\ ms[1].role = "system" THEN 1 ELSE 0

Droppable(ms) == Len(ms) - SystemCount(ms) - 1

HasRoom(ids) == Len(ids) + opts.n_predict <= max_ctx

\* Mutant of Enough: nothing more is dropped once the prompt alone fits.
EnoughForPrompt(ms) == Len(Encode(Render(ms))) <= max_ctx \/ Droppable(ms) = 0

Enough(ms) == HasRoom(Encode(Render(ms))) \/ Droppable(ms) = 0

\* Mutant of DropOldest: a question goes with its answer.
DropOldestTurn ==
  /\ pc = "truncate"
  /\ Renders(msgs) /\ ~Enough(msgs)
  /\ msgs' = RemoveAt(RemoveAt(msgs, SystemCount(msgs) + 1), SystemCount(msgs) + 1)
  /\ UNCHANGED <<pc, opts, history, tokens, gen, printed, said>>

\* One turn of the loop of encode_with_truncation.
DropOldest ==
  /\ pc = "truncate"
  /\ Renders(msgs) /\ ~Enough(msgs)
  /\ msgs' = RemoveAt(msgs, SystemCount(msgs) + 1)
  /\ UNCHANGED <<pc, opts, history, tokens, gen, printed, said>>

\* Its end: what was dropped is dropped for good, and the turn begins with a
\* fresh state and decoder.
Truncated ==
  /\ pc = "truncate"
  /\ Renders(msgs) => Enough(msgs)
  /\ IF Renders(msgs)
     THEN /\ history' = msgs
          /\ tokens' = Encode(Render(msgs))
          /\ pc' = "prefill"
     ELSE pc' = "error" /\ UNCHANGED <<history, tokens>>
  /\ UNCHANGED <<opts, msgs, gen, printed, said>>

Prefill ==
  /\ pc = "prefill"
  /\ pc' = IF Len(tokens) <= max_ctx THEN "decode" ELSE "error"
  /\ UNCHANGED <<opts, history, msgs, tokens, gen, printed, said>>

PrefillTurn == opts.chat_mode /\ Prefill

PrefillCompletion == ~opts.chat_mode /\ Prefill

\* Mutant of Generate: a stop token is an ordinary token.
GenerateOn(token) ==
  /\ pc = "decode" /\ Len(gen) < opts.n_predict
  /\ Len(tokens) + Len(gen) < max_ctx
  /\ gen' = Append(gen, token)
  /\ printed' = Push(gen', printed)
  /\ UNCHANGED <<pc, opts, history, msgs, tokens, said>>

\* One step of decoding, whose token is printed as far as it can be.
Generate(token) ==
  /\ pc = "decode" /\ Len(gen) < opts.n_predict
  /\ Len(tokens) + Len(gen) < max_ctx
  /\ gen' = Append(gen, token)
  /\ printed' = Push(gen', printed)
  /\ pc' = IF token \in stop_ids THEN "answer" ELSE "decode"
  /\ UNCHANGED <<opts, history, msgs, tokens, said>>

\* The loops of the chat and of the completion differ in what they log.
ChatStep(token) == opts.chat_mode /\ Generate(token)

CompletionStep(token) == ~opts.chat_mode /\ Generate(token)

\* The context is full: the error ends the program.
ContextFull ==
  /\ pc = "decode" /\ Len(gen) < opts.n_predict
  /\ Len(tokens) + Len(gen) >= max_ctx
  /\ pc' = "error"
  /\ UNCHANGED <<opts, history, msgs, tokens, gen, printed, said>>

Answered == pc = "answer" \/ (pc = "decode" /\ Len(gen) = opts.n_predict)

\* The answer joins the conversation, with what the stream withheld; the
\* turn's own variables go out of scope.
EndTurn ==
  /\ Answered /\ opts.chat_mode
  /\ history' = Append(history, Message("assistant", Decode(gen)))
  /\ said' = Append(said, Message("assistant", Decode(gen)))
  /\ msgs' = <<>> /\ tokens' = <<>> /\ gen' = <<>> /\ printed' = <<>>
  /\ pc' = "read"
  /\ UNCHANGED opts

EndCompletion ==
  /\ Answered /\ ~opts.chat_mode
  /\ pc' = "done"
  /\ UNCHANGED <<opts, history, msgs, tokens, gen, printed, said>>

Next ==
  \/ StartChat \/ \E prompt \in Prompts : StartCompletion(prompt)
  \/ \E line \in Lines : Say(line)
  \/ Reset \/ Quit \/ ReadFails
  \/ DropOldest \/ Truncated
  \/ PrefillTurn \/ PrefillCompletion
  \/ \E token \in Token : ChatStep(token) \/ CompletionStep(token)
  \/ ContextFull \/ EndTurn \/ EndCompletion

Spec == Init /\ [][Next]_vars

-----------------------------------------------------------------------------
(* Properties.                                                             *)

InTurn == pc \in {"prefill", "decode", "answer"}

\* The shape of the turn: an answer is no longer than asked for, nothing but
\* its end is a stop token, and no state consumes more than the context.
TypeOK ==
  /\ pc \in {"start", "read", "truncate", "prefill", "decode", "answer", "done",
            "unread", "error"}
  /\ gen \in Seq(Token) /\ Len(gen) <= opts.n_predict
  /\ \A i \in DOMAIN gen : gen[i] \in stop_ids => i = Len(gen)
  /\ pc = "decode" => Len(tokens) + Len(gen) <= max_ctx
  /\ \A ms \in {history, msgs, said} : \A i \in DOMAIN ms : ms[i].role = "system" => i = 1

\* What a turn of a chat asks the model is the longest end of the whole
\* conversation that leaves room for an answer, behind the system message, or
\* the question alone: nothing is lost before it must be, nothing out of the
\* middle, over any number of turns that dropped messages for good.
LongestEndThatFits ==
  opts.chat_mode /\ InTurn =>
    LET sys == Len(System)
        dropped == Len(said) - Len(history)
        End(n) == System \o SubSeq(said, sys + n + 1, Len(said))
    IN /\ dropped \in 0..(Len(said) - sys - 1)
       /\ history = End(dropped)
       /\ tokens = Encode(Render(history))
       /\ HasRoom(tokens) \/ Len(history) = sys + 1
       /\ dropped > 0 => ~HasRoom(Encode(Render(End(dropped - 1))))

\* The program fails in the middle of a turn only if one message, or the
\* prompt of a completion, leaves no room for the answer it asks for.
FailsOnlyWithoutRoom ==
  pc = "error" =>
    /\ ~HasRoom(tokens)
    /\ opts.chat_mode => history = Append(System, Last(said))

\* What stdout has shown is the beginning of the answer and never changes; it
\* lacks at most one character, a last one that is still incomplete.
Streamed ==
  LET full == Decode(gen)
  IN /\ IsPrefix(printed, full)
     /\ printed = full \/ (full = Append(printed, FFFD))

\* The text behind the last </think>, characterised by where that mark is:
\* no mark follows it, and 0 stands for none at all.
Behind(text) ==
  LET last == CHOOSE n \in 0..Len(text) :
                /\ n > 0 => IsClose(text[n])
                /\ \A i \in (n + 1)..Len(text) : ~IsClose(text[i])
  IN SubSeq(text, last + 1, Len(text))

\* The prompt that shows one text for each message of the history.
Showing(texts) ==
  Encode(FlattenSeq([i \in DOMAIN texts |-> <<history[i].role>> \o texts[i] \o <<"<|im_end|>">>])
           \o <<"assistant", "<think>">>
           \o (IF opts.enable_thinking THEN <<>> ELSE <<"</think>">>))

\* A prompt shows every message still kept, once and under its role: what
\* the user typed and the system message whole, whatever marks are in them,
\* and of an earlier answer nothing up to its last </think> and all that
\* stands behind it. An answer that closed nothing is there whole, reasoning
\* that was cut off included.
ReasoningDropped ==
  opts.chat_mode /\ InTurn =>
    tokens = Showing([i \in DOMAIN history |->
                       IF history[i].role = "assistant" THEN Behind(history[i].content)
                       ELSE history[i].content])
=============================================================================
