---------------------------- MODULE Conversations ----------------------------
(***************************************************************************)
(* Conversations with a model that calls tools: the research chat, which   *)
(* answers from tool results only, and the agent that estimates how much a *)
(* company's share moves with a trigger.  Both keep the conversation in    *)
(* the shape of one provider; the wrapper translates it for the other,     *)
(* which wants its calls answered by name and its hidden thoughts back.    *)
(***************************************************************************)
EXTENDS Integers, Sequences, SequencesExt, FiniteSets, Functions, Positions

CONSTANTS
  Chats, Agents,   \* requests at a time, and runs for one pair of share and trigger
  ChatReplies, AgentReplies,   \* bound: what a model may answer, see below
  Mentions,        \* bound: the refs an answer may mention, in its order
  TalkTurns,        \* CHAT_MAX_TURNS, RESEARCH_MAX_TURNS
  ToolAttempts,    \* GEMINI_TOOL_MAX_ATTEMPTS
  Budget,          \* BUDGET_USD, in calls
  MaxAsks, MaxTalkFaults   \* bounds

Talks == Chats \cup Agents

\* A reply is a sequence of parts: a text, which may be empty, or a call; some
\* are signed.  A call of `submit_exposure' has the period of its figures.
ASSUME ConversationAssumption ==
  /\ Chats \cap Agents = {} /\ IsFiniteSet(Chats) /\ TalkTurns \in Nat \ {0} /\ ToolAttempts \in Nat \ {0}
  /\ \A r \in ChatReplies \cup AgentReplies :
       /\ r \in Seq(Range(r))
       /\ \A i \in DOMAIN r : r[i].type \in {"text", "empty", "use"} /\ r[i].signed \in BOOLEAN
  /\ Budget \in Nat \ {0} /\ Mentions \subseteq Seq(Nat)

VARIABLES
  provider,    \* "gemini" or "claude"
  carries,     \* the library of the build has a field for signatures
  talk,        \* the conversations
  service,     \* the one that moves: they share no data
  spent,       \* research_chat_log: what this month's answers cost
  beta,        \* trigger_betas: the submission of the row, 0 for none
  exposure,    \* fundamental_exposures: of the row of each period
  runs, asks, talkFaults

build  == <<provider, carries, service>>
Tables == <<spent, beta, exposure>>
conversationVars == <<build, talk, Tables, runs, asks, talkFaults>>

NoPeriod   == "none"
Periods    == {"filing", "agent-derived"}
NoAnswer   == [refs |-> <<>>, cites |-> <<>>, text |-> <<>>, status |-> "none"]

\* `said' is a history: what the model said in the turns before.
NoTurn     == [at |-> "over", convo |-> <<>>, said |-> <<>>, turn |-> 0, attempt |-> 1,
               blocks |-> <<>>, left |-> <<>>, results |-> <<>>, issued |-> <<>>, used |-> 0,
               answer |-> NoAnswer, submitted |-> NoPeriod, run |-> 0]

ConversationInit ==
  /\ provider \in {"gemini", "claude"} /\ carries \in BOOLEAN
  /\ provider = "claude" => carries
  /\ service \in {Chats, Agents}
  /\ talk = [t \in Talks |-> NoTurn]
  /\ spent = 0 /\ beta = 0 /\ exposure = [p \in Periods |-> 0]
  /\ runs = 0 /\ asks = 0 /\ talkFaults = 0

TalkFault == talkFaults < MaxTalkFaults /\ talkFaults' = talkFaults + 1
Goes(t, next) == talk' = [talk EXCEPT ![t] = next]

-----------------------------------------------------------------------------
(* The wrapper.                                                            *)

\* A signature is read from a part only where the library has a field for it.
Signature(part, place) == IF carries /\ provider = "gemini" /\ part.signed THEN place ELSE <<>>

BlockOf(part, place) ==
  [type |-> IF part.type = "use" THEN "use" ELSE "text", name |-> part.name,
   empty |-> part.type = "empty", id |-> IF part.type = "use" THEN place ELSE <<>>,
   sig |-> Signature(part, place)]

\* A text is kept for its words or for its signature.
Keeps(block) == block.type = "use" \/ ~block.empty \/ block.sig # <<>>

\* _wrap_gemini_response, _wrap_anthropic_response: the parts become blocks; a
\* call gets an id, and what is neither text nor call nor signature is dropped.
Blocks(reply, turn) ==
  LET all == [i \in DOMAIN reply |-> BlockOf(reply[i], <<turn, i>>)]
  IN  Those(all, {i \in DOMAIN all : Keeps(all[i])})

Uses(blocks) == Those(blocks, {i \in DOMAIN blocks : blocks[i].type = "use"})

\* Mutant: a block without text is left out of the history.
AssistantContent_NoHidden(blocks) ==
  Those(blocks, {i \in DOMAIN blocks : blocks[i].type = "use" \/ ~blocks[i].empty})

\* assistant_content
AssistantContent(blocks) == Those(blocks, {i \in DOMAIN blocks : Keeps(blocks[i])})

Turn(role, blocks) == [role |-> role, blocks |-> blocks]

\* _gemini_translate: a result is sent under the name of the call that has its
\* id, looked up over the whole conversation.
NameOf(convo, id) ==
  LET calls == {b \in UNION {ToSet(convo[i].blocks) : i \in DOMAIN convo} :
                  b.type = "use" /\ b.id = id}
  IN  IF calls = {} THEN "" ELSE (CHOOSE b \in calls : TRUE).name

Sent(convo) ==
  [i \in DOMAIN convo |->
     Turn(convo[i].role,
          [k \in DOMAIN convo[i].blocks |->
             LET b == convo[i].blocks[k]
             IN  IF b.type = "result" /\ provider = "gemini"
                 THEN [b EXCEPT !.name = NameOf(convo, b.id)] ELSE b])]

\* What the provider wants to see of a turn: the model's own words with their
\* signatures, and after it one answer for each of its calls, in their order.
Replayed(blocks, parts, turn) ==
  LET kept == {i \in DOMAIN parts :
                 parts[i].type # "empty" \/ (provider = "gemini" /\ parts[i].signed)}
      own  == Sorted(kept)
  IN  /\ Len(blocks) = Len(own)
      /\ \A k \in DOMAIN own :
           /\ (blocks[k].type = "use") <=> (parts[own[k]].type = "use")
           /\ blocks[k].name = parts[own[k]].name
           /\ blocks[k].sig = IF provider = "gemini" /\ parts[own[k]].signed
                              THEN <<turn, own[k]>> ELSE <<>>

Answered(calls, results) ==
  /\ Len(results) = Len(calls)
  /\ \A k \in DOMAIN calls :
       /\ results[k].type = "result" /\ results[k].of = calls[k].id
       /\ IF provider = "gemini" THEN results[k].name = calls[k].name
          ELSE results[k].id = calls[k].id

Accepted(t) ==
  LET request == Sent(talk[t].convo)
  IN  /\ Len(request) = 2 * Len(talk[t].said)
      /\ \A n \in DOMAIN talk[t].said :
           /\ request[2 * n - 1].role = "assistant" /\ request[2 * n].role = "user"
           /\ Replayed(request[2 * n - 1].blocks, talk[t].said[n], n)
           /\ Answered(Uses(request[2 * n - 1].blocks), request[2 * n].blocks)

-----------------------------------------------------------------------------
(* The request of a chat, the start of an agent.                           *)

Opened(t) == [NoTurn EXCEPT !.at = "asking", !.turn = 1]

\* Mutant: the budget is not looked at.
MayAsk_Always(cost) == TRUE

\* _month_spend: the budget is compared with what is logged by now.
MayAsk(cost) == cost < Budget

Ask(t) ==
  /\ t \in Chats /\ talk[t].at = "over" /\ asks < MaxAsks /\ asks' = asks + 1
  /\ IF MayAsk(spent) THEN Goes(t, Opened(t)) ELSE UNCHANGED talk
  /\ UNCHANGED <<build, Tables, runs, talkFaults>>

\* _build_target_pairs: a pair with a fresh row of the agent is left out.
ResearchPair(t, force) ==
  /\ t \in Agents /\ talk[t].at = "over" /\ asks < MaxAsks /\ asks' = asks + 1
  /\ beta = 0 \/ force
  /\ runs' = runs + 1 /\ Goes(t, [Opened(t) EXCEPT !.run = runs + 1])
  /\ UNCHANGED <<build, Tables, talkFaults>>

-----------------------------------------------------------------------------
(* A turn.                                                                 *)

\* The answer's text with the refs it may keep, and their citations, which come
\* in the order of first use: finalize_answer.
Kept(mentions, issued) == Those(mentions, {i \in DOMAIN mentions : mentions[i] \in DOMAIN issued})

FirstUses(refs) ==
  Those(refs, {i \in DOMAIN refs : \A j \in 1..(i - 1) : refs[j] # refs[i]})

Silent(now, status) == [now EXCEPT !.at = "log", !.answer.status = status]

Answer(t, mentions) ==
  LET text == Kept(mentions, talk[t].issued)
  IN  [refs |-> FirstUses(text), text |-> text, status |-> "ok",
       cites |-> [i \in DOMAIN FirstUses(text) |-> talk[t].issued[FirstUses(text)[i]]]]

\* The model answers with calls or, at last, with words only.
Reply(t, reply) ==
  /\ talk[t].at = "asking" /\ Accepted(t)
  /\ LET blocks == Blocks(reply, talk[t].turn)
         now == [talk[t] EXCEPT !.used = @ + 1, !.attempt = 1, !.blocks = blocks,
                                !.left = Uses(blocks), !.results = <<>>]
     IN  IF Uses(blocks) # <<>>
         THEN Goes(t, [now EXCEPT !.at = "tools", !.said = Append(@, reply)])
         ELSE IF t \in Agents THEN Goes(t, NoTurn)
         ELSE IF \A i \in DOMAIN blocks : blocks[i].empty THEN Goes(t, Silent(now, "no_answer"))
         ELSE \E m \in Mentions : Goes(t, [now EXCEPT !.at = "log", !.answer = Answer(t, m)])
  /\ UNCHANGED <<build, Tables, runs, asks, talkFaults>>

\* A call that came out malformed is asked for again; the last one is taken for
\* an answer without parts.
Malformed(t) ==
  /\ talk[t].at = "asking" /\ provider = "gemini" /\ Accepted(t)
  /\ talk[t].attempt < ToolAttempts /\ TalkFault
  /\ Goes(t, [talk[t] EXCEPT !.attempt = @ + 1])
  /\ UNCHANGED <<build, Tables, runs, asks>>

\* The call fails or is refused, or takes longer than its budget: the agent
\* gives up, the chat answers with an error and logs a call that cost nothing.
ModelError(t) ==
  /\ talk[t].at = "asking"
  /\ IF Accepted(t) THEN TalkFault ELSE UNCHANGED talkFaults
  /\ Goes(t, IF t \in Agents THEN NoTurn
             ELSE Silent([talk[t] EXCEPT !.used = 0], "model_error"))
  /\ UNCHANGED <<build, Tables, runs, asks>>

\* The conversation goes on with another turn, unless this was the last one.
NextTurn(now) ==
  LET convo == now.convo \o <<Turn("assistant", AssistantContent(now.blocks)),
                              Turn("user", now.results)>>
  IN  IF now.submitted # NoPeriod THEN [now EXCEPT !.at = "beta"]
      ELSE IF now.turn < TalkTurns
      THEN [now EXCEPT !.at = "asking", !.turn = @ + 1, !.convo = convo, !.blocks = <<>>,
                       !.results = <<>>]
      ELSE Silent(now, "no_answer")

\* Mutant: the refs are counted from one again in every turn.
NextRef_PerTurn(now) == Len(now.results) + 1

\* ref_n
NextRef(now) == Len(now.issued) + 1

\* _citation_from: a citation points to the result it was issued for.
Citation(call) == call.id

\* One call of the turn is answered, with data or with the error it met: its
\* result is a block, for the chat it gets a ref, and of an agent's submissions
\* the last one counts.
RunTool(t) ==
  /\ talk[t].at = "tools"
  /\ LET now  == talk[t]
         call == Head(now.left)
         ref  == NextRef(now)
         result == [type |-> "result", name |-> "", id |-> call.id, of |-> call.id,
                    ref |-> IF t \in Chats THEN ref ELSE 0]
         told == [now EXCEPT
           !.left = Tail(@), !.results = Append(@, result),
           !.issued = IF t \in Agents THEN @
                      ELSE [r \in DOMAIN @ \cup {ref} |-> IF r = ref THEN Citation(call) ELSE now.issued[r]],
           !.submitted = IF call.name \in Periods \cup {"nothing"} THEN call.name ELSE @]
         next == NextTurn(told)
     IN  Goes(t, IF told.left # <<>> THEN told
                 ELSE IF next.at = "log" /\ t \in Agents THEN NoTurn ELSE next)
  /\ UNCHANGED <<build, Tables, runs, asks, talkFaults>>

-----------------------------------------------------------------------------
(* The end.                                                                *)

\* The audit row, which alone counts against the budget; the answer is given
\* even if it is not written.
LogAnswer(t) ==
  /\ talk[t].at = "log"
  /\ \/ spent' = spent + talk[t].used /\ UNCHANGED talkFaults
     \/ TalkFault /\ UNCHANGED spent
  /\ Goes(t, NoTurn)
  /\ UNCHANGED <<build, beta, exposure, runs, asks>>

\* _persist: one transaction for the beta ...
WriteBeta(t) ==
  /\ talk[t].at = "beta"
  /\ \/ /\ beta' = talk[t].run /\ UNCHANGED talkFaults
        /\ Goes(t, IF talk[t].submitted \in Periods THEN [talk[t] EXCEPT !.at = "exposure"] ELSE NoTurn)
     \/ TalkFault /\ Goes(t, NoTurn) /\ UNCHANGED beta
  /\ UNCHANGED <<build, spent, exposure, runs, asks>>

\* ... and one for the exposure, of the period that a filing is cited for.
WriteExposure(t) ==
  /\ talk[t].at = "exposure"
  /\ \/ exposure' = [exposure EXCEPT ![talk[t].submitted] = talk[t].run] /\ UNCHANGED talkFaults
     \/ TalkFault /\ UNCHANGED exposure
  /\ Goes(t, NoTurn)
  /\ UNCHANGED <<build, spent, beta, runs, asks>>

TalkStep(t) ==
  \/ Ask(t) \/ ResearchPair(t, FALSE) \/ ResearchPair(t, TRUE)
  \/ \E reply \in IF t \in Chats THEN ChatReplies ELSE AgentReplies : Reply(t, reply)
  \/ Malformed(t) \/ ModelError(t) \/ RunTool(t)
  \/ LogAnswer(t) \/ WriteBeta(t) \/ WriteExposure(t)

ConversationNext == \E t \in service : TalkStep(t)

ConversationSpec == ConversationInit /\ [][ConversationNext]_conversationVars

-----------------------------------------------------------------------------
(* Properties.                                                             *)

ConversationTypeOK ==
  /\ provider \in {"gemini", "claude"} /\ carries \in BOOLEAN /\ service \subseteq Talks
  /\ \A t \in Talks : talk[t].at \in {"asking", "tools", "log", "beta", "exposure", "over"}
                      /\ talk[t].turn \in 0..TalkTurns
  /\ {spent, beta} \subseteq Nat /\ DOMAIN exposure = Periods

\* Whatever the model says in the turns before, hidden thoughts and several
\* calls of one tool included, every further request gives it back its own words
\* and answers each of its calls, so that the provider takes it (wrapper.py:708,
\* "drop it and the next turn 400s"): only a build whose library has no field
\* for signatures is refused.
HistoryAccepted == \A t \in Talks : talk[t].at = "asking" /\ carries => Accepted(t)

\* An answer cites what this conversation looked up and nothing else: under each
\* ref of its text the model was shown one result, the one that is cited, and
\* the citations come once each in the order of their first use.
AnswerGrounded ==
  \A t \in Chats : talk[t].at = "log" /\ talk[t].answer.status = "ok" =>
    LET answer  == talk[t].answer
        results == {b \in UNION {ToSet(talk[t].convo[i].blocks) : i \in DOMAIN talk[t].convo} :
                      b.type = "result"}
    IN  /\ ToSet(answer.text) = ToSet(answer.refs)
        /\ IsInjective(answer.refs) /\ Len(answer.cites) = Len(answer.refs)
        /\ \A i \in DOMAIN answer.refs :
             /\ {b.of : b \in {b \in results : b.ref = answer.refs[i]}} = {answer.cites[i]}
             /\ \A k \in DOMAIN answer.refs : i < k =>
                  \E a \in DOMAIN answer.text :
                    /\ answer.text[a] = answer.refs[i]
                    /\ \A b \in DOMAIN answer.text : answer.text[b] = answer.refs[k] => a < b

\* What a month's logged answers cost passes the budget by no more than the
\* requests that were under way together (research_chat.py:29, "one in-flight
\* ask can overshoot by its own cost at most").
BudgetOvershot == spent < Budget + Cardinality(Chats) * TalkTurns

=============================================================================
