-------------------------- MODULE Knowledge_proofs --------------------------
(***************************************************************************)
(* Proofs about the talks with a model: what they cost a month is bounded  *)
(* whatever runs at once (BudgetOvershotHolds). The invariant it needs     *)
(* counts the talks that are open, which may each still cost their turns.  *)
(* A talk accounts for what it gives out (TalkSoundHolds): its invariant   *)
(* says, turn by turn, what the conversation holds of what was said, which *)
(* calls are answered, and for which result each ref was issued.           *)
(* The owners of a company are traced to what it filed                     *)
(* (HoldingsTracedHolds): while a sweep reads a listing, its invariant     *)
(* says of the part that is read what the table will say of the whole.     *)
(* KnowledgeCompose says that the services of MC_Knowledge do not disturb  *)
(* each other.                                                             *)
(***************************************************************************)
EXTENDS MC_Knowledge, SequenceLemmas

-----------------------------------------------------------------------------
(* Conversations.                                                          *)

\* What a talk is at: how far it is and what it cost so far.
TalkFields == {"at", "convo", "said", "turn", "attempt", "blocks", "left", "results",
               "issued", "used", "answer", "submitted", "run"}

TalkOK(r) ==
  /\ r = [x \in TalkFields |-> r[x]]
  /\ r.at \in {"asking", "tools", "log", "beta", "exposure", "over"}
  /\ r.turn \in 0..TalkTurns /\ r.used \in Nat /\ r.run \in Nat
  /\ r.used <= r.turn
  /\ r.at = "asking" => r.used < r.turn

\* The requests under way.
Open(talks) == {t \in Chats : talks[t].at # "over"}

TalksOK ==
  /\ talk = [t \in Talks |-> talk[t]] /\ \A t \in Talks : TalkOK(talk[t])
  /\ \A t \in Agents : talk[t].at # "log"

TablesOK ==
  /\ provider \in {"gemini", "claude"} /\ carries \in BOOLEAN /\ service \subseteq Talks
  /\ spent \in Nat /\ beta \in Nat /\ runs \in Nat /\ DOMAIN exposure = Periods

\* What an answer may add is bounded by what is open.
Within(cost, talks) ==
  cost < Budget \/ cost + Cardinality(Open(talks)) * TalkTurns
                     < Budget + Cardinality(Chats) * TalkTurns

TalkInv == TablesOK /\ TalksOK /\ Within(spent, talk)

LEMMA TalkConstants ==
  /\ IsFiniteSet(Chats) /\ TalkTurns \in Nat \ {0} /\ Budget \in Nat \ {0}
  /\ Chats \cap Agents = {} /\ Chats \subseteq Talks /\ Agents \subseteq Talks
BY ConversationAssumption DEF Talks

LEMMA NoTurnOK == TalkOK(NoTurn) /\ NoTurn.at = "over" /\ NoTurn.used = 0
BY TalkConstants DEF NoTurn, TalkOK, TalkFields

LEMMA OpenedOK ==
  ASSUME NEW n \in Nat
  PROVE  TalkOK(Opened(0)) /\ \A t : Opened(t) = Opened(0) /\ TalkOK([Opened(t) EXCEPT !.run = n])
<1>1. \A t : Opened(t) = [NoTurn EXCEPT !.at = "asking", !.turn = 1]
  BY DEF Opened
<1>2. 1 \in 0..TalkTurns
  BY TalkConstants
<1> DEFINE r == [NoTurn EXCEPT !.at = "asking", !.turn = 1]
<1>3. /\ r = [x \in TalkFields |-> r[x]] /\ r.at = "asking" /\ r.turn = 1
      /\ r.used = 0 /\ r.run \in Nat
  BY NoTurnOK DEF TalkOK, TalkFields
<1> HIDE DEF r
<1>4. TalkOK(r)
  BY <1>2, <1>3 DEF TalkOK
<1>5. TalkOK([r EXCEPT !.run = n])
  BY <1>4 DEF TalkOK, TalkFields
<1>6. \A t : Opened(t) = r
  BY <1>1 DEF r
<1> QED BY <1>4, <1>5, <1>6

LEMMA Times ==
  ASSUME NEW T \in Nat \ {0}, NEW n \in Nat
  PROVE  n * T \in Nat /\ (n + 1) * T = n * T + T
OBVIOUS

LEMMA OpenFinite ==
  ASSUME NEW talks
  PROVE  IsFiniteSet(Open(talks)) /\ Cardinality(Open(talks)) \in Nat
BY TalkConstants, FS_Subset, FS_CardinalityType DEF Open

\* A step opens, closes or moves one talk and adds no more than the talk cost.
LEMMA WithinKept ==
  ASSUME NEW t \in Talks, NEW r, TalksOK, TalkOK(r), NEW cost \in Nat, NEW more \in Nat,
         Within(cost, talk), more \in {0, talk[t].used},
         t \in Chats /\ talk[t].at = "over" /\ r.at # "over" => cost < Budget,
         more # 0 => t \in Chats /\ talk[t].at # "over" /\ r.at = "over"
  PROVE  Within(cost + more, [talk EXCEPT ![t] = r])
<1> DEFINE next == [talk EXCEPT ![t] = r]
<1>1. next[t] = r /\ \A u \in Talks : u # t => next[u] = talk[u]
  BY DEF TalksOK
<1>2. more \in 0..TalkTurns /\ TalkTurns \in Nat \ {0} /\ Budget \in Nat
  BY TalkConstants DEF TalksOK, TalkOK
<1> HIDE DEF next
<1> DEFINE a == Cardinality(Open(talk))
           b == Cardinality(Open(next))
           c == Cardinality(Chats)
<1>3. a \in Nat /\ b \in Nat /\ c \in Nat
  BY OpenFinite, TalkConstants, FS_CardinalityType
<1>4. \A u \in Chats : u \in Talks
  BY TalkConstants
<1>5. CASE Open(next) = Open(talk) /\ more = 0
  BY <1>5, <1>3 DEF Within, next
<1>6. CASE t \in Chats /\ talk[t].at = "over" /\ r.at # "over"
  BY <1>6, <1>2 DEF Within, next
<1>7. CASE t \in Chats /\ talk[t].at # "over" /\ r.at = "over"
  <2>1. Open(next) = Open(talk) \ {t} /\ t \in Open(talk)
    BY <1>1, <1>4, <1>7 DEF Open
  <2>2. b = a - 1
    BY <2>1, OpenFinite, FS_RemoveElement
  <2>3. b + 1 <= c
    BY <2>2, <1>3, TalkConstants, FS_Subset DEF Open
  <2> HIDE DEF a, b, c
  <2>4. a * TalkTurns = b * TalkTurns + TalkTurns /\ b * TalkTurns \in Nat
    BY <2>2, <1>2, <1>3, Times
  <2>5. b * TalkTurns + TalkTurns <= c * TalkTurns /\ c * TalkTurns \in Nat
    <3>1. PICK d \in Nat : c = b + 1 + d
      <4>1. c - b - 1 \in Nat /\ c = b + 1 + (c - b - 1)
        BY <2>3, <1>3
      <4> QED BY <4>1
    <3>2. (b + 1 + d) * TalkTurns = b * TalkTurns + TalkTurns + d * TalkTurns
      BY <1>2, <1>3
    <3>3. d * TalkTurns \in Nat /\ b * TalkTurns \in Nat
      BY <1>2, <1>3
    <3> QED BY <3>1, <3>2, <3>3, <1>2, <1>3
  <2>6. CASE cost < Budget
    <3>1. cost + more + b * TalkTurns < Budget + c * TalkTurns
      BY <2>4, <2>5, <2>6, <1>2
    <3> QED BY <3>1 DEF Within, b, c, next
  <2>7. CASE cost + a * TalkTurns < Budget + c * TalkTurns
    <3>1. cost + more + b * TalkTurns < Budget + c * TalkTurns
      BY <2>4, <2>5, <2>7, <1>2
    <3> QED BY <3>1 DEF Within, b, c, next
  <2> QED BY <2>6, <2>7 DEF Within, a, c
<1>8. ASSUME ~(t \in Chats /\ talk[t].at = "over" /\ r.at # "over"),
             ~(t \in Chats /\ talk[t].at # "over" /\ r.at = "over")
      PROVE  Open(next) = Open(talk) /\ more = 0
  BY <1>1, <1>4, <1>8 DEF Open
<1> QED BY <1>5, <1>6, <1>7, <1>8

LEMMA TalksMove ==
  ASSUME NEW t \in Talks, NEW r, TalksOK, TalkOK(r), talk' = [talk EXCEPT ![t] = r],
         t \in Agents => r.at # "log"
  PROVE  TalksOK'
BY TalkConstants DEF TalksOK

-----------------------------------------------------------------------------
(* What the steps do to a talk.                                            *)

LEMMA SilentOK ==
  ASSUME NEW r, TalkOK(r), NEW status
  PROVE  TalkOK(Silent(r, status)) /\ Silent(r, status).at = "log"
BY DEF TalkOK, TalkFields, Silent

\* Another turn or the end of the talk.
LEMMA NextTurnOK ==
  ASSUME NEW r, TalkOK(r)
  PROVE  TalkOK(NextTurn(r)) /\ NextTurn(r).at \in {"beta", "asking", "log"}
<1> DEFINE convo == r.convo \o <<Turn("assistant", AssistantContent(r.blocks)),
                                 Turn("user", r.results)>>
<1> HIDE DEF convo
<1>1. CASE r.submitted # NoPeriod
  <2>1. NextTurn(r) = [r EXCEPT !.at = "beta"]
    BY <1>1 DEF NextTurn
  <2> QED BY <2>1 DEF TalkOK, TalkFields
<1>2. CASE r.submitted = NoPeriod /\ r.turn < TalkTurns
  <2>1. NextTurn(r) = [r EXCEPT !.at = "asking", !.turn = @ + 1, !.convo = convo, !.blocks = <<>>,
                                !.results = <<>>]
    BY <1>2 DEF NextTurn, convo
  <2>2. r.turn + 1 \in 0..TalkTurns /\ r.used < r.turn + 1 /\ r.used <= r.turn + 1
    BY <1>2, TalkConstants DEF TalkOK
  <2> QED BY <2>1, <2>2 DEF TalkOK, TalkFields
<1>3. CASE r.submitted = NoPeriod /\ ~(r.turn < TalkTurns)
  <2>1. NextTurn(r) = Silent(r, "no_answer")
    BY <1>3 DEF NextTurn
  <2> QED BY <2>1, SilentOK
<1> QED BY <1>1, <1>2, <1>3

\* One step of a talk.
Moves(t, r, more) ==
  /\ TalkOK(r) /\ talk' = [talk EXCEPT ![t] = r]
  /\ spent' = spent + more /\ more \in {0, talk[t].used}
  /\ t \in Agents => r.at # "log"
  /\ t \in Chats /\ talk[t].at = "over" /\ r.at # "over" => spent < Budget
  /\ more # 0 => t \in Chats /\ talk[t].at # "over" /\ r.at = "over"

LEMMA Moved ==
  ASSUME TalkInv, NEW t \in Talks, NEW r, TalkOK(r), Goes(t, r), spent' = spent,
         talk[t].at # "over" \/ t \notin Chats, t \in Agents => r.at # "log"
  PROVE  Moves(t, r, 0)
<1>1. spent + 0 = spent
  BY DEF TalkInv, TablesOK
<1> QED BY <1>1 DEF Moves, Goes

LEMMA AskMoves ==
  ASSUME TalkInv, NEW t \in Talks, Ask(t)
  PROVE  (\E r : Moves(t, r, 0)) \/ UNCHANGED <<talk, spent>>
<1>1. CASE MayAsk(spent)
  <2>1. talk' = [talk EXCEPT ![t] = Opened(t)] /\ spent' = spent /\ spent < Budget
    BY <1>1 DEF Ask, Goes, Tables, MayAsk
  <2>2. TalkOK(Opened(t))
    BY OpenedOK
  <2>4. Opened(t).at = "asking"
    BY NoTurnOK DEF Opened, TalkOK, TalkFields
  <2>3. Moves(t, Opened(t), 0)
    BY <2>1, <2>2, <2>4 DEF Moves, TalkInv, TablesOK
  <2> QED BY <2>3
<1>2. CASE ~MayAsk(spent)
  BY <1>2 DEF Ask, Tables
<1> QED BY <1>1, <1>2

LEMMA ResearchMoves ==
  ASSUME TalkInv, NEW t \in Talks, NEW force, ResearchPair(t, force)
  PROVE  \E r : Moves(t, r, 0)
<1> DEFINE r == [Opened(t) EXCEPT !.run = runs + 1]
<1>1. talk' = [talk EXCEPT ![t] = r] /\ spent' = spent /\ t \in Agents
  BY DEF ResearchPair, Goes, Tables
<1>2. TalkOK(r)
  <2>1. runs + 1 \in Nat
    BY DEF TalkInv, TablesOK
  <2> HIDE DEF r
  <2> QED BY <2>1, OpenedOK DEF r
<1>3. t \notin Chats
  BY <1>1, TalkConstants
<1>5. r.at # "log"
  BY NoTurnOK DEF Opened, TalkOK, TalkFields
<1> HIDE DEF r
<1>4. Moves(t, r, 0)
  BY <1>1, <1>2, <1>3, <1>5, Moved DEF Goes
<1> QED BY <1>4

LEMMA ReplyMoves ==
  ASSUME TalkInv, NEW t \in Talks, NEW reply, Reply(t, reply)
  PROVE  \E r : Moves(t, r, 0)
<1> DEFINE blocks == Blocks(reply, talk[t].turn)
           left == Uses(blocks)
           now == [talk[t] EXCEPT !.used = @ + 1, !.attempt = 1, !.blocks = blocks,
                                  !.left = left, !.results = <<>>]
           said == Append(talk[t].said, reply)
<1>1. /\ talk[t].at = "asking" /\ spent' = spent
      /\ \/ Goes(t, [now EXCEPT !.at = "tools", !.said = Append(@, reply)])
         \/ Goes(t, NoTurn)
         \/ t \notin Agents /\ Goes(t, Silent(now, "no_answer"))
         \/ t \notin Agents /\ \E m \in Mentions : Goes(t, [now EXCEPT !.at = "log", !.answer = Answer(t, m)])
  BY DEF Reply, Tables
<1>2. TalkOK(talk[t]) /\ talk[t].used + 1 <= talk[t].turn
  <2>1. TalkOK(talk[t])
    BY DEF TalkInv, TalksOK
  <2>2. talk[t].used \in Nat /\ talk[t].turn \in Nat /\ talk[t].used < talk[t].turn
    <3>1. talk[t].used \in Nat /\ talk[t].turn \in 0..TalkTurns /\ talk[t].used < talk[t].turn
      BY <2>1, <1>1 DEF TalkOK
    <3> QED BY <3>1, TalkConstants
  <2> QED BY <2>1, <2>2
<1>3. spent + 0 = spent
  BY DEF TalkInv, TablesOK
<1> HIDE DEF blocks, left
<1>5. now = [x \in TalkFields |-> now[x]]
  BY <1>2 DEF TalkOK, TalkFields
<1>6. /\ now.turn = talk[t].turn /\ now.run = talk[t].run /\ now.used = talk[t].used + 1
      /\ now.at = "asking"
  BY <1>1, <1>2 DEF TalkOK, TalkFields
<1>7. now.turn \in 0..TalkTurns /\ now.run \in Nat /\ now.used \in Nat /\ now.used <= now.turn
  BY <1>2, <1>6 DEF TalkOK
<1> HIDE DEF now
<1>8. ASSUME NEW r, TalkOK(r), Goes(t, r), t \in Agents => r.at # "log" PROVE Moves(t, r, 0)
  BY <1>1, <1>3, <1>8 DEF Moves, Goes
<1>9. ASSUME NEW a \in {"tools", "log"}, NEW f \in {"said", "answer"}, NEW v
      PROVE  TalkOK([now EXCEPT !.at = a, ![f] = v]) /\ [now EXCEPT !.at = a, ![f] = v].at = a
  BY <1>5, <1>7 DEF TalkOK, TalkFields
<1>10. CASE Goes(t, [now EXCEPT !.at = "tools", !.said = Append(@, reply)])
  BY <1>8, <1>9, <1>10
<1>11. CASE Goes(t, NoTurn)
  BY <1>8, <1>11, NoTurnOK
<1>12. CASE t \notin Agents /\ Goes(t, Silent(now, "no_answer"))
  <2>1. TalkOK(Silent(now, "no_answer"))
    BY <1>5, <1>7 DEF TalkOK, TalkFields, Silent
  <2> QED BY <1>8, <1>12, <2>1
<1>13. CASE t \notin Agents /\ \E m \in Mentions : Goes(t, [now EXCEPT !.at = "log", !.answer = Answer(t, m)])
  BY <1>8, <1>9, <1>13
<1> QED BY <1>1, <1>10, <1>11, <1>12, <1>13

LEMMA MalformedMoves ==
  ASSUME TalkInv, NEW t \in Talks, Malformed(t)
  PROVE  \E r : Moves(t, r, 0)
<1> DEFINE r == [talk[t] EXCEPT !.attempt = @ + 1]
<1>1. talk' = [talk EXCEPT ![t] = r] /\ spent' = spent /\ talk[t].at = "asking"
  BY DEF Malformed, Goes, Tables
<1>2. TalkOK(r)
  BY DEF TalkOK, TalkFields, TalkInv, TalksOK
<1>3. Moves(t, r, 0)
  BY <1>1, <1>2 DEF Moves, TalkInv, TablesOK
<1> QED BY <1>3

LEMMA ModelErrorMoves ==
  ASSUME TalkInv, NEW t \in Talks, ModelError(t)
  PROVE  \E r : Moves(t, r, 0)
<1> DEFINE free == [talk[t] EXCEPT !.used = 0]
           r == IF t \in Agents THEN NoTurn ELSE Silent(free, "model_error")
<1>1. talk' = [talk EXCEPT ![t] = r] /\ spent' = spent /\ talk[t].at = "asking"
  BY DEF ModelError, Goes, Tables
<1>2. TalkOK(free)
  BY <1>1 DEF TalkOK, TalkFields, TalkInv, TalksOK
<1> HIDE DEF free
<1>3. TalkOK(r)
  BY <1>2, SilentOK, NoTurnOK
<1>5. t \in Agents => r.at # "log"
  BY NoTurnOK
<1> HIDE DEF r
<1>4. Moves(t, r, 0)
  BY <1>1, <1>3, <1>5, Moved DEF Goes
<1> QED BY <1>4

LEMMA RunToolMoves ==
  ASSUME TalkInv, NEW t \in Talks, RunTool(t)
  PROVE  \E r : Moves(t, r, 0)
<1> DEFINE now  == talk[t]
           call == Head(now.left)
           ref  == NextRef(now)
           result == [type |-> "result", name |-> "", id |-> call.id, of |-> call.id,
                      ref |-> IF t \in Chats THEN ref ELSE 0]
           told == [now EXCEPT
             !.left = Tail(@), !.results = Append(@, result),
             !.issued = IF t \in Agents THEN @
                        ELSE [n \in DOMAIN @ \cup {ref} |-> IF n = ref THEN Citation(call) ELSE now.issued[n]],
             !.submitted = IF call.name \in Periods \cup {"nothing"} THEN call.name ELSE @]
           next == NextTurn(told)
           r == IF told.left # <<>> THEN told
                ELSE IF next.at = "log" /\ t \in Agents THEN NoTurn ELSE next
<1>1. talk' = [talk EXCEPT ![t] = r] /\ spent' = spent /\ talk[t].at = "tools"
  BY DEF RunTool, Goes, Tables
<1> HIDE DEF call, ref, result
<1>2. TalkOK(told)
  BY DEF TalkOK, TalkFields, TalkInv, TalksOK
<1>5. told.at = "tools"
  BY <1>1 DEF TalkOK, TalkFields, TalkInv, TalksOK
<1> HIDE DEF told
<1>3. TalkOK(r)
  BY <1>2, NextTurnOK, NoTurnOK
<1>6. t \in Agents => r.at # "log"
  BY <1>5, NoTurnOK
<1> HIDE DEF r
<1>4. Moves(t, r, 0)
  BY <1>1, <1>3, <1>6, Moved DEF Goes
<1> QED BY <1>4

LEMMA LogAnswerMoves ==
  ASSUME TalkInv, NEW t \in Talks, t \in Chats, LogAnswer(t)
  PROVE  \E more \in Nat : Moves(t, NoTurn, more)
<1>1. talk' = [talk EXCEPT ![t] = NoTurn] /\ talk[t].at = "log"
  BY DEF LogAnswer, Goes
<1>2. talk[t].used \in Nat /\ spent \in Nat
  BY DEF TalkInv, TalksOK, TalkOK, TablesOK
<1>3. CASE spent' = spent + talk[t].used
  BY <1>1, <1>2, <1>3, NoTurnOK DEF Moves
<1>4. CASE spent' = spent
  <2>1. Moves(t, NoTurn, 0)
    BY <1>1, <1>2, <1>4, NoTurnOK DEF Moves
  <2> QED BY <2>1
<1> QED BY <1>3, <1>4 DEF LogAnswer

LEMMA WriteBetaMoves ==
  ASSUME TalkInv, NEW t \in Talks, WriteBeta(t)
  PROVE  (\E r : Moves(t, r, 0)) /\ beta' \in Nat
<1> DEFINE on == [talk[t] EXCEPT !.at = "exposure"]
<1>1. /\ talk[t].at = "beta" /\ spent' = spent /\ (Goes(t, on) \/ Goes(t, NoTurn))
      /\ beta' \in {beta, talk[t].run}
  BY DEF WriteBeta
<1>2. TalkOK(on) /\ on.at = "exposure"
  BY DEF TalkOK, TalkFields, TalkInv, TalksOK
<1> HIDE DEF on
<1>3. ASSUME Goes(t, on) PROVE \E r : Moves(t, r, 0)
  BY <1>1, <1>2, <1>3, Moved
<1>4. ASSUME Goes(t, NoTurn) PROVE \E r : Moves(t, r, 0)
  BY <1>1, <1>4, NoTurnOK, Moved
<1>5. beta' \in Nat
  BY <1>1 DEF TalkInv, TablesOK, TalksOK, TalkOK
<1> QED BY <1>1, <1>3, <1>4, <1>5

LEMMA WriteExposureMoves ==
  ASSUME TalkInv, NEW t \in Talks, WriteExposure(t)
  PROVE  (\E r : Moves(t, r, 0)) /\ DOMAIN exposure' = Periods
<1>1. talk[t].at = "exposure" /\ spent' = spent /\ Goes(t, NoTurn)
  BY DEF WriteExposure
<1>2. Moves(t, NoTurn, 0)
  BY <1>1, NoTurnOK, Moved
<1>3. DOMAIN exposure' = Periods
  BY DEF WriteExposure, TalkInv, TablesOK
<1> QED BY <1>2, <1>3

\* What is not the talk: every step leaves the tables typed.
LEMMA TablesKept ==
  ASSUME TalkInv, NEW t \in Talks, TalkStep(t), spent' \in Nat
  PROVE  TablesOK'
<1> USE DEF TablesOK
<1>0. TablesOK
  BY DEF TalkInv
<1>1. CASE Ask(t)
  BY <1>0, <1>1 DEF Ask, build, Tables
<1>2. ASSUME NEW force, ResearchPair(t, force) PROVE TablesOK'
  BY <1>0, <1>2 DEF ResearchPair, build, Tables
<1>3. ASSUME NEW reply, Reply(t, reply) PROVE TablesOK'
  BY <1>0, <1>3 DEF Reply, build, Tables
<1>4. CASE Malformed(t)
  BY <1>0, <1>4 DEF Malformed, build, Tables
<1>5. CASE ModelError(t)
  BY <1>0, <1>5 DEF ModelError, build, Tables
<1>6. CASE RunTool(t)
  BY <1>0, <1>6 DEF RunTool, build, Tables
<1>7. CASE LogAnswer(t)
  BY <1>0, <1>7 DEF LogAnswer, build
<1>8. CASE WriteBeta(t)
  BY <1>0, <1>8, WriteBetaMoves DEF WriteBeta, build
<1>9. CASE WriteExposure(t)
  BY <1>0, <1>9, WriteExposureMoves DEF WriteExposure, build
<1> QED BY <1>1, <1>2, <1>3, <1>4, <1>5, <1>6, <1>7, <1>8, <1>9 DEF TalkStep

LEMMA StepMoves ==
  ASSUME TalkInv, NEW t \in Talks, TalkStep(t)
  PROVE  (\E r : \E more \in Nat : Moves(t, r, more)) \/ UNCHANGED <<talk, spent>>
<1>1. ASSUME \E r : Moves(t, r, 0) PROVE \E r : \E more \in Nat : Moves(t, r, more)
  <2>1. PICK r : Moves(t, r, 0)
    BY <1>1
  <2> QED BY <2>1
<1>2. ASSUME LogAnswer(t) PROVE \E r : \E more \in Nat : Moves(t, r, more)
  <2>1. t \in Chats
    BY <1>2 DEF LogAnswer, TalkInv, TalksOK, Talks
  <2> QED BY <1>2, <2>1, LogAnswerMoves
<1> QED BY <1>1, <1>2, AskMoves, ResearchMoves, ReplyMoves, MalformedMoves, ModelErrorMoves,
           RunToolMoves, WriteBetaMoves, WriteExposureMoves DEF TalkStep

\* What the steps keep: the types, and that a budget that is overrun is overrun by
\* the turns of the talks that are open (research/chat_engine.py; the
\* budget is looked at before a talk, api/routes/research_chat.py).
THEOREM ConversationInvariant == ConversationSpec => []TalkInv
<1>1. ConversationInit => TalkInv
  <2> SUFFICES ASSUME ConversationInit PROVE TalkInv
    OBVIOUS
  <2>1. TablesOK
    BY TalkConstants DEF ConversationInit, TablesOK
  <2>2. TalksOK
    BY TalkConstants, NoTurnOK DEF ConversationInit, TalksOK
  <2>3. Within(spent, talk)
    BY TalkConstants DEF ConversationInit, Within
  <2> QED BY <2>1, <2>2, <2>3 DEF TalkInv
<1>2. TalkInv /\ [ConversationNext]_conversationVars => TalkInv'
  <2> SUFFICES ASSUME TalkInv, [ConversationNext]_conversationVars PROVE TalkInv'
    OBVIOUS
  <2>1. CASE UNCHANGED conversationVars
    BY <2>1 DEF TalkInv, TablesOK, TalksOK, conversationVars, build, Tables
  <2>2. CASE ConversationNext
    <3>1. PICK t \in Talks : TalkStep(t)
      BY <2>2 DEF ConversationNext, TalkInv, TablesOK
    <3>2. CASE UNCHANGED <<talk, spent>>
      <4>1. TalksOK' /\ Within(spent', talk') /\ spent' \in Nat
        BY <3>2 DEF TalkInv, TalksOK, TablesOK
      <4> QED BY <3>1, <4>1, TablesKept DEF TalkInv
    <3>3. CASE \E r : \E more \in Nat : Moves(t, r, more)
      <4>1. PICK r : \E more \in Nat : Moves(t, r, more)
        BY <3>3
      <4>2. PICK more \in Nat : Moves(t, r, more)
        BY <4>1
      <4>3. spent \in Nat /\ spent' = spent + more
        BY <4>2 DEF Moves, TalkInv, TablesOK
      <4>4. Within(spent', talk')
        BY <4>2, <4>3, WithinKept DEF Moves, TalkInv
      <4>5. TalksOK'
        BY <4>2, TalksMove DEF Moves, TalkInv
      <4> QED BY <3>1, <4>3, <4>4, <4>5, TablesKept DEF TalkInv
    <3> QED BY <3>1, <3>2, <3>3, StepMoves
  <2> QED BY <2>1, <2>2
<1> QED BY <1>1, <1>2, PTL DEF ConversationSpec

\* Every variable of the talks keeps its type, for any number of chats, agents
\* and turns (research/chat_engine.py, research/agent.py).
THEOREM ConversationTypeCorrect == ConversationSpec => []ConversationTypeOK
<1>1. TalkInv => ConversationTypeOK
  BY DEF TalkInv, TablesOK, TalksOK, TalkOK, ConversationTypeOK
<1> QED BY <1>1, ConversationInvariant, PTL

\* Talks at once overrun the budget of a month by no more than the turns of every
\* chat together, for any number of chats and turns and any budget
\* (research/chat_engine.py).
THEOREM BudgetOvershotHolds == ConversationSpec => []BudgetOvershot
<1>1. TalkInv => BudgetOvershot
  <2> SUFFICES ASSUME TalkInv PROVE BudgetOvershot
    OBVIOUS
  <2>1. /\ spent \in Nat /\ Budget \in Nat /\ TalkTurns \in Nat \ {0}
        /\ Cardinality(Open(talk)) \in Nat /\ Cardinality(Chats) \in Nat
    BY OpenFinite, TalkConstants, FS_CardinalityType DEF TalkInv, TablesOK
  <2>2. Cardinality(Open(talk)) * TalkTurns \in Nat /\ Cardinality(Chats) * TalkTurns \in Nat
    BY <2>1, Times
  <2> QED BY <2>1, <2>2 DEF BudgetOvershot, TalkInv, Within
<1> QED BY <1>1, ConversationInvariant, PTL

-----------------------------------------------------------------------------
(* What a talk was told, and what it cites.                                *)

\* What Blocks gives where the signatures of `voice' are read.
Voice == IF carries THEN provider ELSE "none"

SpokenBlock(voice, part, place) ==
  [type |-> IF part.type = "use" THEN "use" ELSE "text", name |-> part.name,
   empty |-> part.type = "empty", id |-> IF part.type = "use" THEN place ELSE <<>>,
   sig |-> IF voice = "gemini" /\ part.signed THEN place ELSE <<>>]

AllSpoken(voice, reply, turn) == [i \in DOMAIN reply |-> SpokenBlock(voice, reply[i], <<turn, i>>)]

Places(blocks) == {i \in DOMAIN blocks : Keeps(blocks[i])}

Spoken(voice, reply, turn) ==
  Those(AllSpoken(voice, reply, turn), Places(AllSpoken(voice, reply, turn)))

LEMMA BlocksAre ==
  ASSUME NEW reply, NEW turn
  PROVE  Blocks(reply, turn) = Spoken(Voice, reply, turn)
<1>1. \A part, place : BlockOf(part, place) = SpokenBlock(Voice, part, place)
  <2> SUFFICES ASSUME NEW part, NEW place PROVE BlockOf(part, place) = SpokenBlock(Voice, part, place)
    OBVIOUS
  <2>1. Signature(part, place) = IF Voice = "gemini" /\ part.signed THEN place ELSE <<>>
    BY DEF Signature, Voice
  <2> QED BY <2>1 DEF BlockOf, SpokenBlock
<1>2. [i \in DOMAIN reply |-> BlockOf(reply[i], <<turn, i>>)] = AllSpoken(Voice, reply, turn)
  BY <1>1 DEF AllSpoken
<1> QED BY <1>2 DEF Blocks, Spoken, Places

Replies == ChatReplies \cup AgentReplies

LEMMA RepliesAre ==
  ASSUME NEW r \in Replies
  PROVE  /\ r \in Seq(Range(r)) /\ DOMAIN r = 1..Len(r) /\ Len(r) \in Nat
         /\ \A i \in DOMAIN r : r[i].type \in {"text", "empty", "use"} /\ r[i].signed \in BOOLEAN
BY ConversationAssumption DEF Replies

\* A block as it was spoken, and what is kept of them.
LEMMA SpokenBlockIs ==
  ASSUME NEW voice, NEW part, NEW turn, NEW i,
         part.type \in {"text", "empty", "use"}
  PROVE  LET b == SpokenBlock(voice, part, <<turn, i>>)
         IN  /\ b.type \in {"use", "text"} /\ b.name = part.name
             /\ (b.type = "use") <=> (part.type = "use")
             /\ b.type = "use" => b.id = <<turn, i>>
             /\ b.sig = IF voice = "gemini" /\ part.signed THEN <<turn, i>> ELSE <<>>
             /\ Keeps(b) <=> (part.type # "empty" \/ (voice = "gemini" /\ part.signed))
<1> DEFINE b == SpokenBlock(voice, part, <<turn, i>>)
<1>1. /\ b.type = IF part.type = "use" THEN "use" ELSE "text"
      /\ b.name = part.name
      /\ b.id = IF part.type = "use" THEN <<turn, i>> ELSE <<>>
      /\ b.sig = IF voice = "gemini" /\ part.signed THEN <<turn, i>> ELSE <<>>
  BY DEF SpokenBlock
<1>2. b.empty <=> part.type = "empty"
  BY DEF SpokenBlock
<1>3. <<turn, i>> # <<>>
  OBVIOUS
<1> HIDE DEF b
<1>4. b.sig # <<>> <=> (voice = "gemini" /\ part.signed)
  BY <1>1, <1>3
<1>5. b.type = "use" <=> part.type = "use"
  BY <1>1
<1>6. Keeps(b) <=> (part.type # "empty" \/ (voice = "gemini" /\ part.signed))
  <2>1. Keeps(b) <=> (b.type = "use" \/ ~b.empty \/ b.sig # <<>>)
    BY DEF Keeps
  <2>2. part.type = "use" => part.type # "empty"
    OBVIOUS
  <2> QED BY <2>1, <2>2, <1>2, <1>4, <1>5
<1> QED BY <1>1, <1>5, <1>6 DEF b

\* What a reply becomes: blocks of its parts, in their order.
LEMMA SpokenIs ==
  ASSUME NEW voice, NEW reply \in Replies, NEW turn
  PROVE  LET blocks == Spoken(voice, reply, turn)
             all == AllSpoken(voice, reply, turn)
             K   == Places(all)
         IN  /\ K \in SUBSET (1..Len(reply)) /\ Cardinality(K) \in Nat
             /\ Sorted(K) \in [1..Cardinality(K) -> K]
             /\ blocks \in Seq(ToSet(blocks)) /\ Len(blocks) = Cardinality(K)
             /\ \A a \in 1..Cardinality(K) :
                  blocks[a] = SpokenBlock(voice, reply[Sorted(K)[a]], <<turn, Sorted(K)[a]>>)
<1> DEFINE blocks == Spoken(voice, reply, turn)
           all == AllSpoken(voice, reply, turn)
           K   == Places(all)
<1>1. /\ DOMAIN reply = 1..Len(reply) /\ Len(reply) \in Nat
  BY RepliesAre
<1>2. /\ all = [i \in 1..Len(reply) |-> all[i]]
      /\ \A i \in 1..Len(reply) : all[i] = SpokenBlock(voice, reply[i], <<turn, i>>)
      /\ DOMAIN all = 1..Len(reply)
  BY <1>1 DEF AllSpoken
<1> HIDE DEF all
<1>3. all \in Seq({all[i] : i \in 1..Len(reply)}) /\ Len(all) = Len(reply)
  BY <1>1, <1>2
<1>4. K \in SUBSET (1..Len(all)) /\ \A i \in K : Keeps(all[i])
  BY <1>2, <1>3 DEF Places
<1>5. blocks = Those(all, K)
  BY DEF Spoken, all
<1> HIDE DEF K, blocks
<1>6. /\ Cardinality(K) \in Nat /\ Sorted(K) \in [1..Cardinality(K) -> K]
      /\ blocks \in Seq({all[i] : i \in 1..Len(reply)}) /\ Len(blocks) = Cardinality(K)
      /\ \A a \in 1..Cardinality(K) : blocks[a] = all[Sorted(K)[a]]
  <2>1. ThoseOf({all[i] : i \in 1..Len(reply)}, all, K)
    BY <1>3, <1>4, ThoseAre
  <2> QED BY <2>1, <1>5 DEF ThoseOf
<1>8. \A a \in 1..Cardinality(K) : Sorted(K)[a] \in 1..Len(reply)
  BY <1>3, <1>4, <1>6
<1>9. \A a \in 1..Cardinality(K) :
         blocks[a] = SpokenBlock(voice, reply[Sorted(K)[a]], <<turn, Sorted(K)[a]>>)
  BY <1>2, <1>6, <1>8
<1>10. blocks \in Seq(ToSet(blocks))
  BY <1>6, OwnElements
<1> QED BY <1>3, <1>4, <1>6, <1>9, <1>10 DEF K, blocks, all

LEMMA SpokenOf ==
  ASSUME NEW voice, NEW reply \in Replies, NEW turn, NEW b \in ToSet(Spoken(voice, reply, turn))
  PROVE  Keeps(b) /\ \E i \in 1..Len(reply) : b = SpokenBlock(voice, reply[i], <<turn, i>>)
<1> DEFINE all == AllSpoken(voice, reply, turn)
           K   == Places(all)
<1>1. /\ DOMAIN reply = 1..Len(reply) /\ Len(reply) \in Nat
  BY RepliesAre
<1>2. /\ all = [i \in 1..Len(reply) |-> all[i]] /\ DOMAIN all = 1..Len(reply)
      /\ \A i \in 1..Len(reply) : all[i] = SpokenBlock(voice, reply[i], <<turn, i>>)
  BY <1>1 DEF AllSpoken
<1> HIDE DEF all
<1>3. all \in Seq({all[i] : i \in 1..Len(reply)}) /\ Len(all) = Len(reply)
  BY <1>1, <1>2
<1>4. K \in SUBSET (1..Len(all)) /\ \A i \in K : Keeps(all[i]) /\ i \in 1..Len(reply)
  BY <1>2, <1>3 DEF Places
<1> HIDE DEF K
<1>5. ToSet(Those(all, K)) = {all[i] : i \in K}
  BY <1>3, <1>4, SetOfThose
<1>6. b \in ToSet(Those(all, K))
  BY DEF Spoken, all, K
<1>7. PICK i \in K : b = all[i]
  BY <1>5, <1>6
<1>8. b = SpokenBlock(voice, reply[i], <<turn, i>>) /\ i \in 1..Len(reply)
  BY <1>2, <1>4, <1>7
<1> QED BY <1>4, <1>7, <1>8

\* The whole of it is kept for the history.
LEMMA ContentIs ==
  ASSUME NEW voice, NEW reply \in Replies, NEW turn
  PROVE  AssistantContent(Spoken(voice, reply, turn)) = Spoken(voice, reply, turn)
<1> DEFINE blocks == Spoken(voice, reply, turn)
<1>1. blocks \in Seq(ToSet(blocks)) /\ \A b \in ToSet(blocks) : Keeps(b)
  BY SpokenIs, SpokenOf
<1> HIDE DEF blocks
<1>2. {i \in DOMAIN blocks : Keeps(blocks[i])} = 1..Len(blocks)
  BY <1>1 DEF ToSet
<1>3. AssistantContent(blocks) = Those(blocks, 1..Len(blocks))
  BY <1>2 DEF AssistantContent
<1> QED BY <1>1, <1>3, ThoseAll DEF blocks

\* The calls of it.
LEMMA CallsAre ==
  ASSUME NEW S, NEW blocks \in Seq(S)
  PROVE  /\ Uses(blocks) \in Seq(ToSet(Uses(blocks))) /\ Len(Uses(blocks)) \in Nat
         /\ ToSet(Uses(blocks)) = {b \in ToSet(blocks) : b.type = "use"}
<1> DEFINE K == {i \in DOMAIN blocks : blocks[i].type = "use"}
<1>1. K \in SUBSET (1..Len(blocks)) /\ Uses(blocks) = Those(blocks, K)
  BY DEF Uses
<1>2. {blocks[i] : i \in K} = {b \in ToSet(blocks) : b.type = "use"}
  BY DEF ToSet
<1> HIDE DEF K
<1>3. Those(blocks, K) \in Seq(S) /\ ToSet(Those(blocks, K)) = {blocks[i] : i \in K}
  <2>1. K \in SUBSET (1..Len(blocks))
    BY <1>1
  <2>2. ToSet(Those(blocks, K)) = {blocks[i] : i \in K}
    BY <2>1, SetOfThose
  <2>3. Those(blocks, K) \in Seq(S)
    <3>1. ThoseOf(S, blocks, K)
      BY <2>1, ThoseAre
    <3> QED BY <3>1 DEF ThoseOf
  <2> QED BY <2>2, <2>3
<1> QED BY <1>1, <1>2, <1>3, OwnElements

\* The id of a call tells which it is.
LEMMA CallsDiffer ==
  ASSUME NEW voice, NEW r \in Replies, NEW q \in Replies, NEW m, NEW n,
         NEW b \in ToSet(Spoken(voice, r, m)), NEW c \in ToSet(Spoken(voice, q, n)),
         b.type = "use", c.type = "use", b.id = c.id
  PROVE  m = n /\ (r = q => b = c)
<1>1. PICK i \in 1..Len(r) : b = SpokenBlock(voice, r[i], <<m, i>>)
  BY SpokenOf
<1>2. PICK k \in 1..Len(q) : c = SpokenBlock(voice, q[k], <<n, k>>)
  BY SpokenOf
<1>3. r[i].type \in {"text", "empty", "use"} /\ q[k].type \in {"text", "empty", "use"}
  BY RepliesAre
<1>4. b.id = <<m, i>>
  BY <1>1, <1>3, SpokenBlockIs
<1>5. c.id = <<n, k>>
  BY <1>2, <1>3, SpokenBlockIs
<1>6. m = n /\ i = k
  <2>1. <<m, i>> = <<n, k>>
    BY <1>4, <1>5
  <2>2. <<m, i>>[1] = <<n, k>>[1] /\ <<m, i>>[2] = <<n, k>>[2]
    BY <2>1
  <2> QED BY <2>2
<1> QED BY <1>1, <1>2, <1>6

-----------------------------------------------------------------------------
(* What is sent.                                                           *)

Result(call, ref) ==
  [type |-> "result", name |-> "", id |-> call.id, of |-> call.id, ref |-> ref]

\* The results answer the first of the calls, in their order.
AnswersFirst(uses, told) ==
  /\ told \in Seq(ToSet(told)) /\ Len(told) <= Len(uses)
  /\ \A k \in 1..Len(told) : told[k] = Result(uses[k], told[k].ref)

\* The conversation holds the first m turns: what was said, and what answered it.
HeardTurn(voice, convo, said, n) ==
  /\ convo[2 * n - 1] = Turn("assistant", Spoken(voice, said[n], n))
  /\ convo[2 * n] = Turn("user", convo[2 * n].blocks)
  /\ AnswersFirst(Uses(Spoken(voice, said[n], n)), convo[2 * n].blocks)
  /\ Len(convo[2 * n].blocks) = Len(Uses(Spoken(voice, said[n], n)))

Heard(voice, convo, said, m) ==
  /\ convo \in Seq(ToSet(convo)) /\ Len(convo) = 2 * m
  /\ \A n \in 1..m : HeardTurn(voice, convo, said, n)

BlocksOf(convo) == UNION {ToSet(convo[i].blocks) : i \in DOMAIN convo}

LEMMA TurnIs ==
  ASSUME NEW role, NEW blocks
  PROVE  Turn(role, blocks).role = role /\ Turn(role, blocks).blocks = blocks
BY DEF Turn

LEMMA ResultIs ==
  ASSUME NEW call, NEW ref
  PROVE  /\ Result(call, ref).type = "result" /\ Result(call, ref).id = call.id
         /\ Result(call, ref).of = call.id /\ Result(call, ref).ref = ref
BY DEF Result

LEMMA EvenOrOdd ==
  ASSUME NEW m \in Nat, NEW i \in 1..(2 * m)
  PROVE  \E n \in 1..m : i = 2 * n - 1 \/ i = 2 * n
<1> DEFINE n == (i + 1) \div 2
<1>1. n \in Int /\ 2 * n <= i + 1 /\ i + 1 < 2 * n + 2
  OBVIOUS
<1> HIDE DEF n
<1>2. n \in 1..m /\ (i = 2 * n - 1 \/ i = 2 * n)
  BY <1>1
<1> QED BY <1>2

\* What was said has types, what answered it is results.
LEMMA HeardBlocks ==
  ASSUME NEW voice, NEW convo, NEW said \in Seq(Replies), NEW m \in 0..Len(said),
         Heard(voice, convo, said, m), NEW b \in BlocksOf(convo)
  PROVE  \/ \E n \in 1..m : b \in ToSet(Spoken(voice, said[n], n)) /\ b.type # "result"
         \/ \E n \in 1..m : b \in ToSet(convo[2 * n].blocks) /\ b.type = "result"
<1>1. m \in Nat /\ Len(convo) = 2 * m /\ DOMAIN convo = 1..(2 * m)
  BY DEF Heard
<1>2. PICK i \in DOMAIN convo : b \in ToSet(convo[i].blocks)
  BY DEF BlocksOf
<1>3. PICK n \in 1..m : i = 2 * n - 1 \/ i = 2 * n
  BY <1>1, <1>2, EvenOrOdd
<1>4. HeardTurn(voice, convo, said, n) /\ said[n] \in Replies
  BY <1>3 DEF Heard
<1>5. CASE i = 2 * n - 1
  <2>1. b \in ToSet(Spoken(voice, said[n], n))
    BY <1>2, <1>4, <1>5, TurnIs DEF HeardTurn
  <2>2. PICK k \in 1..Len(said[n]) : b = SpokenBlock(voice, said[n][k], <<n, k>>)
    BY <1>4, <2>1, SpokenOf
  <2>3. said[n][k].type \in {"text", "empty", "use"}
    BY <1>4, RepliesAre
  <2>4. b.type \in {"use", "text"}
    BY <2>2, <2>3, SpokenBlockIs
  <2> QED BY <2>1, <2>4
<1>6. CASE i = 2 * n
  <2>1. b \in ToSet(convo[2 * n].blocks)
    BY <1>2, <1>6
  <2> DEFINE told == convo[2 * n].blocks
             uses == Uses(Spoken(voice, said[n], n))
  <2>2. told \in Seq(ToSet(told))
        /\ \A k \in 1..Len(told) : told[k] = Result(uses[k], told[k].ref)
    BY <1>4 DEF HeardTurn, AnswersFirst
  <2> HIDE DEF told, uses
  <2>3. PICK k \in 1..Len(told) : b = told[k]
    <3>1. b \in ToSet(told)
      BY <2>1 DEF told
    <3> QED BY <2>2, <3>1, SetOfSeq
  <2>4. b.type = "result"
    BY <2>2, <2>3, ResultIs
  <2> QED BY <2>1, <2>4
<1> QED BY <1>3, <1>5, <1>6

\* A result goes out under the name of its call.
LEMMA NamedAs ==
  ASSUME NEW voice, NEW convo, NEW said \in Seq(Replies), NEW m \in 0..Len(said),
         Heard(voice, convo, said, m), NEW n \in 1..m,
         NEW c \in ToSet(Uses(Spoken(voice, said[n], n)))
  PROVE  NameOf(convo, c.id) = c.name
<1>1. m \in Nat /\ Len(convo) = 2 * m /\ DOMAIN convo = 1..(2 * m)
  BY DEF Heard
<1>2. \A k \in 1..m : said[k] \in Replies
  OBVIOUS
<1>3. c \in ToSet(Spoken(voice, said[n], n)) /\ c.type = "use"
  <2>1. Spoken(voice, said[n], n) \in Seq(ToSet(Spoken(voice, said[n], n)))
    BY <1>2, SpokenIs
  <2> QED BY <2>1, CallsAre
<1>4. c \in BlocksOf(convo)
  <2>1. 2 * n - 1 \in DOMAIN convo
    BY <1>1
  <2>2. convo[2 * n - 1].blocks = Spoken(voice, said[n], n)
    BY TurnIs DEF Heard, HeardTurn
  <2> QED BY <1>3, <2>1, <2>2 DEF BlocksOf
<1> DEFINE uses == {b \in BlocksOf(convo) : b.type = "use" /\ b.id = c.id}
<1>5. uses = {c}
  <2>1. ASSUME NEW b \in uses PROVE b = c
    <3>1. b \in BlocksOf(convo) /\ b.type = "use" /\ b.id = c.id
      OBVIOUS
    <3>2. PICK k \in 1..m : b \in ToSet(Spoken(voice, said[k], k))
      BY <3>1, HeardBlocks
    <3>3. k = n
      BY <1>2, <1>3, <3>1, <3>2, CallsDiffer
    <3>4. b \in ToSet(Spoken(voice, said[n], n))
      BY <3>2, <3>3
    <3> QED BY <1>2, <1>3, <3>1, <3>4, CallsDiffer
  <2> QED BY <1>3, <1>4, <2>1
<1>6. NameOf(convo, c.id) = (CHOOSE b \in uses : TRUE).name
  <2>1. NameOf(convo, c.id) = IF uses = {} THEN "" ELSE (CHOOSE b \in uses : TRUE).name
    BY DEF NameOf, BlocksOf
  <2> HIDE DEF uses
  <2>2. uses # {}
    BY <1>5
  <2> QED BY <2>1, <2>2
<1> HIDE DEF uses
<1>7. (CHOOSE b \in uses : TRUE) = c
  BY <1>5
<1> QED BY <1>6, <1>7

SentBlock(convo, b) ==
  IF b.type = "result" /\ provider = "gemini" THEN [b EXCEPT !.name = NameOf(convo, b.id)] ELSE b

SentBlocks(convo, blocks) == [k \in DOMAIN blocks |-> SentBlock(convo, blocks[k])]

LEMMA SentIs ==
  ASSUME NEW convo, NEW i \in DOMAIN convo
  PROVE  /\ DOMAIN Sent(convo) = DOMAIN convo /\ Sent(convo)[i].role = convo[i].role
         /\ Sent(convo)[i].blocks = SentBlocks(convo, convo[i].blocks)
<1>1. Sent(convo)[i] = Turn(convo[i].role, SentBlocks(convo, convo[i].blocks))
  BY DEF Sent, SentBlock, SentBlocks
<1>2. DOMAIN Sent(convo) = DOMAIN convo
  BY DEF Sent
<1> QED BY <1>1, <1>2, TurnIs

LEMMA SentResultIs ==
  ASSUME NEW convo, NEW call, NEW ref
  PROVE  LET b == SentBlock(convo, Result(call, ref))
         IN  /\ b.type = "result" /\ b.of = call.id /\ b.id = call.id
             /\ provider = "gemini" => b.name = NameOf(convo, call.id)
<1>1. CASE provider = "gemini"
  <2>1. SentBlock(convo, Result(call, ref)) =
          [Result(call, ref) EXCEPT !.name = NameOf(convo, call.id)]
    BY <1>1, ResultIs DEF SentBlock
  <2> DEFINE b == [Result(call, ref) EXCEPT !.name = NameOf(convo, call.id)]
  <2>2. /\ b.type = "result" /\ b.of = call.id /\ b.id = call.id
        /\ b.name = NameOf(convo, call.id)
    BY DEF Result
  <2> HIDE DEF b
  <2>3. SentBlock(convo, Result(call, ref)) = b
    BY <2>1 DEF b
  <2> QED BY <2>2, <2>3
<1>2. CASE provider # "gemini"
  <2>1. SentBlock(convo, Result(call, ref)) = Result(call, ref)
    BY <1>2 DEF SentBlock
  <2> QED BY <2>1, <1>2, ResultIs
<1> QED BY <1>1, <1>2

\* The provider finds its own words where the build reads signatures.
LEMMA SpokenReplayed ==
  ASSUME carries, NEW reply \in Replies, NEW turn
  PROVE  Replayed(Spoken(Voice, reply, turn), reply, turn)
<1> DEFINE blocks == Spoken(provider, reply, turn)
           all == AllSpoken(provider, reply, turn)
           kept == {i \in DOMAIN reply :
                      reply[i].type # "empty" \/ (provider = "gemini" /\ reply[i].signed)}
           own == Sorted(kept)
<1>1. Voice = provider
  BY DEF Voice
<1>2. DOMAIN reply = 1..Len(reply)
      /\ \A i \in DOMAIN reply : reply[i].type \in {"text", "empty", "use"}
  BY RepliesAre
<1>3. DOMAIN all = DOMAIN reply
      /\ \A i \in DOMAIN reply : all[i] = SpokenBlock(provider, reply[i], <<turn, i>>)
  BY DEF AllSpoken
<1>4. Places(all) = kept
  <2> HIDE DEF all
  <2>1. ASSUME NEW i \in DOMAIN reply
        PROVE  Keeps(all[i]) <=> (reply[i].type # "empty" \/ (provider = "gemini" /\ reply[i].signed))
    <3>1. reply[i].type \in {"text", "empty", "use"}
      BY <1>2
    <3>2. all[i] = SpokenBlock(provider, reply[i], <<turn, i>>)
      BY <1>3
    <3> QED BY <3>1, <3>2, SpokenBlockIs
  <2> QED BY <1>3, <2>1 DEF Places
<1> HIDE DEF kept, all
<1>5. /\ kept \in SUBSET (1..Len(reply)) /\ Cardinality(kept) \in Nat
      /\ own \in [1..Cardinality(kept) -> kept]
      /\ Len(blocks) = Cardinality(kept)
      /\ \A a \in 1..Cardinality(kept) :
           blocks[a] = SpokenBlock(provider, reply[own[a]], <<turn, own[a]>>)
  BY <1>4, SpokenIs DEF all
<1> HIDE DEF own, blocks
<1>6. DOMAIN own = 1..Cardinality(kept) /\ Len(own) = Cardinality(kept)
  BY <1>5
<1>7. ASSUME NEW k \in DOMAIN own
      PROVE  /\ (blocks[k].type = "use") <=> (reply[own[k]].type = "use")
             /\ blocks[k].name = reply[own[k]].name
             /\ blocks[k].sig = IF provider = "gemini" /\ reply[own[k]].signed
                                THEN <<turn, own[k]>> ELSE <<>>
  <2>1. own[k] \in DOMAIN reply /\ blocks[k] = SpokenBlock(provider, reply[own[k]], <<turn, own[k]>>)
    BY <1>2, <1>5, <1>6
  <2> QED BY <1>2, <2>1, SpokenBlockIs
<1>8. Replayed(blocks, reply, turn)
  <2>1. Len(blocks) = Len(own)
    BY <1>5, <1>6
  <2> QED BY <1>7, <2>1, Zenon DEF Replayed, own, kept
<1> QED BY <1>1, <1>8 DEF blocks

LEMMA HeardAccepted ==
  ASSUME carries, NEW t, talk[t].said \in Seq(Replies),
         Heard(Voice, talk[t].convo, talk[t].said, Len(talk[t].said))
  PROVE  Accepted(t)
<1> DEFINE convo == talk[t].convo
           said  == talk[t].said
           m     == Len(said)
           request == Sent(convo)
<1>1. /\ m \in Nat /\ Len(convo) = 2 * m /\ DOMAIN convo = 1..(2 * m) /\ DOMAIN said = 1..m
      /\ \A n \in 1..m : said[n] \in Replies
  BY DEF Heard
<1>2. Len(request) = 2 * m
  <2>1. DOMAIN request = 1..(2 * m)
    BY <1>1 DEF Sent
  <2>2. request = [i \in DOMAIN convo |-> request[i]]
    BY DEF Sent
  <2> HIDE DEF convo, m, request
  <2> QED BY <1>1, <2>1, <2>2
<1> HIDE DEF convo, said, m, request
<1>3. ASSUME NEW n \in DOMAIN said
      PROVE  /\ request[2 * n - 1].role = "assistant" /\ request[2 * n].role = "user"
             /\ Replayed(request[2 * n - 1].blocks, said[n], n)
             /\ Answered(Uses(request[2 * n - 1].blocks), request[2 * n].blocks)
  <2> DEFINE blocks == Spoken(Voice, said[n], n)
             told   == convo[2 * n].blocks
             uses   == Uses(blocks)
             own    == request[2 * n - 1].blocks
             out    == request[2 * n].blocks
  <2>1. n \in 1..m /\ said[n] \in Replies /\ 2 * n - 1 \in DOMAIN convo /\ 2 * n \in DOMAIN convo
    BY <1>1
  <2>2. /\ convo[2 * n - 1] = Turn("assistant", blocks) /\ convo[2 * n] = Turn("user", told)
        /\ AnswersFirst(uses, told) /\ Len(told) = Len(uses)
    BY <2>1 DEF Heard, HeardTurn, convo, said, m
  <2>3. /\ convo[2 * n - 1].role = "assistant" /\ convo[2 * n - 1].blocks = blocks
        /\ convo[2 * n].role = "user"
    BY <2>2, TurnIs
  <2>4. /\ request[2 * n - 1].role = "assistant" /\ request[2 * n].role = "user"
        /\ own = [k \in DOMAIN blocks |-> SentBlock(convo, blocks[k])]
        /\ out = [k \in DOMAIN told |-> SentBlock(convo, told[k])]
    <3>1. request[2 * n - 1].role = "assistant"
          /\ own = SentBlocks(convo, blocks)
      BY <2>1, <2>3, SentIs DEF request
    <3>2. request[2 * n].role = "user" /\ out = SentBlocks(convo, told)
      BY <2>1, <2>3, SentIs DEF request
    <3> QED BY <3>1, <3>2 DEF SentBlocks
  <2>5. blocks \in Seq(ToSet(blocks))
    BY <2>1, SpokenIs
  <2>6. ASSUME NEW b \in ToSet(blocks) PROVE b.type # "result"
    <3>1. PICK k \in 1..Len(said[n]) : b = SpokenBlock(Voice, said[n][k], <<n, k>>)
      BY <2>1, SpokenOf
    <3>2. said[n][k].type \in {"text", "empty", "use"}
      BY <2>1, RepliesAre
    <3> QED BY <3>1, <3>2, SpokenBlockIs
  <2>7. uses \in Seq(ToSet(uses)) /\ Len(uses) \in Nat
        /\ \A c \in ToSet(uses) : NameOf(convo, c.id) = c.name
    <3>1. \A c \in ToSet(uses) : NameOf(convo, c.id) = c.name
      <4>1. m \in 0..Len(said)
        BY <1>1
      <4> QED BY <2>1, <4>1, NamedAs DEF convo, said, m
    <3> QED BY <2>5, <3>1, CallsAre
  <2>8. told \in Seq(ToSet(told)) /\ \A k \in 1..Len(told) : told[k] = Result(uses[k], told[k].ref)
    BY <2>2 DEF AnswersFirst
  <2> HIDE DEF own, out, blocks, uses, told
  <2>9. own = blocks
    <3>1. \A k \in DOMAIN blocks : SentBlock(convo, blocks[k]) = blocks[k]
      BY <2>5, <2>6, SetOfSeq DEF SentBlock
    <3>2. own = [k \in DOMAIN blocks |-> blocks[k]]
      BY <2>4, <3>1
    <3> QED BY <2>5, <3>2
  <2>10. DOMAIN told = 1..Len(told) /\ Len(out) = Len(told)
    BY <2>4, <2>8
  <2>11. Answered(uses, out)
    <3>1. Len(out) = Len(uses)
      BY <2>2, <2>10
    <3>2. ASSUME NEW k \in DOMAIN uses
          PROVE  /\ out[k].type = "result" /\ out[k].of = uses[k].id
                 /\ IF provider = "gemini" THEN out[k].name = uses[k].name ELSE out[k].id = uses[k].id
      <4>1. k \in 1..Len(told) /\ uses[k] \in ToSet(uses)
        BY <2>2, <2>7, SetOfSeq
      <4>2. out[k] = SentBlock(convo, Result(uses[k], told[k].ref))
        BY <2>4, <2>8, <2>10, <4>1
      <4>3. NameOf(convo, uses[k].id) = uses[k].name
        BY <2>7, <4>1
      <4> QED BY <4>2, <4>3, SentResultIs
    <3> QED BY <3>1, <3>2 DEF Answered
  <2>12. Replayed(blocks, said[n], n)
    BY <2>1, SpokenReplayed DEF blocks
  <2> QED BY <2>4, <2>9, <2>11, <2>12 DEF own, out, uses
<1> QED BY <1>2, <1>3 DEF Accepted, request, convo, said, m

-----------------------------------------------------------------------------
(* What is cited.                                                          *)

ResultsIn(convo) == {b \in BlocksOf(convo) : b.type = "result"}

\* Each ref was issued for one result that was shown.
Refs(shown, refs) ==
  /\ refs \in Seq(ToSet(refs))
  /\ \A b \in shown : b.ref \in 1..Len(refs) /\ refs[b.ref] = b.of
  /\ \A k \in 1..Len(refs) : \E b \in shown : b.ref = k

AnswerFrom(refs, mentions) ==
  LET text == Kept(mentions, refs)
  IN  [refs |-> FirstUses(text), text |-> text, status |-> "ok",
       cites |-> [i \in DOMAIN FirstUses(text) |-> refs[FirstUses(text)[i]]]]

\* What AnswerGrounded says of one answer.
GroundedIn(answer, shown) ==
  /\ ToSet(answer.text) = ToSet(answer.refs)
  /\ IsInjective(answer.refs) /\ Len(answer.cites) = Len(answer.refs)
  /\ \A i \in DOMAIN answer.refs :
       /\ {b.of : b \in {b \in shown : b.ref = answer.refs[i]}} = {answer.cites[i]}
       /\ \A k \in DOMAIN answer.refs : i < k =>
            \E a \in DOMAIN answer.text :
              /\ answer.text[a] = answer.refs[i]
              /\ \A b \in DOMAIN answer.text : answer.text[b] = answer.refs[k] => a < b

\* The first use of each.
LEMMA FirstUsesAre ==
  ASSUME NEW S, NEW text \in Seq(S)
  PROVE  LET refs == FirstUses(text)
         IN  /\ refs \in Seq(S) /\ IsInjective(refs) /\ ToSet(refs) = ToSet(text)
             /\ \A i, k \in 1..Len(refs) : i < k =>
                  \E a \in DOMAIN text :
                    /\ text[a] = refs[i]
                    /\ \A b \in DOMAIN text : text[b] = refs[k] => a < b
<1> DEFINE K == {i \in DOMAIN text : \A j \in 1..(i - 1) : text[j] # text[i]}
           refs == FirstUses(text)
           o == Sorted(K)
           n == Cardinality(K)
<1>1. Len(text) \in Nat /\ DOMAIN text = 1..Len(text)
  OBVIOUS
<1>2. K \in SUBSET (1..Len(text)) /\ refs = Those(text, K)
  BY <1>1 DEF FirstUses
<1>3. ASSUME NEW i \in K, NEW j \in 1..Len(text), text[i] = text[j] PROVE i <= j
  <2>1. ~(j \in 1..(i - 1))
    BY <1>3
  <2> QED BY <1>1, <2>1
<1>4. ASSUME NEW j \in 1..Len(text) PROVE \E i \in K : text[i] = text[j]
  <2> DEFINE Same == {i \in 1..Len(text) : text[i] = text[j]}
  <2>1. Same \in SUBSET Nat /\ Same # {}
    OBVIOUS
  <2>2. PICK i \in Same : \A k \in Same : i <= k
    BY <2>1, LeastNumber
  <2>3. \A k \in 1..(i - 1) : k \in 1..Len(text) /\ ~(i <= k)
    BY <1>1
  <2>4. i \in K
    BY <1>1, <2>2, <2>3
  <2> QED BY <2>4
<1> HIDE DEF K
<1>5. /\ n \in Nat /\ o \in [1..n -> K]
      /\ \A a, b \in 1..n : a < b => o[a] < o[b]
      /\ refs \in Seq(S) /\ Len(refs) = n
      /\ \A a \in 1..n : refs[a] = text[o[a]]
  <2>1. ThoseOf(S, text, K)
    BY <1>2, ThoseAre
  <2> QED BY <1>2, <2>1 DEF ThoseOf
<1>6. ToSet(refs) = {text[i] : i \in K}
  BY <1>2, SetOfThose
<1>7. IsInjective(refs)
  <2>1. ASSUME NEW i \in K, NEW j \in K, text[i] = text[j] PROVE i = j
    <3>1. i \in 1..Len(text) /\ j \in 1..Len(text)
      BY <1>2
    <3>2. i <= j /\ j <= i
      BY <1>3, <2>1, <3>1
    <3> QED BY <3>1, <3>2
  <2> HIDE DEF refs
  <2> QED BY <1>2, <2>1, ThoseDiffer
<1> HIDE DEF refs, o, n
<1>8. ToSet(refs) = ToSet(text)
  <2>1. \A i \in K : text[i] \in ToSet(text)
    BY <1>1, <1>2 DEF ToSet
  <2>2. \A x \in ToSet(text) : \E i \in K : text[i] = x
    BY <1>1, <1>4 DEF ToSet
  <2> QED BY <1>6, <2>1, <2>2
<1>9. ASSUME NEW i \in 1..Len(refs), NEW k \in 1..Len(refs), i < k
      PROVE  \E a \in DOMAIN text : /\ text[a] = refs[i]
                                    /\ \A b \in DOMAIN text : text[b] = refs[k] => a < b
  <2>1. o[i] \in K /\ o[k] \in K /\ o[i] < o[k] /\ text[o[i]] = refs[i] /\ text[o[k]] = refs[k]
    BY <1>5, <1>9
  <2>2. o[i] \in 1..Len(text) /\ o[k] \in 1..Len(text)
    BY <1>2, <2>1
  <2>3. ASSUME NEW b \in 1..Len(text), text[b] = refs[k] PROVE o[i] < b
    <3>1. o[k] <= b
      BY <1>3, <2>1, <2>3
    <3> QED BY <2>1, <2>2, <3>1
  <2> QED BY <1>1, <2>1, <2>2, <2>3
<1> QED BY <1>5, <1>7, <1>8, <1>9 DEF refs

\* An answer from what was issued cites what was shown.
LEMMA AnswerIsGrounded ==
  ASSUME NEW shown, NEW refs, Refs(shown, refs), NEW mentions \in Mentions
  PROVE  GroundedIn(AnswerFrom(refs, mentions), shown)
<1> DEFINE K == {i \in DOMAIN mentions : mentions[i] \in DOMAIN refs}
           text == Kept(mentions, refs)
           uses == FirstUses(text)
           cites == [i \in DOMAIN uses |-> refs[uses[i]]]
           answer == AnswerFrom(refs, mentions)
<1>1. mentions \in Seq(Nat) /\ K \in SUBSET (1..Len(mentions)) /\ text = Those(mentions, K)
  BY ConversationAssumption DEF Kept
<1>2. text \in Seq(Nat) /\ ToSet(text) = {mentions[i] : i \in K}
  <2> HIDE DEF K, text
  <2>1. text \in Seq(Nat)
    <3>1. ThoseOf(Nat, mentions, K)
      BY <1>1, ThoseAre
    <3> QED BY <1>1, <3>1 DEF ThoseOf
  <2> QED BY <1>1, <2>1, SetOfThose
<1>3. DOMAIN refs = 1..Len(refs)
  BY DEF Refs
<1>4. \A x \in ToSet(text) : x \in 1..Len(refs)
  BY <1>2, <1>3
<1> HIDE DEF K, text
<1>5. /\ uses \in Seq(Nat) /\ IsInjective(uses) /\ ToSet(uses) = ToSet(text)
      /\ \A i, k \in 1..Len(uses) : i < k =>
           \E a \in DOMAIN text : /\ text[a] = uses[i]
                                  /\ \A b \in DOMAIN text : text[b] = uses[k] => a < b
  BY <1>2, FirstUsesAre
<1>6. /\ answer.refs = uses /\ answer.text = text /\ answer.cites = cites
  BY DEF AnswerFrom, text
<1> HIDE DEF uses, answer
<1>7. DOMAIN uses = 1..Len(uses) /\ Len(uses) \in Nat /\ DOMAIN cites = 1..Len(uses)
      /\ Len(cites) = Len(uses) /\ \A i \in 1..Len(uses) : cites[i] = refs[uses[i]]
  BY <1>5
<1> HIDE DEF cites
<1>8. ASSUME NEW i \in 1..Len(uses)
      PROVE  {b.of : b \in {b \in shown : b.ref = answer.refs[i]}} = {answer.cites[i]}
  <2>1. answer.refs[i] \in 1..Len(refs)
    BY <1>4, <1>5, <1>6, SetOfSeq
  <2>2. PICK b \in shown : b.ref = answer.refs[i]
    BY <2>1 DEF Refs
  <2>3. \A d \in shown : d.ref = answer.refs[i] => d.of = answer.cites[i]
    BY <1>6, <1>7 DEF Refs
  <2> QED BY <2>2, <2>3
<1>9. /\ ToSet(answer.text) = ToSet(answer.refs) /\ IsInjective(answer.refs)
      /\ Len(answer.cites) = Len(answer.refs) /\ DOMAIN answer.refs = 1..Len(uses)
  BY <1>5, <1>6, <1>7
<1>10. \A i, k \in 1..Len(uses) : i < k =>
         \E a \in DOMAIN answer.text :
           /\ answer.text[a] = answer.refs[i]
           /\ \A b \in DOMAIN answer.text : answer.text[b] = answer.refs[k] => a < b
  BY <1>5, <1>6
<1>11. GroundedIn(answer, shown)
  <2>1. DOMAIN answer.refs = 1..Len(uses)
    BY <1>9
  <2>2. ASSUME NEW i \in DOMAIN answer.refs
        PROVE  {b.of : b \in {b \in shown : b.ref = answer.refs[i]}} = {answer.cites[i]}
    BY <1>8, <2>1
  <2>3. \A i, k \in DOMAIN answer.refs : i < k =>
         \E a \in DOMAIN answer.text :
           /\ answer.text[a] = answer.refs[i]
           /\ \A b \in DOMAIN answer.text : answer.text[b] = answer.refs[k] => a < b
    BY <1>10, <2>1
  <2> QED BY <1>9, <2>2, <2>3, Zenon DEF GroundedIn
<1> QED BY <1>11 DEF answer

\* Another result is shown under the next ref.
LEMMA RefsGrow ==
  ASSUME NEW shown, NEW refs, Refs(shown, refs), NEW b, b.ref = Len(refs) + 1
  PROVE  Refs(shown \cup {b}, [k \in DOMAIN refs \cup {Len(refs) + 1} |->
                                 IF k = Len(refs) + 1 THEN b.of ELSE refs[k]])
<1> DEFINE n == Len(refs)
           next == [k \in DOMAIN refs \cup {n + 1} |-> IF k = n + 1 THEN b.of ELSE refs[k]]
<1>1. n \in Nat /\ DOMAIN refs = 1..n
  BY DEF Refs
<1>2. DOMAIN refs \cup {n + 1} = 1..(n + 1)
  BY <1>1
<1>3. /\ next = [k \in 1..(n + 1) |-> next[k]] /\ next[n + 1] = b.of
      /\ \A k \in 1..n : next[k] = refs[k] /\ k \in 1..(n + 1)
  <2>1. n + 1 \in 1..(n + 1) /\ \A k \in 1..n : k # n + 1 /\ k \in 1..(n + 1)
    BY <1>1
  <2>2. DOMAIN next = 1..(n + 1)
    BY <1>2
  <2>3. next = [k \in 1..(n + 1) |-> next[k]]
    BY <1>2
  <2>4. \A k \in 1..(n + 1) : next[k] = IF k = n + 1 THEN b.of ELSE refs[k]
    BY <1>2
  <2> HIDE DEF n, next
  <2> QED BY <2>1, <2>3, <2>4
<1> HIDE DEF n, next
<1>4. next \in Seq({next[k] : k \in 1..(n + 1)}) /\ Len(next) = n + 1
  BY <1>1, <1>3
<1>5. next \in Seq(ToSet(next))
  BY <1>4, OwnElements
<1>6. ASSUME NEW d \in shown \cup {b} PROVE d.ref \in 1..(n + 1) /\ next[d.ref] = d.of
  <2>1. CASE d \in shown
    <3>1. d.ref \in 1..n /\ refs[d.ref] = d.of
      BY <2>1 DEF Refs, n
    <3> QED BY <1>3, <3>1
  <2>2. CASE d = b
    BY <1>1, <1>3, <2>2 DEF n
  <2> QED BY <2>1, <2>2
<1>7. ASSUME NEW k \in 1..(n + 1) PROVE \E d \in shown \cup {b} : d.ref = k
  <2>1. CASE k \in 1..n
    BY <2>1 DEF Refs, n
  <2>2. CASE k = n + 1
    BY <2>2 DEF n
  <2> QED BY <1>1, <2>1, <2>2
<1> QED BY <1>4, <1>5, <1>6, <1>7 DEF Refs, n, next

\* The conversation goes on with what was said and what answered it.
Longer(convo, blocks, told) == convo \o <<Turn("assistant", blocks), Turn("user", told)>>

LEMMA HeardMore ==
  ASSUME NEW voice, NEW convo, NEW said \in Seq(Replies), NEW m \in 1..Len(said),
         Heard(voice, convo, said, m - 1), NEW told,
         AnswersFirst(Uses(Spoken(voice, said[m], m)), told),
         Len(told) = Len(Uses(Spoken(voice, said[m], m)))
  PROVE  LET next == Longer(convo, Spoken(voice, said[m], m), told)
         IN  /\ Heard(voice, next, said, m)
             /\ ResultsIn(next) = ResultsIn(convo) \cup ToSet(told)
<1> DEFINE blocks == Spoken(voice, said[m], m)
           a == Turn("assistant", blocks)
           u == Turn("user", told)
           S == ToSet(convo) \cup {a, u}
           next == convo \o <<a, u>>
<1>1. m \in Nat /\ m - 1 \in Nat /\ convo \in Seq(ToSet(convo)) /\ Len(convo) = 2 * m - 2
  <2>1. Len(convo) = 2 * (m - 1) /\ m \in Nat /\ m - 1 \in Nat
    BY DEF Heard
  <2> QED BY <2>1 DEF Heard
<1>2. a.blocks = blocks /\ u.blocks = told
  BY TurnIs
<1> HIDE DEF a, u, blocks
<1>3. /\ next \in Seq(S) /\ Len(next) = 2 * m
      /\ \A i \in 1..(2 * m - 2) : next[i] = convo[i]
      /\ next[2 * m - 1] = a /\ next[2 * m] = u /\ DOMAIN next = 1..(2 * m)
      /\ DOMAIN convo = 1..(2 * m - 2)
  <2>1. convo \in Seq(S) /\ <<a, u>> \in Seq(S) /\ Len(<<a, u>>) = 2
    BY <1>1
  <2>2. next \in Seq(S) /\ Len(next) = Len(convo) + 2
        /\ (\A i \in 1..Len(convo) : next[i] = convo[i])
        /\ next[Len(convo) + 1] = a /\ next[Len(convo) + 2] = u
    BY <2>1
  <2> HIDE DEF next, S
  <2> QED BY <1>1, <2>1, <2>2
<1> HIDE DEF next, S
<1>4. ASSUME NEW n \in 1..m PROVE HeardTurn(voice, next, said, n)
  <2>1. CASE n = m
    <3>1. HeardTurn(voice, next, said, m)
      <4>1. next[2 * m - 1] = Turn("assistant", Spoken(voice, said[m], m))
        BY <1>3 DEF a, blocks
      <4>2. next[2 * m] = Turn("user", told) /\ next[2 * m].blocks = told
        BY <1>2, <1>3 DEF u
      <4> QED BY <4>1, <4>2 DEF HeardTurn
    <3> QED BY <2>1, <3>1
  <2>2. CASE n # m
    <3>1. n \in 1..(m - 1) /\ 2 * n - 1 \in 1..(2 * m - 2) /\ 2 * n \in 1..(2 * m - 2)
      BY <1>1, <2>2
    <3>2. HeardTurn(voice, convo, said, n) /\ next[2 * n - 1] = convo[2 * n - 1]
          /\ next[2 * n] = convo[2 * n]
      BY <1>3, <3>1 DEF Heard
    <3> QED BY <3>2 DEF HeardTurn
  <2> QED BY <2>1, <2>2
<1>5. Heard(voice, next, said, m)
  BY <1>3, <1>4, OwnElements DEF Heard
<1>6. BlocksOf(next) = BlocksOf(convo) \cup ToSet(blocks) \cup ToSet(told)
  <2>1. \A i \in 1..(2 * m) : i \in 1..(2 * m - 2) \/ i = 2 * m - 1 \/ i = 2 * m
    BY <1>1
  <2>2. 2 * m - 1 \in 1..(2 * m) /\ 2 * m \in 1..(2 * m)
        /\ \A i \in 1..(2 * m - 2) : i \in 1..(2 * m)
    BY <1>1
  <2>3. ASSUME NEW b PROVE b \in BlocksOf(next)
                             <=> b \in BlocksOf(convo) \/ b \in ToSet(blocks) \/ b \in ToSet(told)
    <3>0. DOMAIN next = 1..(2 * m) /\ DOMAIN convo = 1..(2 * m - 2)
      BY <1>3
    <3>1. b \in BlocksOf(next) <=> \E i \in 1..(2 * m) : b \in ToSet(next[i].blocks)
      BY <3>0, Zenon DEF BlocksOf
    <3>2. b \in BlocksOf(convo) <=> \E i \in 1..(2 * m - 2) : b \in ToSet(convo[i].blocks)
      BY <3>0, Zenon DEF BlocksOf
    <3>3. ASSUME b \in BlocksOf(next)
          PROVE  b \in BlocksOf(convo) \/ b \in ToSet(blocks) \/ b \in ToSet(told)
      <4>1. PICK i \in 1..(2 * m) : b \in ToSet(next[i].blocks)
        BY <3>1, <3>3
      <4> QED BY <1>2, <1>3, <2>1, <3>2, <4>1
    <3>4. ASSUME b \in BlocksOf(convo) PROVE b \in BlocksOf(next)
      <4>1. PICK i \in 1..(2 * m - 2) : b \in ToSet(convo[i].blocks)
        BY <3>2, <3>4
      <4> QED BY <1>3, <2>2, <3>1, <4>1
    <3>5. ASSUME b \in ToSet(blocks) \/ b \in ToSet(told) PROVE b \in BlocksOf(next)
      BY <1>2, <1>3, <2>2, <3>1, <3>5
    <3> QED BY <3>3, <3>4, <3>5
  <2> QED BY <2>3
<1>7. \A b \in ToSet(blocks) : b.type # "result"
  <2> SUFFICES ASSUME NEW b \in ToSet(blocks) PROVE b.type # "result"
    OBVIOUS
  <2>0. said[m] \in Replies
    OBVIOUS
  <2>1. PICK k \in 1..Len(said[m]) : b = SpokenBlock(voice, said[m][k], <<m, k>>)
    BY <2>0, SpokenOf DEF blocks
  <2>2. said[m][k].type \in {"text", "empty", "use"}
    BY <2>0, RepliesAre
  <2> QED BY <2>1, <2>2, SpokenBlockIs
<1>8. \A b \in ToSet(told) : b.type = "result"
  <2>1. told \in Seq(ToSet(told))
        /\ \A k \in 1..Len(told) : told[k] = Result(Uses(blocks)[k], told[k].ref)
    BY DEF AnswersFirst, blocks
  <2> SUFFICES ASSUME NEW b \in ToSet(told) PROVE b.type = "result"
    OBVIOUS
  <2>2. PICK k \in 1..Len(told) : told[k] = b
    BY <2>1, SetOfSeq
  <2>3. b = Result(Uses(blocks)[k], told[k].ref)
    BY <2>1, <2>2
  <2> HIDE DEF blocks
  <2> QED BY <2>3, ResultIs
<1>9. ResultsIn(next) = ResultsIn(convo) \cup ToSet(told)
  BY <1>6, <1>7, <1>8 DEF ResultsIn
<1> QED BY <1>5, <1>9 DEF Longer, next, a, u, blocks

-----------------------------------------------------------------------------
(* What holds of a talk.                                                   *)

\* While the tools run: the results so far answer the first of the calls.
AtTools(voice, r) ==
  /\ r.answer = NoAnswer /\ r.turn = Len(r.said) /\ Len(r.said) # 0
  /\ Heard(voice, r.convo, r.said, Len(r.said) - 1)
  /\ r.blocks = Spoken(voice, r.said[r.turn], r.turn)
  /\ AnswersFirst(Uses(r.blocks), r.results) /\ Len(r.results) < Len(Uses(r.blocks))
  /\ r.left = SubSeq(Uses(r.blocks), Len(r.results) + 1, Len(Uses(r.blocks)))

AtAsking(voice, r) ==
  /\ r.answer = NoAnswer /\ r.turn = Len(r.said) + 1
  /\ Heard(voice, r.convo, r.said, Len(r.said))

\* What was issued in a chat, and what it answers at last.
ChatHolds(r) ==
  /\ r.at = "asking" => Refs(ResultsIn(r.convo), r.issued)
  /\ r.at = "tools" => Refs(ResultsIn(r.convo) \cup ToSet(r.results), r.issued)
  /\ r.at = "log" /\ r.answer.status = "ok" =>
       /\ Refs(ResultsIn(r.convo), r.issued)
       /\ \E m \in Mentions : r.answer = AnswerFrom(r.issued, m)

Holds(voice, t, r) ==
  /\ r.said \in Seq(Replies)
  /\ r.at = "asking" => AtAsking(voice, r)
  /\ r.at = "tools" => AtTools(voice, r)
  /\ t \in Chats => ChatHolds(r)

TalksHold == \A t \in Talks : Holds(Voice, t, talk[t])

\* What a step makes of one talk.
MovesTo(t) == \E r : talk' = [talk EXCEPT ![t] = r] /\ Holds(Voice, t, r)

LEMMA NoTurnHolds ==
  ASSUME NEW voice, NEW t
  PROVE  Holds(voice, t, NoTurn)
<1>1. NoTurn.said = <<>> /\ NoTurn.at = "over"
  BY DEF NoTurn
<1> QED BY <1>1 DEF Holds, ChatHolds

\* A talk that starts was told nothing.
LEMMA StartHolds ==
  ASSUME NEW voice, NEW t, NEW n
  PROVE  Holds(voice, t, Opened(t)) /\ Holds(voice, t, [Opened(t) EXCEPT !.run = n])
<1> DEFINE Starts(r) == /\ r.at = "asking" /\ r.turn = 1 /\ r.said = <<>> /\ r.convo = <<>>
                        /\ r.issued = <<>> /\ r.answer = NoAnswer
<1>1. Starts(Opened(t)) /\ Starts([Opened(t) EXCEPT !.run = n])
  BY DEF Opened, NoTurn
<1>2. ASSUME NEW r, Starts(r) PROVE Holds(voice, t, r)
  <2>1. ToSet(<<>>) = {}
    BY SetOfNone
  <2>2. BlocksOf(<<>>) = {}
    BY DEF BlocksOf
  <2>3. Heard(voice, <<>>, <<>>, 0)
    BY <2>1 DEF Heard
  <2>4. Refs(ResultsIn(<<>>), <<>>)
    BY <2>1, <2>2 DEF Refs, ResultsIn
  <2>5. AtAsking(voice, r)
    BY <1>2, <2>3 DEF AtAsking
  <2> QED BY <1>2, <2>4, <2>5 DEF Holds, ChatHolds
<1> QED BY <1>1, <1>2

LEMMA SilentHolds ==
  ASSUME NEW voice, NEW t, NEW r, r = [x \in TalkFields |-> r[x]],
         r.said \in Seq(Replies), r.answer = NoAnswer, NEW status \in {"no_answer", "model_error"}
  PROVE  Holds(voice, t, Silent(r, status))
<1> DEFINE s == Silent(r, status)
<1>1. s.at = "log" /\ s.said = r.said /\ s.answer = [NoAnswer EXCEPT !.status = status]
  BY DEF TalkFields, Silent
<1>2. s.answer.status = status
  BY <1>1 DEF NoAnswer
<1> HIDE DEF s
<1>3. Holds(voice, t, s)
  BY <1>1, <1>2 DEF Holds, ChatHolds
<1> QED BY <1>3 DEF s

LEMMA AskHolds ==
  ASSUME NEW t \in Talks, Ask(t)
  PROVE  MovesTo(t) \/ UNCHANGED talk
<1>1. CASE MayAsk(spent)
  <2>1. talk' = [talk EXCEPT ![t] = Opened(t)]
    BY <1>1 DEF Ask, Goes
  <2> QED BY <2>1, StartHolds DEF MovesTo
<1>2. CASE ~MayAsk(spent)
  BY <1>2 DEF Ask
<1> QED BY <1>1, <1>2

LEMMA ResearchHolds ==
  ASSUME NEW t \in Talks, NEW force, ResearchPair(t, force)
  PROVE  MovesTo(t)
<1>1. talk' = [talk EXCEPT ![t] = [Opened(t) EXCEPT !.run = runs + 1]]
  BY DEF ResearchPair, Goes
<1>2. Holds(Voice, t, [Opened(t) EXCEPT !.run = runs + 1])
  BY StartHolds
<1> QED BY <1>1, <1>2 DEF MovesTo

LEMMA MalformedHolds ==
  ASSUME TalkInv, TalksHold, NEW t \in Talks, Malformed(t)
  PROVE  MovesTo(t)
<1> DEFINE s == [talk[t] EXCEPT !.attempt = @ + 1]
<1>1. talk' = [talk EXCEPT ![t] = s]
  BY DEF Malformed, Goes
<1>2. /\ s.at = talk[t].at /\ s.said = talk[t].said /\ s.turn = talk[t].turn
      /\ s.convo = talk[t].convo /\ s.answer = talk[t].answer /\ s.issued = talk[t].issued
      /\ s.blocks = talk[t].blocks /\ s.left = talk[t].left /\ s.results = talk[t].results
  BY DEF TalkInv, TalksOK, TalkOK, TalkFields
<1> HIDE DEF s
<1>3. Holds(Voice, t, talk[t])
  BY DEF TalksHold
<1>4. Holds(Voice, t, s)
  BY <1>2, <1>3 DEF Holds, AtAsking, AtTools, ChatHolds
<1> QED BY <1>1, <1>4 DEF MovesTo

LEMMA ModelErrorHolds ==
  ASSUME TalkInv, TalksHold, NEW t \in Talks, ModelError(t)
  PROVE  MovesTo(t)
<1> DEFINE free == [talk[t] EXCEPT !.used = 0]
<1>1. /\ talk[t].at = "asking"
      /\ \/ talk' = [talk EXCEPT ![t] = NoTurn]
         \/ talk' = [talk EXCEPT ![t] = Silent(free, "model_error")]
  BY DEF ModelError, Goes
<1>2. free = [x \in TalkFields |-> free[x]] /\ free.said = talk[t].said /\ free.answer = talk[t].answer
  BY <1>1 DEF TalkOK, TalkFields, TalkInv, TalksOK
<1>3. talk[t].said \in Seq(Replies) /\ talk[t].answer = NoAnswer
  BY <1>1 DEF TalksHold, Holds, AtAsking
<1> HIDE DEF free
<1>4. Holds(Voice, t, Silent(free, "model_error"))
  BY <1>2, <1>3, SilentHolds
<1> QED BY <1>1, <1>4, NoTurnHolds DEF MovesTo

\* The steps that end a talk or store what it found.
LEMMA EndHolds ==
  ASSUME TalkInv, TalksHold, NEW t \in Talks, LogAnswer(t) \/ WriteBeta(t) \/ WriteExposure(t)
  PROVE  MovesTo(t)
<1> DEFINE on == [talk[t] EXCEPT !.at = "exposure"]
<1>1. \/ talk' = [talk EXCEPT ![t] = NoTurn]
      \/ talk' = [talk EXCEPT ![t] = on]
  BY DEF LogAnswer, WriteBeta, WriteExposure, Goes
<1>2. on.at = "exposure" /\ on.said = talk[t].said
  BY DEF TalkOK, TalkFields, TalkInv, TalksOK
<1>3. talk[t].said \in Seq(Replies)
  BY DEF TalksHold, Holds
<1> HIDE DEF on
<1>4. Holds(Voice, t, on)
  BY <1>2, <1>3 DEF Holds, ChatHolds
<1> QED BY <1>1, <1>4, NoTurnHolds DEF MovesTo

LEMMA ReplyHolds ==
  ASSUME TalkInv, TalksHold, NEW t \in Talks,
         NEW reply \in IF t \in Chats THEN ChatReplies ELSE AgentReplies, Reply(t, reply)
  PROVE  MovesTo(t)
<1> DEFINE r == talk[t]
           blocks == Spoken(Voice, reply, r.turn)
           uses == Uses(blocks)
           now == [r EXCEPT !.used = @ + 1, !.attempt = 1, !.blocks = blocks,
                            !.left = uses, !.results = <<>>]
           toTools == [now EXCEPT !.at = "tools", !.said = Append(@, reply)]
           toLog(m) == [now EXCEPT !.at = "log", !.answer = Answer(t, m)]
<1>1. /\ r.at = "asking"
      /\ \/ uses # <<>> /\ talk' = [talk EXCEPT ![t] = toTools]
         \/ talk' = [talk EXCEPT ![t] = NoTurn]
         \/ talk' = [talk EXCEPT ![t] = Silent(now, "no_answer")]
         \/ \E m \in Mentions : talk' = [talk EXCEPT ![t] = toLog(m)]
  BY BlocksAre DEF Reply, Goes
<1>2. reply \in Replies
  BY DEF Replies
<1>3. TalkOK(r) /\ r = [x \in TalkFields |-> r[x]] /\ r.turn \in Nat
  BY TalkConstants DEF TalkInv, TalksOK, TalkOK
<1>4. Holds(Voice, t, r) /\ AtAsking(Voice, r) /\ r.said \in Seq(Replies)
  BY <1>1 DEF TalksHold, Holds
<1> HIDE DEF r, blocks, uses
<1>5. /\ now = [x \in TalkFields |-> now[x]]
      /\ now.at = "asking" /\ now.said = r.said /\ now.convo = r.convo /\ now.turn = r.turn
      /\ now.blocks = blocks /\ now.left = uses /\ now.results = <<>>
      /\ now.issued = r.issued /\ now.answer = NoAnswer
  BY <1>1, <1>3, <1>4 DEF TalkFields, AtAsking
<1> HIDE DEF now
<1>7. ASSUME uses # <<>> PROVE Holds(Voice, t, toTools)
  <2> DEFINE s == toTools
  <2>1. /\ s.at = "tools" /\ s.said = Append(r.said, reply) /\ s.convo = r.convo
        /\ s.turn = r.turn /\ s.blocks = blocks /\ s.left = uses /\ s.results = <<>>
        /\ s.issued = r.issued /\ s.answer = NoAnswer
    BY <1>5 DEF TalkFields
  <2> HIDE DEF s
  <2>2. /\ s.said \in Seq(Replies) /\ Len(s.said) = Len(r.said) + 1 /\ Len(r.said) \in Nat
        /\ s.said[Len(r.said) + 1] = reply
        /\ \A n \in 1..Len(r.said) : s.said[n] = r.said[n]
    BY <1>2, <1>4, <2>1
  <2>3. r.turn = Len(r.said) + 1 /\ Heard(Voice, r.convo, r.said, Len(r.said))
    BY <1>4 DEF AtAsking
  <2>4. Heard(Voice, s.convo, s.said, Len(s.said) - 1)
    <3>1. Len(s.said) - 1 = Len(r.said)
      BY <2>2
    <3>2. \A n \in 1..Len(r.said) : HeardTurn(Voice, r.convo, s.said, n)
      BY <2>2, <2>3 DEF Heard, HeardTurn
    <3>3. Heard(Voice, r.convo, s.said, Len(r.said))
      BY <2>3, <3>2 DEF Heard
    <3> QED BY <2>1, <3>1, <3>3
  <2>5. s.blocks = Spoken(Voice, s.said[s.turn], s.turn)
    BY <2>1, <2>2, <2>3 DEF blocks
  <2>6. uses \in Seq(ToSet(uses)) /\ Len(uses) \in Nat /\ Uses(s.blocks) = uses
    <3>1. blocks \in Seq(ToSet(blocks))
      BY <1>2, SpokenIs DEF blocks
    <3> QED BY <2>1, <3>1, CallsAre DEF uses
  <2>7. Len(uses) # 0 /\ Len(s.results) = 0
    BY <1>7, <2>1, <2>6
  <2>8. AnswersFirst(uses, s.results) /\ Len(s.results) < Len(uses)
    BY <2>1, <2>6, <2>7, SetOfNone DEF AnswersFirst
  <2>9. s.left = SubSeq(uses, Len(s.results) + 1, Len(uses))
    <3>1. SubSeq(uses, 1, Len(uses)) = uses
      BY <2>6
    <3> QED BY <2>1, <2>7, <3>1
  <2>10. AtTools(Voice, s)
    BY <2>1, <2>2, <2>3, <2>4, <2>5, <2>6, <2>8, <2>9 DEF AtTools
  <2>11. ASSUME t \in Chats PROVE ChatHolds(s)
    <3>1. Refs(ResultsIn(r.convo), r.issued)
      BY <1>1, <1>4, <2>11 DEF Holds, ChatHolds, r
    <3>2. ResultsIn(s.convo) \cup ToSet(s.results) = ResultsIn(r.convo)
      BY <2>1, SetOfNone
    <3> QED BY <2>1, <3>1, <3>2 DEF ChatHolds
  <2>12. Holds(Voice, t, s)
    BY <2>1, <2>2, <2>10, <2>11 DEF Holds
  <2> QED BY <2>12 DEF s
<1>8. Holds(Voice, t, Silent(now, "no_answer"))
  BY <1>4, <1>5, SilentHolds
<1>9. ASSUME NEW m \in Mentions PROVE Holds(Voice, t, toLog(m))
  <2> DEFINE s == toLog(m)
  <2>1. /\ s.at = "log" /\ s.said = r.said /\ s.convo = r.convo /\ s.issued = r.issued
        /\ s.answer = Answer(t, m)
    BY <1>5 DEF TalkFields
  <2> HIDE DEF s
  <2>2. s.answer = AnswerFrom(s.issued, m)
    BY <2>1 DEF Answer, AnswerFrom, r
  <2>3. ASSUME t \in Chats PROVE ChatHolds(s)
    <3>1. Refs(ResultsIn(r.convo), r.issued)
      BY <1>1, <1>4, <2>3 DEF Holds, ChatHolds, r
    <3> QED BY <2>1, <2>2, <3>1 DEF ChatHolds
  <2>4. Holds(Voice, t, s)
    BY <1>4, <2>1, <2>3 DEF Holds
  <2> QED BY <2>4 DEF s
<1> HIDE DEF toTools, toLog
<1> QED BY <1>1, <1>7, <1>8, <1>9, NoTurnHolds DEF MovesTo

\* The turn is over: the conversation has it, and the talk goes on or ends.
LEMMA NextTurnHolds ==
  ASSUME NEW t, NEW voice, NEW r, TalkOK(r), r.said \in Seq(Replies), r.answer = NoAnswer,
         r.at = "tools", r.turn = Len(r.said), Len(r.said) # 0,
         Heard(voice, r.convo, r.said, Len(r.said) - 1),
         r.blocks = Spoken(voice, r.said[r.turn], r.turn),
         AnswersFirst(Uses(r.blocks), r.results), Len(r.results) = Len(Uses(r.blocks)),
         t \in Chats => Refs(ResultsIn(r.convo) \cup ToSet(r.results), r.issued)
  PROVE  Holds(voice, t, NextTurn(r))
<1> DEFINE convo == r.convo \o <<Turn("assistant", AssistantContent(r.blocks)),
                                 Turn("user", r.results)>>
<1>1. r = [x \in TalkFields |-> r[x]]
  BY DEF TalkOK
<1>2. r.turn \in 1..Len(r.said) /\ r.said[r.turn] \in Replies /\ Len(r.said) \in Nat
  BY Z3
<1>3. convo = r.convo \o <<Turn("assistant", Spoken(voice, r.said[r.turn], r.turn)),
                           Turn("user", r.results)>>
  BY <1>2, ContentIs
<1> HIDE DEF convo
<1>4. CASE r.submitted # NoPeriod
  <2> DEFINE s == [r EXCEPT !.at = "beta"]
  <2>1. NextTurn(r) = s
    BY <1>4 DEF NextTurn
  <2>2. s.at = "beta" /\ s.said = r.said
    BY <1>1 DEF TalkFields
  <2> HIDE DEF s
  <2> QED BY <2>1, <2>2 DEF Holds, ChatHolds
<1>5. CASE r.submitted = NoPeriod /\ r.turn < TalkTurns
  <2> DEFINE s == [r EXCEPT !.at = "asking", !.turn = @ + 1, !.convo = convo, !.blocks = <<>>,
                            !.results = <<>>]
  <2>1. NextTurn(r) = s
    BY <1>5 DEF NextTurn, convo
  <2>2. /\ s.at = "asking" /\ s.said = r.said /\ s.turn = r.turn + 1 /\ s.convo = convo
        /\ s.answer = NoAnswer /\ s.issued = r.issued
    BY <1>1 DEF TalkFields
  <2> HIDE DEF s
  <2>3. /\ Heard(voice, convo, r.said, r.turn)
        /\ ResultsIn(convo) = ResultsIn(r.convo) \cup ToSet(r.results)
    <3> DEFINE said == r.said
               m    == r.turn
               told == r.results
               heard == r.convo
               more  == Longer(heard, Spoken(voice, said[m], m), told)
    <3>1. said \in Seq(Replies) /\ m \in 1..Len(said) /\ Heard(voice, heard, said, m - 1)
      BY <1>2
    <3>2. AnswersFirst(Uses(Spoken(voice, said[m], m)), told)
          /\ Len(told) = Len(Uses(Spoken(voice, said[m], m)))
      OBVIOUS
    <3> HIDE DEF said, m, told, heard
    <3>3. Heard(voice, more, said, m) /\ ResultsIn(more) = ResultsIn(heard) \cup ToSet(told)
      BY <3>1, <3>2, HeardMore
    <3> QED BY <1>3, <3>3 DEF Longer, said, m, told, heard
  <2>4. AtAsking(voice, s)
    BY <2>2, <2>3 DEF AtAsking
  <2>5. t \in Chats => ChatHolds(s)
    BY <2>2, <2>3 DEF ChatHolds
  <2> QED BY <2>1, <2>2, <2>4, <2>5 DEF Holds
<1>6. CASE r.submitted = NoPeriod /\ ~(r.turn < TalkTurns)
  <2>1. NextTurn(r) = Silent(r, "no_answer")
    BY <1>6 DEF NextTurn
  <2> QED BY <1>1, <2>1, SilentHolds
<1> QED BY <1>4, <1>5, <1>6

LEMMA RunToolHolds ==
  ASSUME TalkInv, TalksHold, NEW t \in Talks, RunTool(t)
  PROVE  MovesTo(t)
<1> DEFINE now  == talk[t]
           call == Head(now.left)
           ref  == NextRef(now)
           result == [type |-> "result", name |-> "", id |-> call.id, of |-> call.id,
                      ref |-> IF t \in Chats THEN ref ELSE 0]
           told == [now EXCEPT
             !.left = Tail(@), !.results = Append(@, result),
             !.issued = IF t \in Agents THEN @
                        ELSE [n \in DOMAIN @ \cup {ref} |-> IF n = ref THEN Citation(call) ELSE now.issued[n]],
             !.submitted = IF call.name \in Periods \cup {"nothing"} THEN call.name ELSE @]
           next == NextTurn(told)
           uses == Uses(now.blocks)
           more == [n \in DOMAIN now.issued \cup {ref} |->
                      IF n = ref THEN Citation(call) ELSE now.issued[n]]
<1>1. /\ now.at = "tools"
      /\ \/ told.left # <<>> /\ talk' = [talk EXCEPT ![t] = told]
         \/ talk' = [talk EXCEPT ![t] = NoTurn]
         \/ told.left = <<>> /\ talk' = [talk EXCEPT ![t] = next]
  BY DEF RunTool, Goes
<1>2. now = [x \in TalkFields |-> now[x]]
  BY DEF TalkInv, TalksOK, TalkOK
<1>3. Holds(Voice, t, now) /\ AtTools(Voice, now) /\ now.said \in Seq(Replies)
  BY <1>1 DEF TalksHold, Holds
<1>4. uses \in Seq(ToSet(uses)) /\ Len(uses) \in Nat
  <2>1. now.turn \in 1..Len(now.said) /\ now.said[now.turn] \in Replies
        /\ now.blocks = Spoken(Voice, now.said[now.turn], now.turn)
    BY <1>3 DEF AtTools
  <2> DEFINE blocks == Spoken(Voice, now.said[now.turn], now.turn)
  <2>2. blocks \in Seq(ToSet(blocks))
    BY <2>1, SpokenIs
  <2>3. Uses(blocks) \in Seq(ToSet(Uses(blocks))) /\ Len(Uses(blocks)) \in Nat
    <3> HIDE DEF blocks
    <3> QED BY <2>2, CallsAre
  <2> QED BY <2>1, <2>3
<1> HIDE DEF call, ref, result, uses, more
<1>5. TalkOK(told)
  BY DEF TalkOK, TalkFields, TalkInv, TalksOK
<1> HIDE DEF now
<1>6. /\ told.at = "tools" /\ told.said = now.said /\ told.turn = now.turn
      /\ told.convo = now.convo /\ told.blocks = now.blocks /\ told.answer = now.answer
      /\ told.left = Tail(now.left) /\ told.results = Append(now.results, result)
      /\ t \notin Agents => told.issued = more
  BY <1>1, <1>2 DEF TalkFields, more
<1> HIDE DEF told, next
<1> DEFINE k == Len(now.results)
<1>7. /\ now.results \in Seq(ToSet(now.results)) /\ k \in Nat /\ k < Len(uses)
      /\ \A i \in 1..k : now.results[i] = Result(uses[i], now.results[i].ref)
      /\ now.left = SubSeq(uses, k + 1, Len(uses))
  BY <1>3 DEF AtTools, AnswersFirst, uses
<1>8. call = uses[k + 1] /\ told.left = SubSeq(uses, k + 2, Len(uses))
      /\ (told.left = <<>> <=> k + 1 = Len(uses))
  <2> HIDE DEF k
  <2>1. k \in 0..(Len(uses) - 1)
    BY <1>4, <1>7
  <2>2. /\ Head(SubSeq(uses, k + 1, Len(uses))) = uses[k + 1]
        /\ Tail(SubSeq(uses, k + 1, Len(uses))) = SubSeq(uses, k + 2, Len(uses))
        /\ SubSeq(uses, k + 2, Len(uses)) = <<>> <=> k + 1 = Len(uses)
    BY <1>4, <2>1, RestOfSeq
  <2> QED BY <1>6, <1>7, <2>2 DEF call, k
<1>9. result = Result(call, result.ref) /\ (t \in Chats => result.ref = ref)
  BY DEF result, Result
<1> HIDE DEF k
<1>10. /\ told.results \in Seq(ToSet(told.results)) /\ Len(told.results) = k + 1
       /\ ToSet(told.results) = ToSet(now.results) \cup {result}
       /\ \A i \in 1..(k + 1) : told.results[i] = Result(uses[i], told.results[i].ref)
  <2> DEFINE S == ToSet(now.results) \cup {result}
  <2>1. now.results \in Seq(S) /\ result \in S
    BY <1>7
  <2>2. /\ told.results \in Seq(S) /\ Len(told.results) = k + 1
        /\ told.results[k + 1] = result
        /\ \A i \in 1..k : told.results[i] = now.results[i]
    <3> HIDE DEF S
    <3> QED BY <1>6, <2>1 DEF k
  <2>3. ToSet(told.results) = ToSet(now.results) \cup {result}
    <3>1. ToSet(Append(now.results, result)) = ToSet(now.results) \cup {result}
      BY <2>1, SetOfAppend
    <3> QED BY <1>6, <3>1
  <2>4. \A i \in 1..(k + 1) : i \in 1..k \/ i = k + 1
    BY <1>7
  <2>5. \A i \in 1..(k + 1) : told.results[i] = Result(uses[i], told.results[i].ref)
    BY <1>7, <1>8, <1>9, <2>2, <2>4
  <2> QED BY <2>2, <2>3, <2>5, OwnElements
<1>11. AnswersFirst(uses, told.results) /\ k + 1 <= Len(uses)
  BY <1>4, <1>7, <1>10 DEF AnswersFirst
<1>12. t \in Chats => Refs(ResultsIn(told.convo) \cup ToSet(told.results), told.issued)
  <2> SUFFICES ASSUME t \in Chats
               PROVE  Refs(ResultsIn(told.convo) \cup ToSet(told.results), told.issued)
    OBVIOUS
  <2> DEFINE shown == ResultsIn(now.convo) \cup ToSet(now.results)
  <2>1. Refs(shown, now.issued)
    BY <1>1, <1>3 DEF Holds, ChatHolds
  <2>2. ref = Len(now.issued) + 1 /\ result.ref = ref /\ result.of = call.id
    BY <1>9, ResultIs DEF ref, NextRef
  <2>3. t \notin Agents
    BY TalkConstants
  <2>4. more = [n \in DOMAIN now.issued \cup {Len(now.issued) + 1} |->
                  IF n = Len(now.issued) + 1 THEN result.of ELSE now.issued[n]]
    BY <2>2 DEF more, Citation
  <2>5. Refs(shown \cup {result}, more)
    <3> HIDE DEF shown
    <3> QED BY <2>1, <2>2, <2>4, RefsGrow
  <2>6. ResultsIn(told.convo) \cup ToSet(told.results) = shown \cup {result}
    BY <1>6, <1>10
  <2> QED BY <1>6, <2>3, <2>5, <2>6
<1>13. /\ told.answer = NoAnswer /\ told.turn = Len(told.said) /\ Len(told.said) # 0
       /\ told.said \in Seq(Replies)
       /\ Heard(Voice, told.convo, told.said, Len(told.said) - 1)
       /\ told.blocks = Spoken(Voice, told.said[told.turn], told.turn)
       /\ Uses(told.blocks) = uses
  BY <1>3, <1>6 DEF AtTools, uses
<1>14. ASSUME told.left # <<>> PROVE Holds(Voice, t, told)
  <2>1. Len(told.results) < Len(uses)
    BY <1>4, <1>7, <1>8, <1>10, <1>14
  <2>2. told.left = SubSeq(uses, Len(told.results) + 1, Len(uses))
    <3>1. k + 1 + 1 = k + 2
      BY <1>7
    <3> QED BY <1>8, <1>10, <3>1
  <2>3. AtTools(Voice, told)
    BY <1>11, <1>13, <2>1, <2>2 DEF AtTools
  <2> QED BY <1>6, <1>12, <1>13, <2>3 DEF Holds, ChatHolds
<1>15. ASSUME told.left = <<>> PROVE Holds(Voice, t, next)
  <2>1. Len(told.results) = Len(uses)
    BY <1>8, <1>10, <1>15
  <2> QED BY <1>5, <1>6, <1>11, <1>12, <1>13, <2>1, NextTurnHolds DEF next
<1> QED BY <1>1, <1>14, <1>15, NoTurnHolds DEF MovesTo

LEMMA StepHolds ==
  ASSUME TalkInv, TalksHold, NEW t \in Talks, TalkStep(t)
  PROVE  MovesTo(t) \/ UNCHANGED talk
BY AskHolds, ResearchHolds, ReplyHolds, MalformedHolds, ModelErrorHolds, RunToolHolds, EndHolds
   DEF TalkStep

\* The build and its library stay.
LEMMA VoiceKept ==
  ASSUME NEW t \in Talks, TalkStep(t)
  PROVE  Voice' = Voice
<1>1. UNCHANGED build
  BY DEF TalkStep, Ask, ResearchPair, Reply, Malformed, ModelError, RunTool, LogAnswer, WriteBeta,
         WriteExposure
<1> QED BY <1>1 DEF build, Voice

\* What the steps keep of every talk: the conversation has each turn as it was
\* said and answered, the refs of a chat were issued one by one for the results
\* it was shown, and an answer is made from these (llm/wrapper.py,
\* research/chat_engine.py, research/agent.py).
THEOREM TalksHoldAlways == ConversationSpec => [](TalkInv /\ TalksHold)
<1>1. ConversationInit => TalksHold
  <2> SUFFICES ASSUME ConversationInit, NEW t \in Talks PROVE Holds(Voice, t, talk[t])
    BY DEF TalksHold
  <2>1. talk[t] = NoTurn
    BY DEF ConversationInit
  <2> QED BY <2>1, NoTurnHolds
<1>2. TalkInv /\ TalksHold /\ [ConversationNext]_conversationVars => TalksHold'
  <2> SUFFICES ASSUME TalkInv, TalksHold, [ConversationNext]_conversationVars PROVE TalksHold'
    OBVIOUS
  <2>1. ASSUME Voice' = Voice, UNCHANGED talk PROVE TalksHold'
    BY <2>1 DEF TalksHold
  <2>2. CASE UNCHANGED conversationVars
    BY <2>1, <2>2 DEF conversationVars, build, Voice
  <2>3. CASE ConversationNext
    <3>1. PICK t \in Talks : TalkStep(t)
      BY <2>3 DEF ConversationNext, TalkInv, TablesOK
    <3>2. Voice' = Voice
      BY <3>1, VoiceKept
    <3>3. CASE MovesTo(t)
      <4>1. PICK r : talk' = [talk EXCEPT ![t] = r] /\ Holds(Voice, t, r)
        BY <3>3 DEF MovesTo
      <4>2. \A u \in Talks : talk'[u] = IF u = t THEN r ELSE talk[u]
        BY <4>1 DEF TalkInv, TalksOK
      <4>3. \A u \in Talks : Holds(Voice', u, talk'[u])
        BY <3>2, <4>1, <4>2 DEF TalksHold
      <4> QED BY <4>3 DEF TalksHold
    <3> QED BY <2>1, <3>1, <3>2, <3>3, StepHolds
  <2> QED BY <2>2, <2>3
<1> QED BY <1>1, <1>2, ConversationInvariant, PTL DEF ConversationSpec

\* A talk can account for what it gives out, whatever the models say, for any
\* number of chats, agents and turns: a provider gets its own words back with
\* their signatures and one answer under the right name for each of its calls,
\* and an answer cites, once each and in the order of first use, the results that
\* were shown under its refs (llm/wrapper.py, research/chat_engine.py).
THEOREM TalkSoundHolds == ConversationSpec => []TalkSound
<1>1. TalkInv /\ TalksHold => HistoryAccepted
  <2> SUFFICES ASSUME TalkInv, TalksHold, NEW t \in Talks, talk[t].at = "asking", carries
               PROVE  Accepted(t)
    BY DEF HistoryAccepted
  <2>1. /\ talk[t].said \in Seq(Replies)
        /\ Heard(Voice, talk[t].convo, talk[t].said, Len(talk[t].said))
    BY DEF TalksHold, Holds, AtAsking
  <2> QED BY <2>1, HeardAccepted
<1>2. TalksHold => AnswerGrounded
  <2> SUFFICES ASSUME TalksHold, NEW t \in Chats,
                      talk[t].at = "log", talk[t].answer.status = "ok"
               PROVE  GroundedIn(talk[t].answer, ResultsIn(talk[t].convo))
    BY Zenon DEF AnswerGrounded, GroundedIn, ResultsIn, BlocksOf
  <2>1. /\ Refs(ResultsIn(talk[t].convo), talk[t].issued)
        /\ \E m \in Mentions : talk[t].answer = AnswerFrom(talk[t].issued, m)
    BY TalkConstants DEF TalksHold, Holds, ChatHolds
  <2> QED BY <2>1, AnswerIsGrounded
<1> QED BY <1>1, <1>2, TalksHoldAlways, PTL DEF TalkSound

-----------------------------------------------------------------------------
(* Holdings.                                                               *)

\* Whom submission s names for quarter q has a row, unless it could not be written.
NamedHeld(c, q, s) ==
  \A h \in Paper(c, s).names : holding[c][q][h] # 0 \/ <<c, s>> \in uncaptured

FilingsTyped ==
  \A c \in Owned : submitted[c] <= Len(Submissions[c]) /\ declared[c] <= Len(CorpActions[c])

\* What the visit keeps for a quarter: of what it has seen of the listing so far,
\* nothing readable is newer for BSE, nor older for NSE.
KeptSound(v, q) ==
  /\ v.kept[q] # 0 =>
       FiledFor(v.of, q, v.kept[q]) /\ v.next < v.kept[q] /\ v.kept[q] <= v.page
       /\ NamedHeld(v.of, q, v.kept[q])
  /\ \A t \in (v.next + 1)..v.page :
       /\ Paper(v.of, t).quarter = q
       /\ v.kept[q] = 0 \/ (IF v.of \in BseNames THEN t > v.kept[q] ELSE t < v.kept[q])
       => t \in v.unread

VisitSound(j) ==
  LET v == visit[j]
  IN  v.of # NoName =>
        /\ v.of \in SweptBy(j) /\ stage[j] \in {"patterns", "actions"} /\ v.next <= v.page
        /\ v.page <= IF stage[j] = "patterns" THEN submitted[v.of] ELSE declared[v.of]
        /\ stage[j] = "patterns" => \A q \in ReportQuarters : KeptSound(v, q)

PagesFiled == \A c \in Owned, q \in ReportQuarters : pattern[c][q].page <= submitted[c]
StakesSound ==
  \A x \in stakes : x[3] \in 1..submitted[x[1]] /\ x[2] \in Paper(x[1], x[3]).owners
CopiesSound == \A x \in copying : x[2] \in 1..submitted[x[1]]
AwaitedSound == \A j \in Sweepers : awaited[j] \subseteq SweptBy(j)

HoldingsInv ==
  /\ HoldingsTypeOK /\ FilingsTyped /\ AwaitedSound
  /\ \A j \in Sweepers : VisitSound(j)
  /\ PagesFiled /\ StakesSound /\ CopiesSound
  /\ PatternsTraced /\ RevisionsKept /\ HoldersTraced /\ OthersTraced

-----------------------------------------------------------------------------

\* A submission that was filed is one of the list.
LEMMA PaperIs ==
  ASSUME NEW c \in Owned, NEW s \in 1..Len(Submissions[c])
  PROVE  /\ Paper(c, s).quarter \in ReportQuarters
         /\ Paper(c, s).names \in SUBSET Stakeholders
         /\ Paper(c, s).owners \in SUBSET Stakeholders
<1> DEFINE S == [quarter : ReportQuarters, names : SUBSET Stakeholders, owners : SUBSET Stakeholders]
<1>1. Submissions[c] \in Seq(S)
  BY HoldingsAssumption
<1>2. Submissions[c][s] \in S
  <2> HIDE DEF S
  <2> QED BY <1>1
<1> QED BY <1>2 DEF Paper

LEMMA LenIs == ASSUME NEW c \in Owned PROVE Len(Submissions[c]) \in Nat /\ Len(CorpActions[c]) \in Nat
<1>1. Submissions[c] \in Seq([quarter : ReportQuarters, names : SUBSET Stakeholders,
                              owners : SUBSET Stakeholders])
  BY HoldingsAssumption
<1>2. CorpActions[c] \in Seq(ActionKeys)
  BY HoldingsAssumption
<1> QED BY <1>1, <1>2

LEMMA FiledIs ==
  ASSUME HoldingsTypeOK, FilingsTyped, NEW c \in Owned, NEW s \in 1..submitted[c]
  PROVE  s \in 1..Len(Submissions[c])
<1>1. submitted[c] \in Nat /\ submitted[c] <= Len(Submissions[c])
  BY DEF HoldingsTypeOK, FilingsTyped
<1> QED BY <1>1, LenIs

LEMMA SweptIs == \A j \in Sweepers : SweptBy(j) \subseteq Owned
BY DEF SweptBy, Owned

\* What was filed, written and held remains so.
Remain ==
  /\ submitted \in [Owned -> Nat] /\ submitted' \in [Owned -> Nat]
  /\ declared \in [Owned -> Nat] /\ declared' \in [Owned -> Nat]
  /\ \A c \in Owned : submitted[c] <= submitted'[c] /\ declared[c] <= declared'[c]
  /\ \A c \in Owned, q \in ReportQuarters, h \in Stakeholders :
       holding[c][q][h] # 0 => holding'[c][q][h] # 0
  /\ uncaptured \subseteq uncaptured'

LEMMA FiledRemains ==
  ASSUME Remain, NEW c \in Owned, NEW q, NEW s, FiledFor(c, q, s)
  PROVE  FiledFor(c, q, s)'
<1>1. submitted[c] \in Nat /\ submitted'[c] \in Nat /\ submitted[c] <= submitted'[c]
  BY DEF Remain
<1> QED BY <1>1 DEF FiledFor, Paper

LEMMA HeldRemains ==
  ASSUME Remain, HoldingsTypeOK, FilingsTyped, NEW c \in Owned, NEW q \in ReportQuarters,
         NEW s \in 1..submitted[c], NamedHeld(c, q, s)
  PROVE  NamedHeld(c, q, s)'
<1>1. Paper(c, s).names \in SUBSET Stakeholders
  BY FiledIs, PaperIs
<1>2. Paper(c, s)' = Paper(c, s)
  BY DEF Paper
<1> QED BY <1>1, <1>2 DEF NamedHeld, Remain

\* So does what holds of a table that is left alone, and of a visit.
LEMMA PatternsRemain ==
  ASSUME HoldingsInv, Remain, UNCHANGED pattern
  PROVE  PatternsTraced' /\ RevisionsKept' /\ PagesFiled'
<1>1. HoldingsTypeOK /\ FilingsTyped
  BY DEF HoldingsInv
<1>2. ASSUME NEW c \in Owned, NEW q \in ReportQuarters, pattern[c][q].of # 0
      PROVE  /\ FiledFor(c, q, pattern[c][q].of)' /\ pattern[c][q].of <= pattern[c][q].page
             /\ NamedHeld(c, q, pattern[c][q].of)'
  <2>1. /\ FiledFor(c, q, pattern[c][q].of) /\ pattern[c][q].of <= pattern[c][q].page
        /\ NamedHeld(c, q, pattern[c][q].of)
    BY <1>2 DEF HoldingsInv, PatternsTraced, NamedHeld
  <2>2. FiledFor(c, q, pattern[c][q].of)'
    BY <2>1, FiledRemains
  <2>3. pattern[c][q].of \in 1..submitted[c]
    BY <2>1 DEF FiledFor
  <2>4. NamedHeld(c, q, pattern[c][q].of)'
    BY <1>1, <2>1, <2>3, HeldRemains
  <2> QED BY <2>1, <2>2, <2>4
<1>3. PatternsTraced'
  BY <1>2 DEF PatternsTraced, NamedHeld, FiledFor, Paper
<1>4. RevisionsKept'
  BY DEF HoldingsInv, RevisionsKept, Paper
<1>5. ASSUME NEW c \in Owned, NEW q \in ReportQuarters
      PROVE  pattern[c][q].page <= submitted'[c]
  <2>1. pattern[c][q].page \in Nat /\ pattern[c][q].page <= submitted[c]
    BY <1>1 DEF HoldingsInv, PagesFiled, HoldingsTypeOK, Rows
  <2> QED BY <2>1 DEF Remain
<1> QED BY <1>3, <1>4, <1>5 DEF PagesFiled

LEMMA VisitRemains ==
  ASSUME HoldingsInv, Remain, NEW j \in Sweepers, visit'[j] = visit[j], stage'[j] = stage[j]
  PROVE  VisitSound(j)'
<1> DEFINE v == visit[j]
<1>1. HoldingsTypeOK /\ FilingsTyped /\ VisitSound(j)
  BY DEF HoldingsInv
<1>2. SUFFICES ASSUME v.of # NoName
               PROVE  /\ v.of \in SweptBy(j) /\ stage[j] \in {"patterns", "actions"}
                      /\ v.next <= v.page
                      /\ v.page <= IF stage[j] = "patterns" THEN submitted'[v.of] ELSE declared'[v.of]
                      /\ stage[j] = "patterns" => \A q \in ReportQuarters : KeptSound(v, q)'
  BY DEF VisitSound, SweptBy
<1>3. /\ v.of \in SweptBy(j) /\ stage[j] \in {"patterns", "actions"} /\ v.next <= v.page
      /\ v.page <= IF stage[j] = "patterns" THEN submitted[v.of] ELSE declared[v.of]
      /\ stage[j] = "patterns" => \A q \in ReportQuarters : KeptSound(v, q)
  BY <1>1, <1>2 DEF VisitSound
<1>4. v.of \in Owned /\ v.page \in Nat
  BY <1>1, <1>3, SweptIs DEF HoldingsTypeOK
<1>5. v.page <= IF stage[j] = "patterns" THEN submitted'[v.of] ELSE declared'[v.of]
  <2>1. /\ submitted[v.of] \in Nat /\ submitted'[v.of] \in Nat /\ submitted[v.of] <= submitted'[v.of]
        /\ declared[v.of] \in Nat /\ declared'[v.of] \in Nat /\ declared[v.of] <= declared'[v.of]
    BY <1>4 DEF Remain
  <2> QED BY <1>3, <1>4, <2>1
<1>6. ASSUME stage[j] = "patterns", NEW q \in ReportQuarters PROVE KeptSound(v, q)'
  <2>1. KeptSound(v, q)
    BY <1>3, <1>6
  <2>2. ASSUME v.kept[q] # 0
        PROVE  FiledFor(v.of, q, v.kept[q])' /\ NamedHeld(v.of, q, v.kept[q])'
    <3>1. FiledFor(v.of, q, v.kept[q]) /\ NamedHeld(v.of, q, v.kept[q])
      BY <2>1, <2>2 DEF KeptSound
    <3>2. v.kept[q] \in 1..submitted[v.of]
      BY <3>1 DEF FiledFor
    <3> QED BY <1>1, <1>4, <3>1, <3>2, FiledRemains, HeldRemains
  <2>3. v' = v
    OBVIOUS
  <2> QED BY <2>1, <2>2, <2>3 DEF KeptSound, Paper, FiledFor, NamedHeld
<1> HIDE DEF v
<1> QED BY <1>3, <1>5, <1>6

LEMMA HoldersRemain ==
  ASSUME HoldingsInv, Remain, UNCHANGED holding
  PROVE  HoldersTraced'
<1>1. ASSUME NEW c \in Owned, NEW q \in ReportQuarters, NEW h \in Stakeholders, holding[c][q][h] # 0
      PROVE  FiledFor(c, q, holding[c][q][h])' /\ h \in Paper(c, holding[c][q][h]).names
  <2>1. FiledFor(c, q, holding[c][q][h]) /\ h \in Paper(c, holding[c][q][h]).names
    BY <1>1 DEF HoldingsInv, HoldersTraced
  <2> QED BY <2>1, FiledRemains
<1> QED BY <1>1 DEF HoldersTraced, FiledFor, Paper

LEMMA OthersRemain ==
  ASSUME HoldingsInv, Remain, UNCHANGED <<edge, corpAction>>
  PROVE  OthersTraced'
<1>1. HoldingsTypeOK
  BY DEF HoldingsInv
<1>2. ASSUME NEW c \in Owned
      PROVE  /\ submitted[c] \in Nat /\ submitted'[c] \in Nat /\ submitted[c] <= submitted'[c]
             /\ declared[c] \in Nat /\ declared'[c] \in Nat /\ declared[c] <= declared'[c]
  BY DEF Remain
<1>4. ASSUME NEW c \in Owned, NEW h \in Stakeholders, edge[c][h] # 0
      PROVE  edge[c][h] \in 1..submitted'[c] /\ h \in Paper(c, edge[c][h]).owners
  <2>1. edge[c][h] \in 1..submitted[c] /\ h \in Paper(c, edge[c][h]).owners
    BY <1>4 DEF HoldingsInv, OthersTraced
  <2> QED BY <1>2, <2>1
<1>5. ASSUME NEW c \in Owned, NEW k \in ActionKeys, corpAction[c][k].of # 0
      PROVE  corpAction[c][k].page <= declared'[c]
             /\ FirstListed(c, corpAction[c][k].page, k, corpAction[c][k].of)
  <2>1. corpAction[c][k].page <= declared[c] /\ corpAction[c][k].page \in Nat
        /\ FirstListed(c, corpAction[c][k].page, k, corpAction[c][k].of)
    BY <1>1, <1>5 DEF HoldingsInv, OthersTraced, HoldingsTypeOK, Rows
  <2> QED BY <1>2, <2>1
<1> QED BY <1>4, <1>5 DEF OthersTraced, Paper, FirstListed

LEMMA StakesRemain == ASSUME HoldingsInv, Remain, stakes' \subseteq stakes PROVE StakesSound'
<1>1. ASSUME NEW x \in stakes' PROVE x[3] \in 1..submitted'[x[1]] /\ x[2] \in Paper(x[1], x[3]).owners
  <2>1. x \in Owned \X Stakeholders \X Nat /\ x[3] \in 1..submitted[x[1]] /\ x[2] \in Paper(x[1], x[3]).owners
    BY DEF HoldingsInv, StakesSound, HoldingsTypeOK
  <2>2. x[1] \in Owned
    BY <2>1
  <2> QED BY <2>1, <2>2 DEF Remain
<1> QED BY <1>1 DEF StakesSound, Paper

LEMMA CopiesRemain == ASSUME HoldingsInv, Remain, copying' \subseteq copying PROVE CopiesSound'
<1>1. ASSUME NEW x \in copying' PROVE x[2] \in 1..submitted'[x[1]]
  <2>1. x \in Owned \X Nat /\ x[2] \in 1..submitted[x[1]]
    BY DEF HoldingsInv, CopiesSound, HoldingsTypeOK
  <2>2. x[1] \in Owned
    BY <2>1
  <2> QED BY <2>1, <2>2 DEF Remain
<1> QED BY <1>1 DEF CopiesSound

-----------------------------------------------------------------------------

LEMMA VisitGone == ASSUME NEW j \in Sweepers, visit'[j].of = NoName PROVE VisitSound(j)'
BY DEF VisitSound

\* A step that writes no table and finds nothing.
LEMMA Quiet ==
  ASSUME HoldingsInv, Remain, HoldingsTypeOK', FilingsTyped', AwaitedSound',
         \A j \in Sweepers : VisitSound(j)', UNCHANGED tables,
         stakes' \subseteq stakes, copying' \subseteq copying
  PROVE  HoldingsInv'
<1>1. UNCHANGED <<pattern, holding, corpAction, edge>>
  BY DEF tables
<1>2. PatternsTraced' /\ RevisionsKept' /\ PagesFiled'
  BY <1>1, PatternsRemain
<1>3. HoldersTraced' /\ OthersTraced'
  BY <1>1, HoldersRemain, OthersRemain
<1>4. StakesSound' /\ CopiesSound'
  BY StakesRemain, CopiesRemain
<1> QED BY <1>2, <1>3, <1>4 DEF HoldingsInv

\* Nothing of what is filed or captured changes.
LEMMA RemainsSame ==
  ASSUME HoldingsTypeOK, UNCHANGED <<submitted, declared, holding>>, uncaptured \subseteq uncaptured'
  PROVE  Remain
BY DEF HoldingsTypeOK, Remain

LEMMA SubmitStep == ASSUME HoldingsInv, NEW c \in Owned, Submit(c) PROVE HoldingsInv'
<1>1. HoldingsTypeOK /\ FilingsTyped /\ AwaitedSound
  BY DEF HoldingsInv
<1>2. /\ submitted[c] < Len(Submissions[c]) /\ submitted' = [submitted EXCEPT ![c] = @ + 1]
      /\ UNCHANGED <<declared, stage, awaited, visit, pattern, holding, corpAction, edge, stakes,
                     copying, uncaptured, holdingFaults>>
  BY DEF Submit, sweeps, tables
<1>3. submitted' \in [Owned -> Nat] /\ \A d \in Owned : submitted[d] <= submitted'[d]
  BY <1>1, <1>2 DEF HoldingsTypeOK
<1>4. HoldingsTypeOK'
  BY <1>1, <1>2, <1>3 DEF HoldingsTypeOK
<1>5. FilingsTyped'
  BY <1>1, <1>2, LenIs DEF FilingsTyped, HoldingsTypeOK
<1>6. AwaitedSound'
  BY <1>1, <1>2 DEF AwaitedSound, SweptBy
<1>7. Remain
  BY <1>1, <1>2, <1>3 DEF Remain, HoldingsTypeOK
<1>8. \A j \in Sweepers : VisitSound(j)'
  BY <1>2, <1>7, VisitRemains
<1> QED BY <1>2, <1>4, <1>5, <1>6, <1>7, <1>8, Quiet DEF tables

LEMMA DeclareStep == ASSUME HoldingsInv, NEW c \in Owned, Declare(c) PROVE HoldingsInv'
<1>1. HoldingsTypeOK /\ FilingsTyped /\ AwaitedSound
  BY DEF HoldingsInv
<1>2. /\ declared[c] < Len(CorpActions[c]) /\ declared' = [declared EXCEPT ![c] = @ + 1]
      /\ UNCHANGED <<submitted, stage, awaited, visit, pattern, holding, corpAction, edge, stakes,
                     copying, uncaptured, holdingFaults>>
  BY DEF Declare, sweeps, tables
<1>3. declared' \in [Owned -> Nat] /\ \A d \in Owned : declared[d] <= declared'[d]
  BY <1>1, <1>2 DEF HoldingsTypeOK
<1>4. HoldingsTypeOK'
  BY <1>1, <1>2, <1>3 DEF HoldingsTypeOK
<1>5. FilingsTyped'
  BY <1>1, <1>2, LenIs DEF FilingsTyped, HoldingsTypeOK
<1>6. AwaitedSound'
  BY <1>1, <1>2 DEF AwaitedSound, SweptBy
<1>7. Remain
  BY <1>1, <1>2, <1>3 DEF Remain, HoldingsTypeOK
<1>8. \A j \in Sweepers : VisitSound(j)'
  BY <1>2, <1>7, VisitRemains
<1> QED BY <1>2, <1>4, <1>5, <1>6, <1>7, <1>8, Quiet DEF tables

LEMMA NextStageStep == ASSUME HoldingsInv, NEW j \in Sweepers, NextStage(j) PROVE HoldingsInv'
<1>1. HoldingsTypeOK /\ FilingsTyped /\ AwaitedSound
  BY DEF HoldingsInv
<1>2. /\ visit[j].of = NoName
      /\ stage' = [stage EXCEPT ![j] = StageAfter(j, stage[j])]
      /\ awaited' = [awaited EXCEPT ![j] = IF StageAfter(j, stage[j]) = "idle" THEN {} ELSE SweptBy(j)]
      /\ UNCHANGED <<submitted, declared, visit, pattern, holding, corpAction, edge, stakes,
                     copying, uncaptured, holdingFaults>>
  BY DEF NextStage, EnterStage, filings, tables
<1>3. StageAfter(j, stage[j]) \in {"idle", "patterns", "actions", "owners"}
  BY <1>1 DEF StageAfter
<1>4. HoldingsTypeOK'
  <2>1. stage' \in [Sweepers -> {"idle", "patterns", "actions", "owners"}]
    BY <1>1, <1>2, <1>3 DEF HoldingsTypeOK
  <2>2. awaited' \in [Sweepers -> SUBSET Owned]
    BY <1>1, <1>2, SweptIs DEF HoldingsTypeOK
  <2> QED BY <1>1, <1>2, <2>1, <2>2 DEF HoldingsTypeOK
<1>5. FilingsTyped'
  BY <1>1, <1>2 DEF FilingsTyped
<1>6. AwaitedSound'
  BY <1>1, <1>2 DEF AwaitedSound, SweptBy, HoldingsTypeOK
<1>7. Remain
  BY <1>1, <1>2, RemainsSame
<1>8. ASSUME NEW i \in Sweepers PROVE VisitSound(i)'
  <2>1. CASE i = j
    BY <1>2, <2>1, VisitGone
  <2>2. CASE i # j
    <3>1. stage'[i] = stage[i] /\ visit'[i] = visit[i]
      BY <1>1, <1>2, <2>2 DEF HoldingsTypeOK
    <3> QED BY <1>7, <3>1, VisitRemains
  <2> QED BY <2>1, <2>2
<1> QED BY <1>2, <1>4, <1>5, <1>6, <1>7, <1>8, Quiet DEF tables

LEMMA EmptyVisit == Nowhere \in [of : Owned \cup {NoName}, page : Nat, next : Nat,
                                kept : [ReportQuarters -> Nat], unread : SUBSET Nat]
BY DEF Nowhere, Visiting, NothingKept

LEMMA OpenListingStep == ASSUME HoldingsInv, NEW j \in Sweepers, OpenListing(j) PROVE HoldingsInv'
<1>1. HoldingsTypeOK /\ FilingsTyped /\ AwaitedSound
  BY DEF HoldingsInv
<1>2. UNCHANGED <<submitted, declared, stage, awaited, pattern, holding, corpAction, edge, stakes,
                  copying, uncaptured, holdingFaults>>
  BY DEF OpenListing, filings, tables
<1>3. PICK c \in awaited[j] :
        visit' = [visit EXCEPT ![j] =
                    Visiting(c, IF stage[j] = "patterns" THEN submitted[c] ELSE declared[c],
                             IF stage[j] = "patterns" THEN submitted[c] ELSE declared[c],
                             NothingKept, {})]
  BY DEF OpenListing
<1> DEFINE page == IF stage[j] = "patterns" THEN submitted[c] ELSE declared[c]
           w == Visiting(c, page, page, NothingKept, {})
<1>4. c \in SweptBy(j) /\ c \in Owned /\ page \in Nat /\ stage[j] \in {"patterns", "actions"}
  BY <1>1, <1>3 DEF AwaitedSound, HoldingsTypeOK, OpenListing
<1>5. /\ w.of = c /\ w.page = page /\ w.next = page /\ w.kept = NothingKept /\ w.unread = {}
      /\ w \in [of : Owned \cup {NoName}, page : Nat, next : Nat,
                kept : [ReportQuarters -> Nat], unread : SUBSET Nat]
  <2> HIDE DEF page
  <2> QED BY <1>4 DEF Visiting, NothingKept
<1>6. /\ visit'[j] = w /\ \A i \in Sweepers \ {j} : visit'[i] = visit[i]
      /\ visit' \in [Sweepers -> [of : Owned \cup {NoName}, page : Nat, next : Nat,
                             kept : [ReportQuarters -> Nat], unread : SUBSET Nat]]
  <2> HIDE DEF page
  <2>1. visit' = [visit EXCEPT ![j] = w]
    BY <1>3 DEF page
  <2> HIDE DEF w
  <2> QED BY <1>1, <1>5, <2>1 DEF HoldingsTypeOK
<1>7. HoldingsTypeOK' /\ FilingsTyped' /\ AwaitedSound'
  BY <1>1, <1>2, <1>6 DEF HoldingsTypeOK, FilingsTyped, AwaitedSound, SweptBy
<1>8. Remain
  BY <1>1, <1>2, RemainsSame
<1>9. VisitSound(j)'
  <2>1. \A q \in ReportQuarters : KeptSound(visit[j], q)'
    <3>1. \A q \in ReportQuarters : visit'[j].kept[q] = 0
      BY <1>5, <1>6 DEF NothingKept
    <3>2. (visit'[j].next + 1)..visit'[j].page = {}
      <4> HIDE DEF page, w
      <4> QED BY <1>4, <1>5, <1>6
    <3> QED BY <3>1, <3>2 DEF KeptSound
  <2>2. visit'[j].of = c /\ visit'[j].page = page /\ visit'[j].next = page
    BY <1>5, <1>6
  <2>3. page <= page
    BY <1>4
  <2>4. page = IF stage'[j] = "patterns" THEN submitted'[c] ELSE declared'[c]
    BY <1>2
  <2> HIDE DEF page, w
  <2> QED BY <1>2, <1>4, <2>1, <2>2, <2>3, <2>4 DEF VisitSound, SweptBy
<1>10. \A i \in Sweepers : VisitSound(i)'
  BY <1>2, <1>6, <1>8, <1>9, VisitRemains
<1> QED BY <1>2, <1>7, <1>8, <1>10, Quiet DEF tables

LEMMA LeavingIs ==
  ASSUME HoldingsTypeOK, AwaitedSound, NEW j \in Sweepers, LeaveCompany(j)
  PROVE  /\ visit'[j].of = NoName /\ \A i \in Sweepers \ {j} : visit'[i] = visit[i]
         /\ visit' \in [Sweepers -> [of : Owned \cup {NoName}, page : Nat, next : Nat,
                             kept : [ReportQuarters -> Nat], unread : SUBSET Nat]]
         /\ awaited' \in [Sweepers -> SUBSET Owned]
         /\ AwaitedSound'
<1>1. Nowhere.of = NoName
  BY DEF Nowhere, Visiting
<1>2. visit' = [visit EXCEPT ![j] = Nowhere]
  BY DEF LeaveCompany
<1>3. /\ visit'[j].of = NoName /\ \A i \in Sweepers \ {j} : visit'[i] = visit[i]
      /\ visit' \in [Sweepers -> [of : Owned \cup {NoName}, page : Nat, next : Nat,
                             kept : [ReportQuarters -> Nat], unread : SUBSET Nat]]
  BY <1>1, <1>2, EmptyVisit DEF HoldingsTypeOK
<1>4. awaited' \in [Sweepers -> SUBSET Owned] /\ \A i \in Sweepers : awaited'[i] \subseteq awaited[i]
  BY DEF LeaveCompany, HoldingsTypeOK
<1> QED BY <1>3, <1>4 DEF AwaitedSound, SweptBy

LEMMA SkipCompanyStep == ASSUME HoldingsInv, NEW j \in Sweepers, SkipCompany(j) PROVE HoldingsInv'
<1>1. HoldingsTypeOK /\ FilingsTyped /\ AwaitedSound
  BY DEF HoldingsInv
<1>2. /\ LeaveCompany(j) /\ HoldingFault
      /\ UNCHANGED <<submitted, declared, stage, pattern, holding, corpAction, edge, stakes, copying, uncaptured>>
  BY DEF SkipCompany, filings, tables
<1>3. /\ visit'[j].of = NoName /\ \A i \in Sweepers \ {j} : visit'[i] = visit[i]
      /\ visit' \in [Sweepers -> [of : Owned \cup {NoName}, page : Nat, next : Nat,
                             kept : [ReportQuarters -> Nat], unread : SUBSET Nat]]
      /\ awaited' \in [Sweepers -> SUBSET Owned]
      /\ AwaitedSound'
  BY <1>1, <1>2, LeavingIs
<1>4. holdingFaults' \in 0..MaxHoldingFaults
  BY <1>1, <1>2, HoldingsAssumption DEF HoldingFault, HoldingsTypeOK
<1>5. HoldingsTypeOK' /\ FilingsTyped'
  BY <1>1, <1>2, <1>3, <1>4 DEF HoldingsTypeOK, FilingsTyped
<1>6. Remain
  BY <1>1, <1>2, RemainsSame
<1>7. \A i \in Sweepers : VisitSound(i)'
  BY <1>2, <1>3, <1>6, VisitGone, VisitRemains
<1> QED BY <1>2, <1>3, <1>5, <1>6, <1>7, Quiet DEF tables

LEMMA StoppingIs ==
  ASSUME HoldingsTypeOK, AwaitedSound, NEW js \in SUBSET Sweepers, StopSweeps(js)
  PROVE  /\ \A j \in js : visit'[j].of = NoName
         /\ \A i \in Sweepers \ js : visit'[i] = visit[i] /\ stage'[i] = stage[i]
         /\ visit' \in [Sweepers -> [of : Owned \cup {NoName}, page : Nat, next : Nat,
                             kept : [ReportQuarters -> Nat], unread : SUBSET Nat]]
         /\ stage' \in [Sweepers -> {"idle", "patterns", "actions", "owners"}]
         /\ awaited' \in [Sweepers -> SUBSET Owned] /\ AwaitedSound' /\ stakes' \subseteq stakes
<1>1. Nowhere.of = NoName
  BY DEF Nowhere, Visiting
<1>2. \A j \in Sweepers : visit'[j] = IF j \in js THEN Nowhere ELSE visit[j]
  BY DEF StopSweeps
<1>3. visit' \in [Sweepers -> [of : Owned \cup {NoName}, page : Nat, next : Nat,
                             kept : [ReportQuarters -> Nat], unread : SUBSET Nat]]
  BY EmptyVisit DEF StopSweeps, HoldingsTypeOK
<1>4. stage' \in [Sweepers -> {"idle", "patterns", "actions", "owners"}]
      /\ \A i \in Sweepers \ js : stage'[i] = stage[i]
  BY DEF StopSweeps, HoldingsTypeOK
<1>5. awaited' \in [Sweepers -> SUBSET Owned] /\ \A i \in Sweepers : awaited'[i] \subseteq awaited[i]
  BY DEF StopSweeps, HoldingsTypeOK
<1>6. AwaitedSound'
  BY <1>5 DEF AwaitedSound, SweptBy
<1>7. stakes' \subseteq stakes
  BY DEF StopSweeps
<1> QED BY <1>1, <1>2, <1>3, <1>4, <1>5, <1>6, <1>7

LEMMA StopStep ==
  ASSUME HoldingsInv, NEW js \in SUBSET Sweepers, StopSweeps(js), HoldingFault,
         UNCHANGED <<filings, tables, copying, uncaptured>>
  PROVE  HoldingsInv'
<1>1. HoldingsTypeOK /\ FilingsTyped /\ AwaitedSound
  BY DEF HoldingsInv
<1>2. UNCHANGED <<submitted, declared, pattern, holding, corpAction, edge, copying, uncaptured>>
  BY DEF filings, tables
<1>3. /\ \A j \in js : visit'[j].of = NoName
      /\ \A i \in Sweepers \ js : visit'[i] = visit[i] /\ stage'[i] = stage[i]
      /\ visit' \in [Sweepers -> [of : Owned \cup {NoName}, page : Nat, next : Nat,
                             kept : [ReportQuarters -> Nat], unread : SUBSET Nat]]
      /\ stage' \in [Sweepers -> {"idle", "patterns", "actions", "owners"}]
      /\ awaited' \in [Sweepers -> SUBSET Owned] /\ AwaitedSound' /\ stakes' \subseteq stakes
  BY <1>1, StoppingIs
<1>4. holdingFaults' \in 0..MaxHoldingFaults
  BY <1>1, HoldingsAssumption DEF HoldingFault, HoldingsTypeOK
<1>5. HoldingsTypeOK' /\ FilingsTyped'
  BY <1>1, <1>2, <1>3, <1>4 DEF HoldingsTypeOK, FilingsTyped
<1>6. Remain
  BY <1>1, <1>2, RemainsSame
<1>7. \A i \in Sweepers : VisitSound(i)'
  BY <1>3, <1>6, VisitGone, VisitRemains
<1> QED BY <1>2, <1>3, <1>5, <1>6, <1>7, Quiet DEF tables

LEMMA WritingIs ==
  ASSUME HoldingsTypeOK, FilingsTyped, HoldersTraced, NEW c \in Owned, NEW s \in 1..submitted[c],
         holding' = HoldersOf(c, s), UNCHANGED <<submitted, declared>>,
         uncaptured \subseteq uncaptured'
  PROVE  /\ holding' \in [Owned -> [ReportQuarters -> [Stakeholders -> Nat]]]
         /\ \A h \in Paper(c, s).names : holding'[c][Paper(c, s).quarter][h] # 0
         /\ Remain /\ HoldersTraced'
<1> DEFINE p == Paper(c, s)
<1>1. p.quarter \in ReportQuarters /\ p.names \in SUBSET Stakeholders /\ s \in Nat /\ s # 0
  <2>1. submitted[c] \in Nat /\ s \in 1..Len(Submissions[c])
    BY FiledIs DEF HoldingsTypeOK
  <2>2. p.quarter \in ReportQuarters /\ p.names \in SUBSET Stakeholders
    BY <2>1, PaperIs
  <2> QED BY <2>1, <2>2
<1>2. holding' = [holding EXCEPT ![c][p.quarter] =
                    [h \in Stakeholders |-> IF h \in p.names THEN s ELSE @[h]]]
  BY DEF HoldersOf
<1> HIDE DEF p
<1>3. holding \in [Owned -> [ReportQuarters -> [Stakeholders -> Nat]]]
  BY DEF HoldingsTypeOK
<1>4. holding' \in [Owned -> [ReportQuarters -> [Stakeholders -> Nat]]]
  BY <1>1, <1>2, <1>3
<1>5. \A d \in Owned, q \in ReportQuarters, h \in Stakeholders :
        holding'[d][q][h] = IF d = c /\ q = p.quarter /\ h \in p.names THEN s ELSE holding[d][q][h]
  BY <1>1, <1>2, <1>3
<1>6. Remain
  <2>1. ASSUME NEW d \in Owned, NEW q \in ReportQuarters, NEW h \in Stakeholders, holding[d][q][h] # 0
        PROVE  holding'[d][q][h] # 0
    BY <1>1, <1>5, <2>1
  <2>2. submitted \in [Owned -> Nat] /\ declared \in [Owned -> Nat]
    BY DEF HoldingsTypeOK
  <2> QED BY <2>1, <2>2 DEF Remain
<1>7. ASSUME NEW d \in Owned, NEW q \in ReportQuarters, NEW h \in Stakeholders, holding'[d][q][h] # 0
      PROVE  FiledFor(d, q, holding'[d][q][h]) /\ h \in Paper(d, holding'[d][q][h]).names
  <2>1. CASE d = c /\ q = p.quarter /\ h \in p.names
    BY <1>5, <2>1 DEF FiledFor, p
  <2>2. CASE ~(d = c /\ q = p.quarter /\ h \in p.names)
    <3>1. holding'[d][q][h] = holding[d][q][h]
      BY <1>5, <2>2
    <3> QED BY <1>7, <3>1 DEF HoldersTraced
  <2> QED BY <2>1, <2>2
<1>8. HoldersTraced'
  BY <1>7 DEF HoldersTraced, FiledFor, Paper
<1> QED BY <1>1, <1>4, <1>5, <1>6, <1>8 DEF p

\* What a visit does with the next submission of its listing.
LEMMA PassedIs ==
  ASSUME NEW v, NEW kept, NEW unread
  PROVE  /\ Passed(v, kept, unread).of = v.of /\ Passed(v, kept, unread).page = v.page
         /\ Passed(v, kept, unread).next = v.next - 1 /\ Passed(v, kept, unread).kept = kept
         /\ Passed(v, kept, unread).unread = unread
BY DEF Passed, Visiting

LEMMA ReadingGoesOn ==
  ASSUME HoldingsInv, NEW j \in Sweepers, stage[j] = "patterns", visit[j].of # NoName,
         ~ListingRead(visit[j])
  PROVE  /\ visit[j].of \in Owned /\ visit[j].next \in 1..submitted[visit[j].of]
         /\ visit[j].next <= visit[j].page /\ visit[j].page <= submitted[visit[j].of]
         /\ visit[j].page \in Nat
         /\ visit[j].kept \in [ReportQuarters -> Nat] /\ visit[j].unread \in SUBSET Nat
         /\ visit[j].of \in SweptBy(j) /\ Paper(visit[j].of, visit[j].next).quarter \in ReportQuarters
         /\ \A q \in ReportQuarters : KeptSound(visit[j], q)
<1>1. HoldingsTypeOK /\ FilingsTyped /\ VisitSound(j)
  BY DEF HoldingsInv
<1>2. /\ visit[j].of \in SweptBy(j) /\ visit[j].next <= visit[j].page
      /\ visit[j].page <= submitted[visit[j].of]
      /\ \A q \in ReportQuarters : KeptSound(visit[j], q)
  BY <1>1 DEF VisitSound
<1>3. visit[j].of \in Owned /\ visit[j].page \in Nat /\ visit[j].next \in Nat
      /\ visit[j].kept \in [ReportQuarters -> Nat] /\ visit[j].unread \in SUBSET Nat
  BY <1>1, <1>2, SweptIs DEF HoldingsTypeOK
<1>4. visit[j].next # 0
  BY DEF ListingRead
<1>5. submitted[visit[j].of] \in Nat
  BY <1>1, <1>3 DEF HoldingsTypeOK
<1>6. visit[j].next \in 1..submitted[visit[j].of]
  BY <1>2, <1>3, <1>4, <1>5
<1>7. Paper(visit[j].of, visit[j].next).quarter \in ReportQuarters
  BY <1>1, <1>3, <1>6, FiledIs, PaperIs
<1> QED BY <1>2, <1>3, <1>6, <1>7

LEMMA KeptRemains ==
  ASSUME Remain, HoldingsTypeOK, FilingsTyped, NEW v, v.of \in Owned, NEW q \in ReportQuarters,
         KeptSound(v, q)
  PROVE  KeptSound(v, q)'
<1>1. ASSUME v.kept[q] # 0
      PROVE  FiledFor(v.of, q, v.kept[q])' /\ NamedHeld(v.of, q, v.kept[q])'
  <2>1. FiledFor(v.of, q, v.kept[q]) /\ NamedHeld(v.of, q, v.kept[q])
    BY <1>1 DEF KeptSound
  <2>2. v.kept[q] \in 1..submitted[v.of]
    BY <2>1 DEF FiledFor
  <2> QED BY <2>1, <2>2, FiledRemains, HeldRemains
<1> QED BY <1>1 DEF KeptSound, Paper

\* The next submission is passed over, because it could not be read or a newer one
\* counts already.
LEMMA KeptPassed ==
  ASSUME NEW v, NEW w, NEW q, KeptSound(v, q)', v.next \in Nat, v.page \in Nat, v.next # 0,
         v.kept \in [ReportQuarters -> Nat], q \in ReportQuarters,
         w.of = v.of, w.page = v.page, w.next = v.next - 1, w.kept = v.kept,
         v.unread \subseteq w.unread,
         v.next \in w.unread \/ Superseded(v)
  PROVE  KeptSound(w, q)'
<1>1. ASSUME v.kept[q] # 0
      PROVE  /\ FiledFor(v.of, q, v.kept[q])' /\ v.next - 1 < v.kept[q] /\ v.kept[q] <= v.page
             /\ NamedHeld(v.of, q, v.kept[q])'
  BY <1>1 DEF KeptSound, Paper
<1>2. ASSUME NEW t \in v.next..v.page, Paper(v.of, t).quarter = q,
             v.kept[q] = 0 \/ (IF v.of \in BseNames THEN t > v.kept[q] ELSE t < v.kept[q])
      PROVE  t \in w.unread
  <2>1. CASE t = v.next
    <3>1. CASE v.next \in w.unread
      BY <2>1, <3>1
    <3>2. CASE Superseded(v)
      <4>1. v.of \in BseNames /\ v.kept[q] # 0
        BY <1>2, <2>1, <3>2 DEF Superseded
      <4>2. v.next < v.kept[q] /\ v.kept[q] \in Nat
        BY <4>1 DEF KeptSound, Paper
      <4> QED BY <1>2, <2>1, <4>1, <4>2
    <3> QED BY <3>1, <3>2
  <2>2. CASE t # v.next
    <3>1. t \in (v.next + 1)..v.page
      BY <2>2
    <3> QED BY <1>2, <3>1 DEF KeptSound, Paper
  <2> QED BY <2>1, <2>2
<1>3. (w.next + 1)..w.page = v.next..v.page
  BY SMT
<1> QED BY <1>1, <1>2, <1>3 DEF KeptSound, Paper

\* The next submission is kept for its quarter.
LEMMA KeptRead ==
  ASSUME NEW v, NEW w, NEW q, KeptSound(v, q)', v.next \in Nat, v.page \in Nat, v.next # 0,
         v.next <= v.page, v.kept \in [ReportQuarters -> Nat], q \in ReportQuarters,
         w.of = v.of, w.page = v.page, w.next = v.next - 1,
         w.kept = [v.kept EXCEPT ![Paper(v.of, v.next).quarter] = v.next],
         w.unread = v.unread, ~Superseded(v),
         FiledFor(v.of, Paper(v.of, v.next).quarter, v.next)',
         NamedHeld(v.of, Paper(v.of, v.next).quarter, v.next)'
  PROVE  KeptSound(w, q)'
<1>1. (w.next + 1)..w.page = v.next..v.page
  BY SMT
<1>2. CASE q = Paper(v.of, v.next).quarter
  <2>3. FiledFor(v.of, q, v.next)' /\ NamedHeld(v.of, q, v.next)' /\ v.next - 1 < v.next
    BY <1>2
  <2>1. w.kept[q] = v.next
    BY <1>2
  <2>2. ASSUME NEW t \in v.next..v.page, Paper(v.of, t).quarter = q,
               IF v.of \in BseNames THEN t > v.next ELSE t < v.next
        PROVE  t \in v.unread
    <3>1. v.of \in BseNames /\ t \in (v.next + 1)..v.page
      BY <2>2
    <3>2. v.kept[q] = 0
      BY <1>2, <3>1 DEF Superseded
    <3> QED BY <2>2, <3>1, <3>2 DEF KeptSound, Paper
  <2> QED BY <1>1, <2>1, <2>2, <2>3 DEF KeptSound, Paper
<1>3. CASE q # Paper(v.of, v.next).quarter
  <2>1. w.kept[q] = v.kept[q]
    BY <1>3
  <2>2. ASSUME v.kept[q] # 0
        PROVE  /\ FiledFor(v.of, q, v.kept[q])' /\ v.next - 1 < v.kept[q] /\ v.kept[q] <= v.page
               /\ NamedHeld(v.of, q, v.kept[q])'
    BY <2>2 DEF KeptSound, Paper
  <2>3. ASSUME NEW t \in v.next..v.page, Paper(v.of, t).quarter = q,
               v.kept[q] = 0 \/ (IF v.of \in BseNames THEN t > v.kept[q] ELSE t < v.kept[q])
        PROVE  t \in v.unread
    <3>1. t \in (v.next + 1)..v.page
      BY <1>3, <2>3
    <3> QED BY <2>3, <3>1 DEF KeptSound, Paper
  <2> QED BY <1>1, <2>1, <2>2, <2>3 DEF KeptSound, Paper
<1> QED BY <1>2, <1>3

VisitTypes == [of : Owned \cup {NoName}, page : Nat, next : Nat,
               kept : [ReportQuarters -> Nat], unread : SUBSET Nat]

\* A visit goes on to the next submission; the tables but the holders' stay.
LEMMA ReadOn ==
  ASSUME HoldingsInv, NEW j \in Sweepers, NEW v, v = visit[j],
         stage[j] = "patterns", v.of # NoName, ~ListingRead(visit[j]),
         NEW kept \in [ReportQuarters -> Nat], NEW unread \in SUBSET Nat,
         visit' = [visit EXCEPT ![j] = Passed(v, kept, unread)],
         UNCHANGED <<submitted, declared, stage, awaited, pattern, corpAction, stakes, edge, copying>>,
         holding' \in [Owned -> [ReportQuarters -> [Stakeholders -> Nat]]],
         uncaptured' \subseteq Owned \X Nat, holdingFaults' \in 0..MaxHoldingFaults,
         Remain, HoldersTraced',
         \A q \in ReportQuarters : KeptSound(Passed(v, kept, unread), q)'
  PROVE  HoldingsInv'
<1> DEFINE w == Passed(v, kept, unread)
<1>1. HoldingsTypeOK /\ FilingsTyped /\ AwaitedSound
  BY DEF HoldingsInv
<1>2. /\ v.of \in Owned /\ v.next \in Nat /\ v.next # 0 /\ v.next <= v.page /\ v.page \in Nat
      /\ v.page <= submitted[v.of] /\ v.of \in SweptBy(j)
  <2>1. submitted[v.of] \in Nat
    BY <1>1, ReadingGoesOn DEF HoldingsTypeOK
  <2> QED BY <2>1, ReadingGoesOn
<1>3. w.of = v.of /\ w.page = v.page /\ w.next = v.next - 1 /\ w.kept = kept /\ w.unread = unread
  BY PassedIs
<1>4. w \in VisitTypes
  <2>1. v.next - 1 \in Nat
    BY <1>2
  <2> QED BY <1>2, <2>1 DEF VisitTypes, Passed, Visiting
<1> HIDE DEF w
<1>5. /\ visit'[j] = w /\ \A i \in Sweepers \ {j} : visit'[i] = visit[i]
      /\ visit' \in [Sweepers -> VisitTypes]
  <2>1. visit \in [Sweepers -> VisitTypes]
    BY <1>1 DEF HoldingsTypeOK, VisitTypes
  <2>2. visit' = [visit EXCEPT ![j] = w]
    BY DEF w
  <2> QED BY <1>4, <2>1, <2>2
<1>6. HoldingsTypeOK' /\ FilingsTyped' /\ AwaitedSound'
  BY <1>1, <1>5 DEF HoldingsTypeOK, FilingsTyped, AwaitedSound, SweptBy, VisitTypes
<1>7. VisitSound(j)'
  <2>1. visit'[j].of \in SweptBy(j) /\ visit'[j].next <= visit'[j].page
        /\ visit'[j].page <= submitted'[visit'[j].of] /\ stage'[j] = "patterns"
    BY <1>2, <1>3, <1>5
  <2>2. ASSUME NEW q \in ReportQuarters PROVE KeptSound(visit[j], q)'
    <3>1. KeptSound(w, q)'
      BY DEF w
    <3> QED BY <1>5, <3>1 DEF KeptSound, FiledFor, NamedHeld, Paper
  <2> QED BY <2>1, <2>2 DEF VisitSound, SweptBy
<1>8. \A i \in Sweepers : VisitSound(i)'
  BY <1>5, <1>7, VisitRemains
<1>9. PatternsTraced' /\ RevisionsKept' /\ PagesFiled' /\ OthersTraced' /\ StakesSound' /\ CopiesSound'
  BY PatternsRemain, OthersRemain, StakesRemain, CopiesRemain
<1> QED BY <1>6, <1>8, <1>9 DEF HoldingsInv

LEMMA ReadSubmissionStep ==
  ASSUME HoldingsInv, NEW j \in Sweepers, ReadSubmission(j)
  PROVE  HoldingsInv'
<1>1. HoldingsTypeOK /\ FilingsTyped /\ HoldersTraced
  BY DEF HoldingsInv
<1>2. /\ stage[j] = "patterns" /\ visit[j].of # NoName /\ ~ListingRead(visit[j])
      /\ UNCHANGED <<submitted, declared, stage, awaited, pattern, corpAction, stakes, edge, copying>>
  BY DEF ReadSubmission, filings
<1>3. PICK v : v = visit[j]
  OBVIOUS
<1> DEFINE c == v.of
           n == v.next
           p == Paper(c, n)
           newer == [v.kept EXCEPT ![p.quarter] = n]
<1>4. /\ c \in Owned /\ n \in 1..submitted[c] /\ n <= v.page /\ v.page \in Nat
      /\ v.kept \in [ReportQuarters -> Nat] /\ v.unread \in SUBSET Nat
      /\ p.quarter \in ReportQuarters /\ \A q \in ReportQuarters : KeptSound(v, q)
  BY <1>2, <1>3, ReadingGoesOn
<1>5. n \in Nat /\ n # 0
  <2>1. submitted[c] \in Nat
    BY <1>1, <1>4 DEF HoldingsTypeOK
  <2> HIDE DEF n
  <2> QED BY <1>4, <2>1
<1>6. newer \in [ReportQuarters -> Nat] /\ FiledFor(c, p.quarter, n)
  <2> HIDE DEF n, c
  <2> QED BY <1>4, <1>5 DEF FiledFor
<1>7. HoldingFault => holdingFaults' \in 0..MaxHoldingFaults
  BY <1>1, HoldingsAssumption DEF HoldingFault, HoldingsTypeOK
<1>8. holding \in [Owned -> [ReportQuarters -> [Stakeholders -> Nat]]]
      /\ uncaptured \subseteq Owned \X Nat /\ holdingFaults \in 0..MaxHoldingFaults
  BY <1>1 DEF HoldingsTypeOK
<1>9. ASSUME NEW unread \in SUBSET Nat, v.unread \subseteq unread, n \in unread \/ Superseded(v), Remain,
             UNCHANGED <<holding, uncaptured>>, holdingFaults' \in 0..MaxHoldingFaults,
             visit' = [visit EXCEPT ![j] = Passed(v, v.kept, unread)]
      PROVE  HoldingsInv'
  <2>1. HoldersTraced'
    BY <1>9, HoldersRemain
  <2>2. ASSUME NEW q \in ReportQuarters PROVE KeptSound(Passed(v, v.kept, unread), q)'
    <3>1. KeptSound(v, q)'
      BY <1>1, <1>4, <1>9, KeptRemains
    <3> QED BY <1>4, <1>5, <1>9, <3>1, PassedIs, KeptPassed
  <2> QED BY <1>2, <1>3, <1>4, <1>8, <1>9, <2>1, <2>2, ReadOn
<1>10. ASSUME ~Superseded(v), Remain, HoldersTraced', NamedHeld(c, p.quarter, n)',
              holding' \in [Owned -> [ReportQuarters -> [Stakeholders -> Nat]]],
              uncaptured' \subseteq Owned \X Nat, holdingFaults' \in 0..MaxHoldingFaults,
              visit' = [visit EXCEPT ![j] = Passed(v, newer, v.unread)]
       PROVE  HoldingsInv'
  <2>1. FiledFor(c, p.quarter, n)'
    BY <1>4, <1>6, <1>10, FiledRemains
  <2>2. ASSUME NEW q \in ReportQuarters PROVE KeptSound(Passed(v, newer, v.unread), q)'
    <3>1. KeptSound(v, q)'
      BY <1>1, <1>4, <1>10, KeptRemains
    <3> QED BY <1>4, <1>5, <1>10, <2>1, <3>1, PassedIs, KeptRead
  <2> QED BY <1>2, <1>3, <1>4, <1>6, <1>10, <2>2, ReadOn
<1>11. CASE /\ HoldingFault /\ visit' = [visit EXCEPT ![j] = Passed(v, v.kept, v.unread \cup {n})]
            /\ UNCHANGED <<holding, uncaptured>>
  <2>1. Remain
    BY <1>1, <1>2, <1>11, RemainsSame
  <2> QED BY <1>4, <1>5, <1>7, <1>9, <1>11, <2>1
<1>12. CASE /\ Superseded(v) /\ visit' = [visit EXCEPT ![j] = Passed(v, v.kept, v.unread)]
            /\ UNCHANGED <<holding, uncaptured, holdingFaults>>
  <2>1. Remain
    BY <1>1, <1>2, <1>12, RemainsSame
  <2> QED BY <1>4, <1>8, <1>9, <1>12, <2>1
<1>13. CASE /\ ~Superseded(v) /\ visit' = [visit EXCEPT ![j] = Passed(v, newer, v.unread)]
            /\ holding' = HoldersOf(c, n) /\ UNCHANGED <<uncaptured, holdingFaults>>
  <2>1. /\ holding' \in [Owned -> [ReportQuarters -> [Stakeholders -> Nat]]]
        /\ \A h \in p.names : holding'[c][p.quarter][h] # 0
        /\ Remain /\ HoldersTraced'
    BY <1>1, <1>2, <1>4, <1>13, WritingIs
  <2>2. NamedHeld(c, p.quarter, n)'
    BY <2>1 DEF NamedHeld, Paper
  <2> QED BY <1>8, <1>10, <1>13, <2>1, <2>2
<1>14. CASE /\ ~Superseded(v) /\ HoldingFault
            /\ visit' = [visit EXCEPT ![j] = Passed(v, newer, v.unread)]
            /\ uncaptured' = uncaptured \cup {<<c, n>>} /\ UNCHANGED holding
  <2>1. Remain
    BY <1>1, <1>2, <1>14, RemainsSame
  <2>2. HoldersTraced'
    BY <1>14, <2>1, HoldersRemain
  <2>3. NamedHeld(c, p.quarter, n)'
    BY <1>14 DEF NamedHeld
  <2>4. uncaptured' \subseteq Owned \X Nat
    BY <1>4, <1>5, <1>8, <1>14
  <2> QED BY <1>7, <1>8, <1>10, <1>14, <2>1, <2>2, <2>3, <2>4
<1> HIDE DEF c, n, p, newer
<1> QED BY <1>3, <1>11, <1>12, <1>13, <1>14 DEF ReadSubmission, c, n, p, newer

LEMMA TableRowIs ==
  ASSUME NEW of, NEW page, NEW unread
  PROVE  /\ TableRow(of, page, unread).of = of /\ TableRow(of, page, unread).page = page
         /\ TableRow(of, page, unread).unread = unread
BY DEF TableRow

LEMMA UpsertPatternsStep ==
  ASSUME HoldingsInv, NEW j \in Sweepers, UpsertPatterns(j)
  PROVE  HoldingsInv'
<1> DEFINE v == visit[j]
           c == v.of
           row(q) == IF v.kept[q] = 0 THEN pattern[c][q] ELSE TableRow(v.kept[q], v.page, v.unread)
<1>1. HoldingsTypeOK /\ FilingsTyped /\ AwaitedSound /\ VisitSound(j) /\ PagesFiled
      /\ PatternsTraced /\ RevisionsKept
  BY DEF HoldingsInv
<1>2. /\ stage[j] = "patterns" /\ c # NoName /\ ListingRead(v) /\ LeaveCompany(j)
      /\ UNCHANGED <<submitted, declared, stage, holding, corpAction, stakes, edge, copying,
                     uncaptured, holdingFaults>>
      /\ pattern' = [pattern EXCEPT ![c] = [q \in ReportQuarters |->
                       IF v.kept[q] = 0 THEN @[q] ELSE TableRow(v.kept[q], v.page, v.unread)]]
  BY DEF UpsertPatterns, filings
<1>3. /\ c \in SweptBy(j) /\ v.next <= v.page /\ v.page <= submitted[c]
      /\ \A q \in ReportQuarters : KeptSound(v, q)
  BY <1>1, <1>2 DEF VisitSound
<1>4. c \in Owned /\ v.page \in Nat /\ v.next \in Nat /\ v.unread \in SUBSET Nat
      /\ v.kept \in [ReportQuarters -> Nat] /\ submitted[c] \in Nat
  BY <1>1, <1>3, SweptIs DEF HoldingsTypeOK
<1>5. pattern \in [Owned -> [ReportQuarters -> Rows]]
  BY <1>1 DEF HoldingsTypeOK
<1>6. \A q \in ReportQuarters : row(q) \in Rows
  BY <1>4, <1>5 DEF TableRow, Rows
<1> HIDE DEF v, c
<1>7. /\ pattern' = [pattern EXCEPT ![c] = [q \in ReportQuarters |-> row(q)]]
      /\ pattern' \in [Owned -> [ReportQuarters -> Rows]]
  <2>1. pattern' = [pattern EXCEPT ![c] = [q \in ReportQuarters |-> row(q)]]
    BY <1>2, <1>4, <1>5
  <2> HIDE DEF row
  <2> QED BY <1>4, <1>5, <1>6, <2>1
<1>8. /\ \A q \in ReportQuarters : pattern'[c][q] = row(q)
      /\ \A d \in Owned \ {c}, q \in ReportQuarters : pattern'[d][q] = pattern[d][q]
  <2> HIDE DEF row
  <2> QED BY <1>4, <1>5, <1>7
<1>9. ASSUME NEW q \in ReportQuarters, v.kept[q] # 0
      PROVE  /\ pattern'[c][q].of = v.kept[q] /\ pattern'[c][q].page = v.page
             /\ pattern'[c][q].unread = v.unread
  <2>1. pattern'[c][q] = TableRow(v.kept[q], v.page, v.unread)
    BY <1>8, <1>9
  <2> QED BY <2>1, TableRowIs
<1>10. ASSUME NEW d \in Owned, NEW q \in ReportQuarters, d # c \/ v.kept[q] = 0
       PROVE  pattern'[d][q] = pattern[d][q]
  BY <1>8, <1>10
<1>11. /\ visit'[j].of = NoName /\ \A i \in Sweepers \ {j} : visit'[i] = visit[i]
       /\ visit' \in [Sweepers -> [of : Owned \cup {NoName}, page : Nat, next : Nat,
                              kept : [ReportQuarters -> Nat], unread : SUBSET Nat]]
       /\ awaited' \in [Sweepers -> SUBSET Owned]
       /\ AwaitedSound'
  BY <1>1, <1>2, LeavingIs
<1>12. HoldingsTypeOK' /\ FilingsTyped'
  BY <1>1, <1>2, <1>7, <1>11 DEF HoldingsTypeOK, FilingsTyped
<1>13. Remain
  BY <1>1, <1>2, RemainsSame
<1>14. \A i \in Sweepers : VisitSound(i)'
  BY <1>2, <1>11, <1>13, VisitGone, VisitRemains
<1>15. PagesFiled'
  <2>1. ASSUME NEW d \in Owned, NEW q \in ReportQuarters PROVE pattern'[d][q].page <= submitted[d]
    <3>1. CASE d = c /\ v.kept[q] # 0
      BY <1>3, <1>9, <3>1
    <3>2. CASE ~(d = c /\ v.kept[q] # 0)
      BY <1>1, <1>10, <3>2 DEF PagesFiled
    <3> QED BY <3>1, <3>2
  <2> QED BY <1>2, <2>1 DEF PagesFiled
<1>16. ASSUME NEW d \in Owned, NEW q \in ReportQuarters, pattern'[d][q].of # 0
       PROVE  /\ FiledFor(d, q, pattern'[d][q].of) /\ pattern'[d][q].of <= pattern'[d][q].page
              /\ NamedHeld(d, q, pattern'[d][q].of)
  <2>1. CASE d = c /\ v.kept[q] # 0
    <3>1. FiledFor(c, q, v.kept[q]) /\ v.kept[q] <= v.page /\ NamedHeld(c, q, v.kept[q])
      BY <1>3, <2>1 DEF KeptSound, c
    <3> QED BY <1>9, <2>1, <3>1
  <2>2. CASE ~(d = c /\ v.kept[q] # 0)
    <3>1. pattern'[d][q] = pattern[d][q]
      BY <1>10, <2>2
    <3> QED BY <1>1, <1>16, <3>1 DEF PatternsTraced, NamedHeld
  <2> QED BY <2>1, <2>2
<1>17. PatternsTraced'
  <2>1. ASSUME NEW d \in Owned, NEW q \in ReportQuarters, NEW s
        PROVE  (FiledFor(d, q, s) => FiledFor(d, q, s)') /\ (NamedHeld(d, q, s) => NamedHeld(d, q, s)')
    BY <1>2 DEF FiledFor, NamedHeld, Paper
  <2>2. ASSUME NEW d \in Owned, NEW q \in ReportQuarters, NEW s, s = pattern'[d][q].of, s # 0
        PROVE  FiledFor(d, q, s)' /\ s <= pattern'[d][q].page /\ NamedHeld(d, q, s)'
    BY <1>16, <2>1, <2>2
  <2> QED BY <2>2 DEF PatternsTraced, NamedHeld, FiledFor, Paper
<1>18. ASSUME NEW d \in Owned, NEW q \in ReportQuarters, pattern'[d][q].of # 0,
              NEW t \in 1..pattern'[d][q].page, Paper(d, t).quarter = q,
              IF d \in BseNames THEN t > pattern'[d][q].of
              ELSE t < pattern'[d][q].of /\ t > pattern'[d][q].page - QuartersKept
       PROVE  t \in pattern'[d][q].unread
  <2>1. CASE d = c /\ v.kept[q] # 0
    <3>1. v.next < v.kept[q] /\ v.kept[q] \in Nat /\ QuartersKept \in Nat
      BY <1>3, <1>4, <2>1, HoldingsAssumption DEF KeptSound
    <3>2. t \in (v.next + 1)..v.page
      <4>1. CASE d \in BseNames
        BY <1>4, <1>9, <1>18, <2>1, <3>1, <4>1
      <4>2. CASE d \notin BseNames
        <5>1. v.next = 0 \/ v.next <= v.page - QuartersKept
          BY <1>2, <1>4, <2>1, <4>2 DEF ListingRead, Reach, Owned, c
        <5> QED BY <1>4, <1>9, <1>18, <2>1, <3>1, <4>2, <5>1
      <4> QED BY <4>1, <4>2
    <3> QED BY <1>3, <1>9, <1>18, <2>1, <3>2 DEF KeptSound, c
  <2>2. CASE ~(d = c /\ v.kept[q] # 0)
    <3>1. pattern'[d][q] = pattern[d][q]
      BY <1>10, <2>2
    <3> QED BY <1>1, <1>18, <3>1 DEF RevisionsKept
  <2> QED BY <2>1, <2>2
<1>19. RevisionsKept'
  BY <1>18 DEF RevisionsKept, Paper
<1>20. HoldersTraced' /\ OthersTraced' /\ StakesSound' /\ CopiesSound'
  BY <1>2, <1>13, HoldersRemain, OthersRemain, StakesRemain, CopiesRemain
<1> QED BY <1>11, <1>12, <1>14, <1>15, <1>17, <1>19, <1>20 DEF HoldingsInv

LEMMA UpsertActionsStep ==
  ASSUME HoldingsInv, NEW j \in Sweepers, UpsertActions(j)
  PROVE  HoldingsInv'
<1> DEFINE v == visit[j]
           c == v.of
           First(k) == {s \in 1..v.page : FirstListed(c, v.page, k, s)}
           row(k) == IF First(k) = {} THEN corpAction[c][k]
                     ELSE TableRow(CHOOSE s \in First(k) : TRUE, v.page, {})
<1>1. HoldingsTypeOK /\ FilingsTyped /\ AwaitedSound /\ VisitSound(j) /\ OthersTraced
  BY DEF HoldingsInv
<1>2. /\ stage[j] = "actions" /\ c # NoName /\ LeaveCompany(j)
      /\ UNCHANGED <<submitted, declared, stage, pattern, holding, stakes, edge, copying,
                     uncaptured, holdingFaults>>
      /\ corpAction' = [corpAction EXCEPT ![c] = [k \in ActionKeys |->
                       IF First(k) = {} THEN @[k] ELSE TableRow(CHOOSE s \in First(k) : TRUE, v.page, {})]]
  BY DEF UpsertActions, filings
<1>3. c \in SweptBy(j) /\ v.page <= declared[c]
  BY <1>1, <1>2 DEF VisitSound
<1>4. c \in Owned /\ v.page \in Nat /\ declared[c] \in Nat
  BY <1>1, <1>3, SweptIs DEF HoldingsTypeOK
<1>5. corpAction \in [Owned -> [ActionKeys -> Rows]]
  BY <1>1 DEF HoldingsTypeOK
<1>6. ASSUME NEW k \in ActionKeys, First(k) # {}
      PROVE  /\ FirstListed(c, v.page, k, CHOOSE s \in First(k) : TRUE)
             /\ (CHOOSE s \in First(k) : TRUE) \in Nat
  <2>1. (CHOOSE s \in First(k) : TRUE) \in First(k)
    BY <1>6
  <2> QED BY <1>4, <2>1
<1> HIDE DEF v, c, First
<1>7. \A k \in ActionKeys : row(k) \in Rows
  BY <1>4, <1>5, <1>6 DEF TableRow, Rows
<1>8. /\ corpAction' = [corpAction EXCEPT ![c] = [k \in ActionKeys |-> row(k)]]
      /\ corpAction' \in [Owned -> [ActionKeys -> Rows]]
  <2>1. corpAction' = [corpAction EXCEPT ![c] = [k \in ActionKeys |-> row(k)]]
    BY <1>2, <1>4, <1>5
  <2> HIDE DEF row
  <2> QED BY <1>4, <1>5, <1>7, <2>1
<1>9. /\ \A k \in ActionKeys : corpAction'[c][k] = row(k)
      /\ \A d \in Owned \ {c}, k \in ActionKeys : corpAction'[d][k] = corpAction[d][k]
  <2> HIDE DEF row
  <2> QED BY <1>4, <1>5, <1>8
<1>10. ASSUME NEW d \in Owned, NEW k \in ActionKeys, corpAction'[d][k].of # 0
       PROVE  /\ corpAction'[d][k].page <= declared[d]
              /\ FirstListed(d, corpAction'[d][k].page, k, corpAction'[d][k].of)
  <2>1. CASE d = c /\ First(k) # {}
    <3>1. /\ corpAction'[d][k].of = CHOOSE s \in First(k) : TRUE
          /\ corpAction'[d][k].page = v.page
      <4>1. corpAction'[d][k] = TableRow(CHOOSE s \in First(k) : TRUE, v.page, {})
        BY <1>9, <2>1
      <4> QED BY <4>1, TableRowIs
    <3> QED BY <1>3, <1>6, <2>1, <3>1
  <2>2. CASE ~(d = c /\ First(k) # {})
    <3>1. corpAction'[d][k] = corpAction[d][k]
      BY <1>9, <2>2
    <3> QED BY <1>1, <1>10, <3>1 DEF OthersTraced
  <2> QED BY <2>1, <2>2
<1>11. /\ visit'[j].of = NoName /\ \A i \in Sweepers \ {j} : visit'[i] = visit[i]
       /\ visit' \in [Sweepers -> [of : Owned \cup {NoName}, page : Nat, next : Nat,
                              kept : [ReportQuarters -> Nat], unread : SUBSET Nat]]
       /\ awaited' \in [Sweepers -> SUBSET Owned]
       /\ AwaitedSound'
  BY <1>1, <1>2, LeavingIs
<1>12. HoldingsTypeOK' /\ FilingsTyped'
  BY <1>1, <1>2, <1>8, <1>11 DEF HoldingsTypeOK, FilingsTyped
<1>13. Remain
  BY <1>1, <1>2, RemainsSame
<1>14. \A i \in Sweepers : VisitSound(i)'
  BY <1>2, <1>11, <1>13, VisitGone, VisitRemains
<1>15. OthersTraced'
  BY <1>1, <1>2, <1>10 DEF OthersTraced, FirstListed, Paper
<1>16. HoldersTraced' /\ StakesSound' /\ CopiesSound' /\ PatternsTraced' /\ RevisionsKept' /\ PagesFiled'
  BY <1>2, <1>13, HoldersRemain, StakesRemain, CopiesRemain, PatternsRemain
<1> QED BY <1>11, <1>12, <1>14, <1>15, <1>16 DEF HoldingsInv

\* Steps that change neither what is filed nor the sweeps keep the visits.
LEMMA ReadOwnersStep == ASSUME HoldingsInv, ReadOwners PROVE HoldingsInv'
<1>1. HoldingsTypeOK /\ FilingsTyped /\ AwaitedSound /\ StakesSound
  BY DEF HoldingsInv
<1>2. UNCHANGED <<submitted, declared, stage, visit, pattern, holding, corpAction, edge, copying,
                  uncaptured>>
  BY DEF ReadOwners, filings, tables
<1>3. PICK c \in awaited["nse"] :
        /\ awaited' = [awaited EXCEPT !["nse"] = @ \ {c}]
        /\ \/ /\ submitted[c] # 0
              /\ stakes' = stakes \cup
                   ({c} \X Paper(c, submitted[c]).owners \X {submitted[c]})
              /\ UNCHANGED holdingFaults
           \/ submitted[c] = 0 /\ UNCHANGED <<stakes, holdingFaults>>
           \/ HoldingFault /\ UNCHANGED stakes
  BY DEF ReadOwners
<1>4. c \in Owned /\ submitted[c] \in Nat /\ "nse" \in Sweepers
  BY <1>1 DEF AwaitedSound, HoldingsTypeOK, Sweepers
<1>5. awaited' \in [Sweepers -> SUBSET Owned] /\ \A i \in Sweepers : awaited'[i] \subseteq awaited[i]
  BY <1>1, <1>3 DEF HoldingsTypeOK
<1>6. AwaitedSound'
  BY <1>1, <1>5 DEF AwaitedSound, SweptBy
<1>7. holdingFaults' \in 0..MaxHoldingFaults
  BY <1>1, <1>3, HoldingsAssumption DEF HoldingFault, HoldingsTypeOK
<1>8. stakes' \subseteq Owned \X Stakeholders \X Nat /\ StakesSound'
  <2>1. CASE stakes' = stakes
    BY <1>1, <1>2, <2>1 DEF HoldingsTypeOK, StakesSound, Paper
  <2>2. CASE /\ submitted[c] # 0
             /\ stakes' = stakes \cup ({c} \X Paper(c, submitted[c]).owners \X {submitted[c]})
    <3>1. PICK s : s = submitted[c]
      OBVIOUS
    <3>2. s \in Nat /\ s \in 1..submitted[c]
      BY <1>4, <2>2, <3>1
    <3>3. PICK owners \in SUBSET Stakeholders : owners = Paper(c, s).owners
      BY <1>1, <1>4, <3>2, FiledIs, PaperIs
    <3>4. stakes' = stakes \cup ({c} \X owners \X {s})
      BY <2>2, <3>1, <3>3
    <3>5. stakes' \subseteq Owned \X Stakeholders \X Nat
      BY <1>1, <1>4, <3>2, <3>4 DEF HoldingsTypeOK
    <3>6. ASSUME NEW x \in stakes'
          PROVE  x[3] \in 1..submitted[x[1]] /\ x[2] \in Paper(x[1], x[3]).owners
      <4>1. CASE x \in stakes
        BY <1>1, <4>1 DEF StakesSound
      <4>2. CASE x \in {c} \X owners \X {s}
        <5>1. x[1] = c /\ x[2] \in owners /\ x[3] = s
          BY <4>2
        <5> QED BY <3>2, <3>3, <5>1
      <4> QED BY <3>4, <4>1, <4>2
    <3> QED BY <1>2, <3>5, <3>6 DEF StakesSound, Paper
  <2> QED BY <1>3, <2>1, <2>2
<1>9. HoldingsTypeOK' /\ FilingsTyped'
  BY <1>1, <1>2, <1>5, <1>7, <1>8 DEF HoldingsTypeOK, FilingsTyped
<1>10. Remain
  BY <1>1, <1>2, RemainsSame
<1>11. \A i \in Sweepers : VisitSound(i)'
  BY <1>2, <1>10, VisitRemains
<1>12. /\ PatternsTraced' /\ RevisionsKept' /\ PagesFiled' /\ HoldersTraced' /\ OthersTraced'
       /\ CopiesSound'
  BY <1>2, <1>10, PatternsRemain, HoldersRemain, OthersRemain, CopiesRemain
<1> QED BY <1>6, <1>8, <1>9, <1>11, <1>12 DEF HoldingsInv

LEMMA WriteEdgesStep == ASSUME HoldingsInv, WriteEdges PROVE HoldingsInv'
<1> DEFINE Found(c, h) == {s \in 1..submitted[c] : <<c, h, s>> \in stakes}
           end(c, h) == IF Found(c, h) = {} THEN edge[c][h] ELSE CHOOSE s \in Found(c, h) : TRUE
<1>1. HoldingsTypeOK /\ FilingsTyped /\ AwaitedSound /\ StakesSound /\ OthersTraced
  BY DEF HoldingsInv
<1>2. /\ StopSweeps({"nse"})
      /\ UNCHANGED <<submitted, declared, pattern, holding, corpAction, copying, uncaptured,
                     holdingFaults>>
      /\ edge' = [c \in Owned |-> [h \in Stakeholders |-> end(c, h)]]
  BY DEF WriteEdges, filings
<1>3. ASSUME NEW c \in Owned, NEW h \in Stakeholders, Found(c, h) # {}
      PROVE  /\ end(c, h) \in 1..submitted[c] /\ end(c, h) \in Nat
             /\ h \in Paper(c, end(c, h)).owners
  <2>1. end(c, h) \in Found(c, h)
    BY <1>3
  <2> HIDE DEF end
  <2>2. end(c, h) \in 1..submitted[c] /\ <<c, h, end(c, h)>> \in stakes
    BY <2>1
  <2>3. submitted[c] \in Nat
    BY <1>1 DEF HoldingsTypeOK
  <2>4. h \in Paper(c, end(c, h)).owners
    BY <1>1, <2>2 DEF StakesSound
  <2> QED BY <2>2, <2>3, <2>4
<1>4. ASSUME NEW c \in Owned, NEW h \in Stakeholders, Found(c, h) = {}
      PROVE  end(c, h) = edge[c][h] /\ edge[c][h] \in Nat
  BY <1>1, <1>4 DEF HoldingsTypeOK
<1> HIDE DEF Found, end
<1>5. edge' \in [Owned -> [Stakeholders -> Nat]]
  BY <1>2, <1>3, <1>4
<1>6. /\ \A j \in {"nse"} : visit'[j].of = NoName
      /\ \A i \in Sweepers \ {"nse"} : visit'[i] = visit[i] /\ stage'[i] = stage[i]
      /\ visit' \in [Sweepers -> [of : Owned \cup {NoName}, page : Nat, next : Nat,
                             kept : [ReportQuarters -> Nat], unread : SUBSET Nat]]
      /\ stage' \in [Sweepers -> {"idle", "patterns", "actions", "owners"}]
      /\ awaited' \in [Sweepers -> SUBSET Owned] /\ AwaitedSound' /\ stakes' \subseteq stakes
  <2>1. {"nse"} \in SUBSET Sweepers
    BY DEF Sweepers
  <2> QED BY <1>1, <1>2, <2>1, StoppingIs
<1>7. HoldingsTypeOK' /\ FilingsTyped'
  BY <1>1, <1>2, <1>5, <1>6 DEF HoldingsTypeOK, FilingsTyped
<1>8. Remain
  BY <1>1, <1>2, RemainsSame
<1>9. \A i \in Sweepers : VisitSound(i)'
  BY <1>6, <1>8, VisitGone, VisitRemains
<1>10. ASSUME NEW c \in Owned, NEW h \in Stakeholders, edge'[c][h] # 0
       PROVE  edge'[c][h] \in 1..submitted[c] /\ h \in Paper(c, edge'[c][h]).owners
  <2>1. edge'[c][h] = end(c, h)
    BY <1>2
  <2>2. CASE Found(c, h) = {}
    BY <1>1, <1>4, <1>10, <2>1, <2>2 DEF OthersTraced
  <2>3. CASE Found(c, h) # {}
    BY <1>3, <2>1, <2>3
  <2> QED BY <2>2, <2>3
<1>11. OthersTraced'
  BY <1>1, <1>2, <1>10 DEF OthersTraced, FirstListed, Paper
<1>12. /\ PatternsTraced' /\ RevisionsKept' /\ PagesFiled' /\ HoldersTraced'
       /\ StakesSound' /\ CopiesSound'
  BY <1>2, <1>6, <1>8, PatternsRemain, HoldersRemain, StakesRemain, CopiesRemain
<1> QED BY <1>6, <1>7, <1>9, <1>11, <1>12 DEF HoldingsInv

\* What the backfill is to copy was filed.
LEMMA CopyingStep ==
  ASSUME HoldingsInv, copying' \subseteq Owned \X Nat, CopiesSound',
         holdingFaults' \in 0..MaxHoldingFaults,
         UNCHANGED <<submitted, declared, stage, awaited, visit, pattern, holding, corpAction,
                     edge, stakes, uncaptured>>
  PROVE  HoldingsInv'
<1>1. HoldingsTypeOK /\ FilingsTyped /\ AwaitedSound
  BY DEF HoldingsInv
<1>2. HoldingsTypeOK' /\ FilingsTyped' /\ AwaitedSound'
  BY <1>1 DEF HoldingsTypeOK, FilingsTyped, AwaitedSound, SweptBy
<1>3. Remain
  BY <1>1, RemainsSame
<1>4. \A i \in Sweepers : VisitSound(i)'
  BY <1>3, VisitRemains
<1>5. /\ PatternsTraced' /\ RevisionsKept' /\ PagesFiled' /\ HoldersTraced' /\ OthersTraced'
      /\ StakesSound'
  BY <1>3, PatternsRemain, HoldersRemain, OthersRemain, StakesRemain
<1> QED BY <1>2, <1>4, <1>5 DEF HoldingsInv

LEMMA StartBackfillStep == ASSUME HoldingsInv, StartBackfill PROVE HoldingsInv'
<1>1. HoldingsTypeOK /\ PatternsTraced
  BY DEF HoldingsInv
<1>2. /\ copying' = {<<p[1], pattern[p[1]][p[2]].of>> : p \in Newest}
      /\ UNCHANGED <<submitted, declared, stage, awaited, visit, pattern, holding, corpAction,
                     edge, stakes, uncaptured, holdingFaults>>
  BY DEF StartBackfill, filings, sweeps, tables
<1>3. ASSUME NEW x \in copying'
      PROVE  x \in Owned \X Nat /\ x[2] \in 1..submitted[x[1]]
  <2>1. PICK p \in Newest : x = <<p[1], pattern[p[1]][p[2]].of>>
    BY <1>2
  <2>2. p \in Owned \X ReportQuarters /\ pattern[p[1]][p[2]].of # 0
    BY DEF Newest
  <2>3. PICK c \in Owned, q \in ReportQuarters : c = p[1] /\ q = p[2]
    BY <2>2
  <2>4. pattern[c][q].of \in Nat
    BY <1>1 DEF HoldingsTypeOK, Rows
  <2>5. pattern[c][q].of \in 1..submitted[c]
    BY <1>1, <2>2, <2>3 DEF PatternsTraced, FiledFor
  <2> QED BY <2>1, <2>3, <2>4, <2>5
<1>4. copying' \subseteq Owned \X Nat /\ CopiesSound'
  BY <1>2, <1>3 DEF CopiesSound
<1> QED BY <1>1, <1>2, <1>4, CopyingStep DEF HoldingsTypeOK

LEMMA BackfillStopsStep == ASSUME HoldingsInv, BackfillStops PROVE HoldingsInv'
<1>1. HoldingsTypeOK
  BY DEF HoldingsInv
<1>2. /\ copying' = {} /\ HoldingFault
      /\ UNCHANGED <<submitted, declared, stage, awaited, visit, pattern, holding, corpAction,
                     edge, stakes, uncaptured>>
  BY DEF BackfillStops, filings, sweeps, tables
<1>3. holdingFaults' \in 0..MaxHoldingFaults
  BY <1>1, <1>2, HoldingsAssumption DEF HoldingFault, HoldingsTypeOK
<1>4. CopiesSound'
  BY <1>2 DEF CopiesSound
<1> QED BY <1>2, <1>3, <1>4, CopyingStep

LEMMA CopyHoldersStep == ASSUME HoldingsInv, CopyHolders PROVE HoldingsInv'
<1>1. HoldingsTypeOK /\ FilingsTyped /\ AwaitedSound /\ HoldersTraced /\ CopiesSound
  BY DEF HoldingsInv
<1>2. UNCHANGED <<submitted, declared, stage, awaited, visit, pattern, corpAction, edge, stakes,
                  uncaptured>>
  BY DEF CopyHolders, filings, sweeps
<1>3. PICK r \in copying :
        /\ copying' = copying \ {r}
        /\ \/ holding' = HoldersOf(r[1], r[2]) /\ UNCHANGED holdingFaults
           \/ HoldingFault /\ UNCHANGED holding
  BY DEF CopyHolders
<1>4. holdingFaults' \in 0..MaxHoldingFaults
  BY <1>1, <1>3, HoldingsAssumption DEF HoldingFault, HoldingsTypeOK
<1>5. copying' \subseteq Owned \X Nat
  BY <1>1, <1>3 DEF HoldingsTypeOK
<1>6. CASE UNCHANGED holding
  <2>1. Remain
    BY <1>1, <1>2, <1>6, RemainsSame
  <2>2. CopiesSound'
    BY <1>3, <2>1, CopiesRemain
  <2> QED BY <1>2, <1>4, <1>5, <1>6, <2>2, CopyingStep
<1>7. CASE holding' = HoldersOf(r[1], r[2])
  <2>1. r \in Owned \X Nat /\ r[2] \in 1..submitted[r[1]]
    BY <1>1 DEF HoldingsTypeOK, CopiesSound
  <2>2. PICK c \in Owned : c = r[1]
    BY <2>1
  <2>3. PICK s \in 1..submitted[c] : s = r[2]
    BY <2>1, <2>2
  <2>4. holding' = HoldersOf(c, s)
    BY <1>7, <2>2, <2>3
  <2>5. /\ holding' \in [Owned -> [ReportQuarters -> [Stakeholders -> Nat]]]
        /\ Remain /\ HoldersTraced'
    BY <1>1, <1>2, <2>4, WritingIs
  <2>6. HoldingsTypeOK' /\ FilingsTyped' /\ AwaitedSound'
    BY <1>1, <1>2, <1>4, <1>5, <2>5 DEF HoldingsTypeOK, FilingsTyped, AwaitedSound, SweptBy
  <2>7. \A i \in Sweepers : VisitSound(i)'
    BY <1>2, <2>5, VisitRemains
  <2>8. PatternsTraced' /\ RevisionsKept' /\ PagesFiled' /\ OthersTraced' /\ StakesSound' /\ CopiesSound'
    BY <1>2, <1>3, <2>5, PatternsRemain, OthersRemain, StakesRemain, CopiesRemain
  <2> QED BY <2>5, <2>6, <2>7, <2>8 DEF HoldingsInv
<1> QED BY <1>3, <1>6, <1>7

-----------------------------------------------------------------------------

LEMMA HoldingsStart == HoldingsInit => HoldingsInv
<1> SUFFICES ASSUME HoldingsInit PROVE HoldingsInv
  OBVIOUS
<1>1. /\ submitted = [c \in Owned |-> 0] /\ declared = [c \in Owned |-> 0]
      /\ stage = [j \in Sweepers |-> "idle"] /\ awaited = [j \in Sweepers |-> {}]
      /\ visit = [j \in Sweepers |-> Nowhere]
      /\ pattern = [c \in Owned |-> [q \in ReportQuarters |-> NoEntry]]
      /\ holding = [c \in Owned |-> [q \in ReportQuarters |-> [h \in Stakeholders |-> 0]]]
      /\ corpAction = [c \in Owned |-> [k \in ActionKeys |-> NoEntry]]
      /\ stakes = {} /\ edge = [c \in Owned |-> [h \in Stakeholders |-> 0]]
      /\ copying = {} /\ uncaptured = {} /\ holdingFaults = 0
  BY DEF HoldingsInit
<1>2. NoEntry \in Rows /\ NoEntry.of = 0 /\ NoEntry.page = 0
  BY DEF NoEntry, TableRow, Rows
<1>3. Nowhere.of = NoName
  BY DEF Nowhere, Visiting
<1>4. HoldingsTypeOK
  BY <1>1, <1>2, EmptyVisit, HoldingsAssumption DEF HoldingsTypeOK
<1>5. FilingsTyped
  BY <1>1, LenIs DEF FilingsTyped
<1>6. AwaitedSound /\ StakesSound /\ CopiesSound
  BY <1>1 DEF AwaitedSound, StakesSound, CopiesSound
<1>7. \A j \in Sweepers : VisitSound(j)
  BY <1>1, <1>3 DEF VisitSound
<1>8. PagesFiled
  BY <1>1, <1>2 DEF PagesFiled
<1>9. PatternsTraced /\ RevisionsKept
  BY <1>1, <1>2 DEF PatternsTraced, RevisionsKept
<1>10. HoldersTraced /\ OthersTraced
  BY <1>1, <1>2 DEF HoldersTraced, OthersTraced
<1> QED BY <1>4, <1>5, <1>6, <1>7, <1>8, <1>9, <1>10 DEF HoldingsInv

LEMMA SweepStepKeeps == ASSUME HoldingsInv, NEW j \in Sweepers, SweepStep(j) PROVE HoldingsInv'
<1>1. CASE AbortSweep(j)
  <2>1. StopSweeps({j}) /\ HoldingFault /\ UNCHANGED <<filings, tables, copying, uncaptured>>
    BY <1>1 DEF AbortSweep
  <2> QED BY <2>1, StopStep
<1> QED BY <1>1, NextStageStep, OpenListingStep, SkipCompanyStep, ReadSubmissionStep,
           UpsertPatternsStep, UpsertActionsStep DEF SweepStep

LEMMA HoldingsStep == HoldingsInv /\ [HoldingsNext]_holdingVars => HoldingsInv'
<1> SUFFICES ASSUME HoldingsInv, [HoldingsNext]_holdingVars PROVE HoldingsInv'
  OBVIOUS
<1>1. CASE UNCHANGED holdingVars
  <2>1. UNCHANGED <<submitted, declared, stage, awaited, visit, pattern, holding, corpAction,
                    stakes, edge, copying, uncaptured, holdingFaults>>
    BY <1>1 DEF holdingVars
  <2>2. HoldingsTypeOK /\ FilingsTyped /\ AwaitedSound
    BY DEF HoldingsInv
  <2>3. HoldingsTypeOK' /\ FilingsTyped' /\ AwaitedSound'
    BY <2>1, <2>2 DEF HoldingsTypeOK, FilingsTyped, AwaitedSound, SweptBy
  <2>4. Remain
    BY <2>1, <2>2, RemainsSame
  <2>5. \A j \in Sweepers : VisitSound(j)'
    BY <2>1, <2>4, VisitRemains
  <2> QED BY <2>1, <2>3, <2>4, <2>5, Quiet DEF tables
<1>2. CASE MonitorStops
  <2>1. /\ StopSweeps({"nse", "bse"}) /\ HoldingFault
        /\ UNCHANGED <<filings, tables, copying, uncaptured>>
    BY <1>2 DEF MonitorStops
  <2>2. {"nse", "bse"} \in SUBSET Sweepers
    BY DEF Sweepers
  <2> QED BY <2>1, <2>2, StopStep
<1> QED BY <1>1, <1>2, SubmitStep, DeclareStep, SweepStepKeeps, ReadOwnersStep, WriteEdgesStep,
           StartBackfillStep, CopyHoldersStep, BackfillStopsStep DEF HoldingsNext

\* Whichever sweeps run at once, fail or stop, a pattern, a holder, a stake and an
\* action is traced to what was filed, and of the revisions of a quarter the one
\* counts that each exchange's sweep is to keep, for any companies, submissions and
\* quarters (kb/sync/nse_shareholding_sync.py, bse_shareholding_sync.py,
\* investor_holdings_sync.py, nse_ownership_sync.py).
THEOREM HoldingsTracedHolds == HoldingsSpec => []HoldingsTraced
<1>1. HoldingsInv => HoldingsTraced
  BY DEF HoldingsInv, HoldingsTraced
<1> QED BY <1>1, HoldingsStart, HoldingsStep, PTL DEF HoldingsSpec

-----------------------------------------------------------------------------
(* The services together.                                                  *)

\* The subjects share no variable.
LEMMA EachMovesOrRests ==
  ASSUME [KnowledgeNext]_<<focus, knowledgeVars>>
  PROVE  /\ [DossierNext]_dossierVars /\ [MemoryNext]_memoryVars /\ [GuidanceNext]_guidanceVars
         /\ [ConversationNext]_conversationVars /\ [HoldingsNext]_holdingVars
<1>1. CASE DossiersMove
  BY <1>1 DEF DossiersMove
<1>2. CASE MemoryMoves
  BY <1>2 DEF MemoryMoves
<1>3. CASE GuidanceMoves
  BY <1>3 DEF GuidanceMoves
<1>4. CASE ConversationsMove
  BY <1>4 DEF ConversationsMove
<1>5. CASE NseOwnersMove
  BY <1>5 DEF NseOwnersMove
<1>6. CASE BseOwnersMove
  BY <1>6 DEF BseOwnersMove
<1>7. CASE UNCHANGED <<focus, knowledgeVars>>
  BY <1>7 DEF knowledgeVars
<1> QED BY <1>1, <1>2, <1>3, <1>4, <1>5, <1>6, <1>7 DEF KnowledgeNext

\* These services do not disturb each other: what they do together is what each
\* does alone (research/dossier_agent.py, kb/memory/index.py,
\* kb/sync/guidance_ledger_sync.py, research/chat_engine.py and the sweeps of the
\* owners write tables of their own).
THEOREM KnowledgeCompose ==
  KnowledgeSpec => /\ DossierInit /\ [][DossierNext]_dossierVars
                   /\ MemoryInit /\ [][MemoryNext]_memoryVars
                   /\ GuidanceInit /\ [][GuidanceNext]_guidanceVars
                   /\ ConversationSpec /\ HoldingsSpec
<1>1. KnowledgeInit => /\ DossierInit /\ MemoryInit /\ GuidanceInit /\ ConversationInit
                       /\ HoldingsInit
  BY DEF KnowledgeInit
<1>2. [KnowledgeNext]_<<focus, knowledgeVars>> => [DossierNext]_dossierVars
  BY EachMovesOrRests
<1>3. [KnowledgeNext]_<<focus, knowledgeVars>> => [MemoryNext]_memoryVars
  BY EachMovesOrRests
<1>4. [KnowledgeNext]_<<focus, knowledgeVars>> => [GuidanceNext]_guidanceVars
  BY EachMovesOrRests
<1>5. [KnowledgeNext]_<<focus, knowledgeVars>> => [ConversationNext]_conversationVars
  BY EachMovesOrRests
<1>6. [KnowledgeNext]_<<focus, knowledgeVars>> => [HoldingsNext]_holdingVars
  BY EachMovesOrRests
<1> QED BY <1>1, <1>2, <1>3, <1>4, <1>5, <1>6, PTL
    DEF KnowledgeSpec, ConversationSpec, HoldingsSpec

=============================================================================
