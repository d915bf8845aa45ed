------------------------ MODULE RealtimeAgent_proofs ------------------------
(***************************************************************************)
(* Theorems about a realtime session: for any number of overlapping        *)
(* utterances, interruptions and outages, and for every limit.             *)
(***************************************************************************)
EXTENDS RealtimeAgent, FiniteSetTheorems, WellFoundedInduction, TLAPS

(***************************************************************************)
(* The tool calls of a reply.                                              *)
(***************************************************************************)

\* How many calls at the head of a reply are rejected at once.
Rejected(tools) ==
  CHOOSE n \in 0 .. Len(tools) :
    /\ \A i \in 1 .. n : tools[i] = "reject"
    /\ n < Len(tools) => tools[n + 1] # "reject"

LEMMA RepliesAreSequences ==
  ASSUME NEW tools \in Replies
  PROVE  /\ tools \in Seq(Tools)
         /\ Len(tools) \in 0 .. MaxToolCalls
         /\ tools \in [1 .. Len(tools) -> Tools]
BY LimitsAssumption DEF Replies

LEMMA SequenceIsFunction ==
  ASSUME NEW s \in Seq(Tools)
  PROVE  s \in [1 .. Len(s) -> Tools]
OBVIOUS

LEMMA NoTools == <<>> \in Replies
<1>1. <<>> \in [1 .. 0 -> Tools]
  OBVIOUS
<1> QED BY <1>1, LimitsAssumption DEF Replies

LEMMA RejectedExists ==
  ASSUME NEW tools \in Replies
  PROVE  Rejected(tools) \in 0 .. Len(tools)
<1> DEFINE Stops == {n \in 0 .. Len(tools) : n < Len(tools) => tools[n + 1] # "reject"}
<1>1. Len(tools) \in Nat
  BY RepliesAreSequences, LimitsAssumption
<1>2. Len(tools) \in Stops
  BY <1>1
<1>3. Stops \subseteq Nat /\ Stops # {}
  BY <1>1, <1>2
<1>4. PICK n \in Stops : \A m \in Stops : <<m, n>> \notin OpToRel(<, Nat)
  <2> HIDE DEF Stops
  <2> QED BY <1>3, WFMin, NatLessThanWellFounded
<1>5. \A m \in Stops : ~(m < n)
  BY <1>3, <1>4 DEF OpToRel
<1>6. ASSUME NEW i \in 1 .. n PROVE tools[i] = "reject"
  <2>1. n \in 0 .. Len(tools) /\ i \in Nat
    BY <1>3
  <2>2. i - 1 \in 0 .. Len(tools) /\ i - 1 < Len(tools) /\ (i - 1) + 1 = i /\ i - 1 < n
    BY <1>1, <2>1
  <2>3. i - 1 \notin Stops
    <3> HIDE DEF Stops
    <3> QED BY <1>5, <2>2
  <2> QED BY <2>2, <2>3
<1> QED BY <1>4, <1>6 DEF Rejected

\* What is left of a reply is a reply.
LEMMA RestIsReply ==
  ASSUME NEW tools \in Replies
  PROVE  /\ SubSeq(tools, Rejected(tools) + 1, Len(tools)) \in Replies
         /\ Len(SubSeq(tools, Rejected(tools) + 1, Len(tools))) = Len(tools) - Rejected(tools)
<1> DEFINE r == Rejected(tools)
           rest == SubSeq(tools, r + 1, Len(tools))
<1>1. r \in 0 .. Len(tools) /\ Len(tools) \in 0 .. MaxToolCalls /\ tools \in Seq(Tools)
  BY RejectedExists, RepliesAreSequences
<1> HIDE DEF r
<1>2. rest \in Seq(Tools) /\ Len(rest) = Len(tools) - r
  BY <1>1
<1>3. Len(rest) \in 0 .. MaxToolCalls
  BY <1>1, <1>2, LimitsAssumption
<1>4. rest \in [1 .. Len(rest) -> Tools]
  <2> HIDE DEF rest
  <2> QED BY <1>2, SequenceIsFunction
<1>5. rest \in Replies
  BY <1>3, <1>4 DEF Replies
<1> QED BY <1>2, <1>5 DEF r

LEMMA TailIsReply ==
  ASSUME NEW tools \in Replies, tools # <<>>
  PROVE  Tail(tools) \in Replies /\ Len(Tail(tools)) = Len(tools) - 1 /\ Len(tools) # 0
<1>1. tools \in Seq(Tools) /\ Len(tools) \in 0 .. MaxToolCalls /\ Len(tools) # 0
  BY RepliesAreSequences
<1>2. Tail(tools) \in Seq(Tools) /\ Len(Tail(tools)) = Len(tools) - 1
  BY <1>1
<1>3. Len(Tail(tools)) \in 0 .. MaxToolCalls
  BY <1>1, <1>2, LimitsAssumption
<1>4. Tail(tools) \in [1 .. Len(Tail(tools)) -> Tools]
  BY <1>2, SequenceIsFunction
<1> QED BY <1>1, <1>2, <1>3, <1>4 DEF Replies

(***************************************************************************)
(* What the turn of the model does to the agent.                           *)
(***************************************************************************)

\* Types, as far as the theorems need them.
SessionShape ==
  /\ row \in [status : Statuses, consentGiven : BOOLEAN]
  /\ answered \in BOOLEAN
  /\ usage \in Nat /\ generated \in Nat /\ started \in Nat
  /\ agent \in Agent
  /\ prompt \in [Prompts -> Prompt]
  /\ raced \in BOOLEAN
  /\ faults \in 0 .. MaxFaults

\* A handler that waits for a tool call has one.
ToolsWaiting ==
  \A p \in Prompts : prompt[p].pc \in {"saveAnswer", "goodbye"} => prompt[p].tools # <<>>

\* Where a handler waits after the head of the loop, of the turn, or of the tool calls.
TurnPcs == {"idle", "generate", "saveAnswer", "goodbye", "wrapUp"}

\* The turn of p goes on, or ends: nothing changes for the other handlers, and only an
\* agent that has not ended starts a generation.
TurnGoesOn(p) ==
  /\ prompt' \in [Prompts -> Prompt]
  /\ \A q \in Prompts \ {p} : prompt'[q] = prompt[q]
  /\ prompt'[p].pc \in TurnPcs
  /\ agent' \in Agent
  /\ agent'.consentGiven = agent.consentGiven
  /\ agent'.ended = agent.ended
  /\ started' \in Nat
  /\ started' = started \/ (prompt'[p].pc = "generate" /\ ~agent.ended)
  /\ prompt'[p].pc = "generate" => agent'.abort = p /\ ~agent.ended
  /\ prompt'[p].pc \in {"saveAnswer", "goodbye"} => prompt'[p].tools # <<>>

LEMMA NoneHeardType == NoneHeard \in Prompt
BY NoTools, LimitsAssumption DEF NoneHeard, Prompt, PromptPcs, Texts

LEMMA GotoType ==
  ASSUME SessionShape, NEW p \in Prompts, NEW pc \in PromptPcs, Goto(p, pc)
  PROVE  /\ prompt' \in [Prompts -> Prompt]
         /\ \A q \in Prompts \ {p} : prompt'[q] = prompt[q]
         /\ prompt'[p].pc = pc
         /\ prompt'[p].tools = prompt[p].tools
         /\ prompt'[p].read = prompt[p].read
BY DEF SessionShape, Goto, Prompt

LEMMA ReturnType ==
  ASSUME SessionShape, NEW p \in Prompts, Return(p)
  PROVE  /\ prompt' \in [Prompts -> Prompt]
         /\ \A q \in Prompts \ {p} : prompt'[q] = prompt[q]
         /\ prompt'[p].pc = "idle"
<1>1. prompt' = [prompt EXCEPT ![p] = NoneHeard]
  BY DEF Return
<1>2. NoneHeard.pc = "idle"
  BY DEF NoneHeard
<1> QED BY <1>1, <1>2, NoneHeardType DEF SessionShape

\* The handler keeps the reply, or what it read, when it goes on.
LEMMA UsageGoto ==
  ASSUME SessionShape, NEW p \in Prompts, NEW tools \in Replies,
         prompt' = [prompt EXCEPT ![p].pc = "usage", ![p].tools = tools]
  PROVE  /\ prompt' \in [Prompts -> Prompt]
         /\ \A q \in Prompts \ {p} : prompt'[q] = prompt[q]
         /\ prompt'[p].pc = "usage"
<1> DEFINE mid == [prompt EXCEPT ![p].pc = "usage"]
<1>1. prompt' = [mid EXCEPT ![p].tools = tools]
  OBVIOUS
<1>2. /\ mid \in [Prompts -> Prompt] /\ \A q \in Prompts \ {p} : mid[q] = prompt[q]
      /\ mid[p].pc = "usage"
  BY DEF SessionShape, Prompt, PromptPcs
<1> HIDE DEF mid
<1> DEFINE new == [mid[p] EXCEPT !.tools = tools]
<1>3. new \in Prompt /\ new.pc = "usage"
  BY <1>2 DEF Prompt
<1>4. prompt' = [mid EXCEPT ![p] = new]
  BY <1>1
<1> HIDE DEF new
<1> QED BY <1>2, <1>3, <1>4

LEMMA ReadGoto ==
  ASSUME SessionShape, NEW p \in Prompts,
         prompt' = [prompt EXCEPT ![p].pc = "usageWrite", ![p].read = usage]
  PROVE  /\ prompt' \in [Prompts -> Prompt]
         /\ \A q \in Prompts \ {p} : prompt'[q] = prompt[q]
         /\ prompt'[p].pc = "usageWrite" /\ prompt'[p].read = usage
<1> DEFINE mid == [prompt EXCEPT ![p].pc = "usageWrite"]
<1>1. prompt' = [mid EXCEPT ![p].read = usage] /\ usage \in Nat
  BY DEF SessionShape
<1>2. /\ mid \in [Prompts -> Prompt] /\ \A q \in Prompts \ {p} : mid[q] = prompt[q]
      /\ mid[p].pc = "usageWrite"
  BY DEF SessionShape, Prompt, PromptPcs
<1> HIDE DEF mid
<1> DEFINE new == [mid[p] EXCEPT !.read = usage]
<1>3. new \in Prompt /\ new.pc = "usageWrite" /\ new.read = usage
  BY <1>1, <1>2 DEF Prompt
<1>4. prompt' = [mid EXCEPT ![p] = new]
  BY <1>1
<1> HIDE DEF new
<1> QED BY <1>2, <1>3, <1>4

LEMMA NextHopEffect ==
  ASSUME SessionShape, NEW p \in Prompts, NEW hop \in Nat, NEW turns \in Nat,
         NextHop(p, hop, turns)
  PROVE  TurnGoesOn(p) /\ prompt'[p].pc \in {"idle", "generate"}
<1>1. CASE hop < MaxHops /\ ~agent.ended
  <2> DEFINE new == [NoneHeard EXCEPT !.pc = "generate", !.hop = hop]
  <2>1. new \in Prompt /\ new.pc = "generate"
    <3> DEFINE mid == [NoneHeard EXCEPT !.pc = "generate"]
    <3>1. mid \in Prompt /\ mid.pc = "generate"
      BY NoneHeardType DEF Prompt, PromptPcs
    <3>2. new = [mid EXCEPT !.hop = hop]
      OBVIOUS
    <3>3. hop \in 0 .. MaxHops
      BY <1>1, LimitsAssumption
    <3> HIDE DEF mid, new
    <3> QED BY <3>1, <3>2, <3>3 DEF Prompt
  <2>2. prompt' = [prompt EXCEPT ![p] = new]
    BY <1>1 DEF NextHop
  <2> HIDE DEF new
  <2>3. agent' \in Agent /\ agent'.consentGiven = agent.consentGiven
        /\ agent'.ended = agent.ended /\ agent'.abort = p
    BY <1>1 DEF NextHop, SessionShape, Agent
  <2>4. started' \in Nat
    BY <1>1 DEF NextHop, SessionShape
  <2> QED BY <1>1, <2>1, <2>2, <2>3, <2>4 DEF TurnGoesOn, TurnPcs, SessionShape
<1>2. CASE ~(hop < MaxHops /\ ~agent.ended)
  <2>1. agent' \in Agent /\ agent'.consentGiven = agent.consentGiven
        /\ agent'.ended = agent.ended /\ started' = started
    BY <1>2 DEF NextHop, SessionShape, Agent
  <2>2. Return(p)
    BY <1>2 DEF NextHop
  <2> QED BY <2>1, <2>2, ReturnType DEF TurnGoesOn, TurnPcs, SessionShape
<1> QED BY <1>1, <1>2

LEMMA RunLlmTurnEffect ==
  ASSUME SessionShape, NEW p \in Prompts, RunLlmTurn(p)
  PROVE  TurnGoesOn(p) /\ prompt'[p].pc \in {"idle", "generate", "wrapUp"}
<1>1. CASE agent.turns + 1 > MaxTurns
  <2>1. Goto(p, "wrapUp")
    BY <1>1 DEF RunLlmTurn
  <2>2. agent' \in Agent /\ agent'.consentGiven = agent.consentGiven
        /\ agent'.ended = agent.ended /\ started' = started
    BY <1>1 DEF RunLlmTurn, SessionShape, Agent
  <2> QED BY <2>1, <2>2, GotoType DEF TurnGoesOn, TurnPcs, PromptPcs, SessionShape
<1>2. CASE ~(agent.turns + 1 > MaxTurns)
  <2>1. agent.turns + 1 \in Nat
    BY DEF SessionShape, Agent
  <2>2. NextHop(p, 0, agent.turns + 1)
    BY <1>2 DEF RunLlmTurn
  <2> QED BY <2>1, <2>2, NextHopEffect
<1> QED BY <1>1, <1>2

\* The loop over the tool calls: as many results as calls are dealt with.
LEMMA RunToolsEffect ==
  ASSUME SessionShape, NEW p \in Prompts, NEW tools \in Replies, NEW open,
         RunTools(p, tools, open)
  PROVE  /\ TurnGoesOn(p)
         /\ prompt'[p].pc \in {"idle", "generate", "saveAnswer", "goodbye"}
         /\ open = Len(tools) /\ prompt'[p].pc \in {"saveAnswer", "goodbye"} =>
              openTools' = Len(prompt'[p].tools)
         /\ open = Len(tools) /\ prompt'[p].pc \in {"idle", "generate"} =>
              agent.ended \/ openTools' = 0
<1> DEFINE r == Rejected(tools)
           rest == SubSeq(tools, r + 1, Len(tools))
<1>1. /\ r \in 0 .. Len(tools) /\ Len(tools) \in Nat
      /\ rest \in Replies /\ Len(rest) = Len(tools) - r
  <2>1. r \in 0 .. Len(tools)
    BY RejectedExists
  <2>2. Len(tools) \in Nat
    BY RepliesAreSequences, LimitsAssumption
  <2>3. rest \in Replies /\ Len(rest) = Len(tools) - r
    BY RestIsReply
  <2> QED BY <2>1, <2>2, <2>3
<1>2. IF r > 0 /\ agent.ended
        THEN Return(p) /\ openTools' = open - 1 /\ UNCHANGED <<agent, started>>
        ELSE /\ openTools' = open - r
             /\ IF rest = <<>>
                  THEN NextHop(p, prompt[p].hop + 1, agent.turns)
                  ELSE /\ prompt' = [prompt EXCEPT ![p].tools = rest,
                             ![p].pc = IF Head(rest) = "save" THEN "saveAnswer" ELSE "goodbye"]
                       /\ UNCHANGED <<agent, started>>
  BY DEF RunTools, Rejected
<1>3. prompt[p].hop + 1 \in Nat /\ agent.turns \in Nat
  BY LimitsAssumption DEF SessionShape, Prompt, Agent
<1> HIDE DEF r, rest
<1>4. CASE r > 0 /\ agent.ended
  BY <1>2, <1>4, ReturnType DEF TurnGoesOn, TurnPcs, SessionShape
<1>5. CASE ~(r > 0 /\ agent.ended) /\ rest = <<>>
  <2>1. TurnGoesOn(p) /\ prompt'[p].pc \in {"idle", "generate"}
    BY <1>2, <1>3, <1>5, NextHopEffect
  <2>2. Len(rest) = 0
    BY <1>5
  <2>3. openTools' = open - r
    BY <1>2, <1>5
  <2> QED BY <1>1, <2>1, <2>2, <2>3
<1>6. CASE ~(r > 0 /\ agent.ended) /\ rest # <<>>
  <2> DEFINE pc == IF Head(rest) = "save" THEN "saveAnswer" ELSE "goodbye"
  <2>1. pc \in {"saveAnswer", "goodbye"}
    OBVIOUS
  <2>2. prompt' = [prompt EXCEPT ![p].tools = rest, ![p].pc = pc]
    BY <1>2, <1>6
  <2>3. openTools' = open - r /\ UNCHANGED <<agent, started>>
    BY <1>2, <1>6
  <2> HIDE DEF pc
  <2>4. /\ prompt' \in [Prompts -> Prompt]
        /\ \A q \in Prompts \ {p} : prompt'[q] = prompt[q]
        /\ prompt'[p].pc = pc /\ prompt'[p].tools = rest
    <3> DEFINE mid == [prompt EXCEPT ![p].tools = rest]
    <3>1. prompt' = [mid EXCEPT ![p].pc = pc]
      BY <2>2
    <3>2. /\ mid \in [Prompts -> Prompt]
          /\ \A q \in Prompts \ {p} : mid[q] = prompt[q]
          /\ mid[p].tools = rest
      BY <1>1 DEF SessionShape, Prompt
    <3> HIDE DEF mid
    <3> QED BY <2>1, <3>1, <3>2 DEF Prompt, PromptPcs
  <2> QED BY <1>1, <1>6, <2>1, <2>3, <2>4 DEF TurnGoesOn, TurnPcs, SessionShape
<1> QED BY <1>4, <1>5, <1>6

(***************************************************************************)
(* Every step keeps the types; a handler changes no other handler.         *)
(***************************************************************************)

LEMMA PromptStepShape ==
  ASSUME SessionShape, ToolsWaiting, NEW p \in Prompts, PromptStep(p)
  PROVE  /\ SessionShape'
         /\ \A q \in Prompts \ {p} : prompt'[q] = prompt[q]
<1> DEFINE Others == \A q \in Prompts \ {p} : prompt'[q] = prompt[q]
<1>1. CASE PassConsentGate(p)
  <2>1. UNCHANGED <<row, answered, usage, generated, raced, faults>>
    BY <1>1 DEF PassConsentGate, rowVars
  <2>2. CASE agent.consentGiven
    <3>1. RunLlmTurn(p)
      BY <1>1, <2>2 DEF PassConsentGate
    <3> QED BY <2>1, <3>1, RunLlmTurnEffect DEF SessionShape, TurnGoesOn
  <2>3. CASE ~agent.consentGiven
    <3>1. PICK pc \in {"decline", "consent", "retry"} : Goto(p, pc)
      BY <1>1, <2>3 DEF PassConsentGate
    <3>2. agent' \in Agent /\ started' = started
      BY <1>1, <2>3 DEF PassConsentGate, SessionShape, Agent
    <3> QED BY <2>1, <3>1, <3>2, GotoType DEF SessionShape, PromptPcs
  <2> QED BY <2>2, <2>3
<1>2. CASE StoreDeclined(p)
  <2>1. row' \in [status : Statuses, consentGiven : BOOLEAN]
    BY <1>2 DEF StoreDeclined, SessionShape, Statuses
  <2> QED BY <1>2, <2>1, GotoType DEF StoreDeclined, SessionShape, PromptPcs, histVars
<1>3. CASE EndDeclined(p)
  <2>1. agent' \in Agent
    BY <1>3 DEF EndDeclined, SessionShape, Agent
  <2> QED BY <1>3, <2>1, ReturnType DEF EndDeclined, SessionShape, rowVars, histVars
<1>4. CASE RetryConsent(p)
  BY <1>4, ReturnType DEF RetryConsent, SessionShape, rowVars, histVars
<1>5. CASE StoreConsent(p)
  <2>1. row' \in [status : Statuses, consentGiven : BOOLEAN]
    BY <1>5 DEF StoreConsent, SessionShape
  <2> QED BY <1>5, <2>1, GotoType DEF StoreConsent, SessionShape, PromptPcs, histVars
<1>6. CASE StoreInProgress(p)
  <2>1. row' \in [status : Statuses, consentGiven : BOOLEAN]
    BY <1>6 DEF StoreInProgress, SessionShape, Statuses
  <2>2. RunLlmTurn(p)
    BY <1>6 DEF StoreInProgress
  <2> QED BY <1>6, <2>1, <2>2, RunLlmTurnEffect DEF StoreInProgress, SessionShape, TurnGoesOn
<1>7. CASE GenerationReturns(p)
  <2>1. PICK tools \in Replies : prompt' = [prompt EXCEPT ![p].pc = "usage", ![p].tools = tools]
    BY <1>7 DEF GenerationReturns
  <2>2. prompt' \in [Prompts -> Prompt] /\ Others
    BY <2>1, UsageGoto
  <2>3. agent' \in Agent
    BY <1>7 DEF GenerationReturns, SessionShape, Agent
  <2> QED BY <1>7, <2>2, <2>3 DEF GenerationReturns, SessionShape, rowVars
<1>8. CASE CatchAbort(p)
  <2>1. agent' \in Agent
    BY <1>8 DEF CatchAbort, SessionShape, Agent
  <2> QED BY <1>8, <2>1, ReturnType DEF CatchAbort, SessionShape, rowVars, histVars
<1>9. CASE ReadUsage(p)
  <2>2. prompt' \in [Prompts -> Prompt] /\ Others
    BY <1>9, ReadGoto DEF ReadUsage
  <2> QED BY <1>9, <2>2 DEF ReadUsage, SessionShape, rowVars, histVars
<1>10. CASE WriteUsage(p)
  <2>1. usage' \in Nat
    BY <1>10 DEF WriteUsage, SessionShape, Prompt
  <2> QED BY <1>10, <2>1, GotoType DEF WriteUsage, SessionShape, PromptPcs, histVars
<1>11. CASE StoreReply(p)
  <2>1. UNCHANGED <<row, answered, usage, generated, raced, faults>>
    BY <1>11 DEF StoreReply, rowVars
  <2>2. CASE prompt[p].tools = <<>>
    BY <1>11, <2>1, <2>2, ReturnType DEF StoreReply, SessionShape
  <2>3. CASE prompt[p].tools # <<>>
    <3>1. RunTools(p, prompt[p].tools, openTools + Len(prompt[p].tools))
      BY <1>11, <2>3 DEF StoreReply
    <3>2. prompt[p].tools \in Replies
      BY DEF SessionShape, Prompt
    <3> QED BY <2>1, <3>1, <3>2, RunToolsEffect DEF SessionShape, TurnGoesOn
  <2> QED BY <2>2, <2>3
<1>12. CASE SaveAnswer(p) /\ agent.ended
  BY <1>12, ReturnType DEF SaveAnswer, SessionShape
<1>13. CASE SaveAnswer(p) /\ ~agent.ended /\ prompt[p].tools # <<>>
  <2>1. UNCHANGED <<row, usage, generated, raced, faults>> /\ answered' = TRUE
    BY <1>13 DEF SaveAnswer
  <2>2. RunTools(p, Tail(prompt[p].tools), openTools - 1)
    BY <1>13 DEF SaveAnswer
  <2>3. Tail(prompt[p].tools) \in Replies
    BY <1>13, TailIsReply DEF SessionShape, Prompt
  <2> QED BY <2>1, <2>2, <2>3, RunToolsEffect DEF SessionShape, TurnGoesOn
<1>14. CASE SpeakGoodbye(p)
  <2>1. UNCHANGED <<row, answered, usage, generated, started, raced, faults>>
    BY <1>14 DEF SpeakGoodbye, rowVars, histVars
  <2>2. CASE agent.ended
    BY <1>14, <2>1, <2>2, ReturnType DEF SpeakGoodbye, FinishFirst, SessionShape
  <2>3. CASE ~agent.ended
    <3>1. Goto(p, "finish") /\ agent' \in Agent
      BY <1>14, <2>3 DEF SpeakGoodbye, FinishFirst, SessionShape, Agent
    <3> QED BY <2>1, <3>1, GotoType DEF SessionShape, PromptPcs
  <2> QED BY <2>2, <2>3
<1>15. CASE FinishPrompt(p)
  BY <1>15, ReturnType DEF FinishPrompt, SessionShape, rowVars, histVars
<1>16. CASE TurnFails(p)
  <2>1. agent' \in Agent
    BY <1>16 DEF TurnFails, SessionShape, Agent
  <2>2. faults' \in 0 .. MaxFaults
    BY <1>16, LimitsAssumption DEF TurnFails, SessionShape
  <2> QED BY <1>16, <2>1, <2>2, ReturnType DEF TurnFails, SessionShape, rowVars
<1> QED BY <1>1, <1>2, <1>3, <1>4, <1>5, <1>6, <1>7, <1>8, <1>9, <1>10, <1>11, <1>12, <1>13,
           <1>14, <1>15, <1>16 DEF PromptStep, SaveAnswer, ToolsWaiting, At

(***************************************************************************)
(* The consent gate.                                                       *)
(***************************************************************************)

BeforeGate == {"idle", "heard", "decline", "declined", "retry"}

ConsentGate ==
  /\ started > 0 => agent.consentGiven
  /\ \A p \in Prompts : prompt[p].pc \notin BeforeGate => agent.consentGiven

LEMMA PromptStepGate ==
  ASSUME SessionShape, ToolsWaiting, ConsentGate, NEW p \in Prompts, PromptStep(p)
  PROVE  ToolsWaiting' /\ ConsentGate'
<1> DEFINE pc == prompt[p].pc
           next == prompt'[p].pc
           Waiting == next \in {"saveAnswer", "goodbye"} => prompt'[p].tools # <<>>
           Kept == /\ agent'.consentGiven = agent.consentGiven
                   /\ next \notin BeforeGate => pc \notin BeforeGate
                   /\ started' = started \/ pc \notin BeforeGate
           Passed == ~agent.consentGiven /\ started' = started
                     /\ (next \notin BeforeGate => agent'.consentGiven)
<1> USE DEF BeforeGate
<1>1. CASE PassConsentGate(p) /\ agent.consentGiven
  <2>1. RunLlmTurn(p)
    BY <1>1 DEF PassConsentGate
  <2>2. agent'.consentGiven = agent.consentGiven /\ Waiting
    BY <2>1, RunLlmTurnEffect DEF TurnGoesOn
  <2> QED BY <1>1, <2>2, PromptStepShape DEF ToolsWaiting, ConsentGate
<1>2. CASE PassConsentGate(p) /\ ~agent.consentGiven
  <2>1. /\ Goto(p, CASE prompt[p].text = "no"  -> "decline"
                      [] prompt[p].text = "yes" -> "consent"
                      [] OTHER                  -> "retry")
        /\ agent' = [agent EXCEPT !.consentGiven = prompt[p].text = "yes"]
        /\ started' = started
    BY <1>2 DEF PassConsentGate
  <2>2. agent'.consentGiven = (prompt[p].text = "yes")
    BY <2>1 DEF SessionShape, Agent
  <2>3. CASE prompt[p].text = "yes"
    <3>1. Goto(p, "consent")
      BY <2>1, <2>3
    <3>2. next = "consent"
      BY <3>1, GotoType DEF PromptPcs
    <3> QED BY <1>2, <2>1, <2>2, <2>3, <3>2, PromptStepShape DEF ToolsWaiting, ConsentGate
  <2>4. CASE prompt[p].text # "yes"
    <3>1. Goto(p, "decline") \/ Goto(p, "retry")
      BY <2>1, <2>4
    <3>2. next \in {"decline", "retry"}
      BY <3>1, GotoType DEF PromptPcs
    <3> QED BY <1>2, <2>1, <3>2, PromptStepShape DEF ToolsWaiting, ConsentGate
  <2> QED BY <2>3, <2>4
<1>3. ASSUME ~PassConsentGate(p) PROVE Kept /\ Waiting
  <2>1. CASE StoreDeclined(p)
    BY <2>1, GotoType DEF StoreDeclined, PromptPcs, histVars, At
  <2>2. CASE EndDeclined(p)
    BY <2>2, ReturnType DEF EndDeclined, histVars, At, SessionShape, Agent
  <2>3. CASE RetryConsent(p)
    BY <2>3, ReturnType DEF RetryConsent, histVars, At
  <2>4. CASE StoreConsent(p)
    BY <2>4, GotoType DEF StoreConsent, PromptPcs, histVars, At
  <2>5. CASE StoreInProgress(p)
    BY <2>5, RunLlmTurnEffect DEF StoreInProgress, TurnGoesOn, At
  <2>6. CASE GenerationReturns(p)
    <3>1. PICK tools \in Replies : prompt' = [prompt EXCEPT ![p].pc = "usage", ![p].tools = tools]
      BY <2>6 DEF GenerationReturns
    <3>2. next = "usage"
      BY <3>1, UsageGoto
    <3> QED BY <2>6, <3>2 DEF GenerationReturns, At, SessionShape, Agent
  <2>7. CASE CatchAbort(p)
    BY <2>7, ReturnType DEF CatchAbort, histVars, At, SessionShape, Agent
  <2>8. CASE ReadUsage(p)
    <3>1. next = "usageWrite"
      BY <2>8, ReadGoto DEF ReadUsage
    <3> QED BY <2>8, <3>1 DEF ReadUsage, histVars, At
  <2>9. CASE WriteUsage(p)
    BY <2>9, GotoType DEF WriteUsage, PromptPcs, histVars, At
  <2>10. CASE StoreReply(p) /\ prompt[p].tools = <<>>
    BY <2>10, ReturnType DEF StoreReply, At
  <2>11. CASE StoreReply(p) /\ prompt[p].tools # <<>>
    <3>1. RunTools(p, prompt[p].tools, openTools + Len(prompt[p].tools))
          /\ prompt[p].tools \in Replies /\ At(p, "reply")
      BY <2>11 DEF StoreReply, SessionShape, Prompt
    <3> QED BY <3>1, RunToolsEffect DEF TurnGoesOn, At
  <2>12. CASE SaveAnswer(p) /\ agent.ended
    BY <2>12, ReturnType DEF SaveAnswer, At
  <2>13. CASE SaveAnswer(p) /\ ~agent.ended
    <3>1. At(p, "saveAnswer") /\ RunTools(p, Tail(prompt[p].tools), openTools - 1)
      BY <2>13 DEF SaveAnswer
    <3>2. Tail(prompt[p].tools) \in Replies
      BY <3>1, TailIsReply DEF SessionShape, Prompt, ToolsWaiting, At
    <3> QED BY <3>1, <3>2, RunToolsEffect DEF TurnGoesOn, At
  <2>14. CASE SpeakGoodbye(p) /\ agent.ended
    BY <2>14, ReturnType DEF SpeakGoodbye, FinishFirst, At, histVars
  <2>15. CASE SpeakGoodbye(p) /\ ~agent.ended
    BY <2>15, GotoType DEF SpeakGoodbye, FinishFirst, At, histVars, SessionShape, Agent, PromptPcs
  <2>16. CASE FinishPrompt(p)
    BY <2>16, ReturnType DEF FinishPrompt, At, histVars
  <2>17. CASE TurnFails(p)
    <3>1. next = "idle" /\ started' = started
      BY <2>17, ReturnType DEF TurnFails
    <3>2. agent'.consentGiven = agent.consentGiven
      BY <2>17 DEF TurnFails, SessionShape, Agent
    <3> QED BY <3>1, <3>2
  <2> QED BY <1>3, <2>1, <2>2, <2>3, <2>4, <2>5, <2>6, <2>7, <2>8, <2>9, <2>10, <2>11, <2>12,
             <2>13, <2>14, <2>15, <2>16, <2>17 DEF PromptStep
<1>4. CASE ~PassConsentGate(p)
  BY <1>3, <1>4, PromptStepShape DEF ToolsWaiting, ConsentGate
<1> QED BY <1>1, <1>2, <1>4

(***************************************************************************)
(* The steps of no handler.                                                *)
(***************************************************************************)

\* What these steps may do: they start or cancel a handler, end the agent, write the
\* status, or fail.
Elsewhere ==
  \/ \E p \in Prompts, text \in Texts : ReceivePrompt(p, text)
  \/ Interrupt \/ TimeIsUp \/ TimerStep \/ Close
  \/ FinalizeReads \/ FinalizeGenerates \/ FinalizeCompletes \/ FinalizeFails
  \/ RelayAction
  \/ UNCHANGED vars

\* Only a generation that can be cancelled is cancelled.
Cancels ==
  /\ prompt' \in [Prompts -> Prompt]
  /\ \A q \in Prompts : \/ prompt'[q] = prompt[q]
                        \/ /\ prompt[q].pc = "generate" /\ prompt'[q].pc = "aborted"

LEMMA AbortEffect ==
  ASSUME SessionShape, Abort
  PROVE  Cancels
<1> DEFINE new(q) == [prompt[q] EXCEPT !.pc = "aborted"]
<1>1. \A q \in Prompts : new(q) \in Prompt /\ new(q).pc = "aborted"
  BY DEF SessionShape, Prompt, PromptPcs
<1>5. prompt' = [q \in Prompts |-> IF q = agent.abort /\ At(q, "generate") THEN new(q) ELSE prompt[q]]
  BY DEF Abort
<1> HIDE DEF new
<1>2. \A q \in Prompts : \/ prompt'[q] = prompt[q]
                         \/ prompt[q].pc = "generate" /\ prompt'[q] = new(q)
  BY <1>5 DEF At
<1>3. \A q \in Prompts : prompt'[q] \in Prompt
  BY <1>1, <1>2 DEF SessionShape
<1>4. prompt' \in [Prompts -> Prompt]
  BY <1>5, <1>3
<1> QED BY <1>1, <1>2, <1>4 DEF Cancels

\* The step leaves everything to the handlers but the status, the end and the outages.
Aside ==
  /\ Cancels
  /\ row' \in [status : Statuses, consentGiven : BOOLEAN] /\ row'.consentGiven = row.consentGiven
  /\ UNCHANGED <<answered, usage, openTools, generated, started, raced>>
  /\ agent' \in Agent
  /\ agent'.consentGiven = agent.consentGiven /\ agent'.abort = agent.abort
  /\ agent.ended => agent'.ended
  /\ faults' \in 0 .. MaxFaults /\ (faults' = 0 => faults = 0)

LEMMA ElsewhereEffect ==
  ASSUME SessionShape, Elsewhere
  PROVE  Aside \/ \E p \in Prompts, text \in Texts : ReceivePrompt(p, text)
<1>1. UNCHANGED prompt => Cancels
  BY DEF Cancels, SessionShape
<1>2. CASE Interrupt
  BY <1>2, AbortEffect DEF Interrupt, Aside, SessionShape, rowVars, histVars
<1>3. CASE TimeIsUp
  <2>1. Cancels
    BY <1>1, <1>3, AbortEffect DEF TimeIsUp
  <2> QED BY <1>3, <2>1 DEF TimeIsUp, Aside, SessionShape, rowVars, histVars
<1>4. CASE SpeakWrapUp
  <2>1. agent' \in Agent /\ agent'.consentGiven = agent.consentGiven /\ agent'.abort = agent.abort
        /\ (agent.ended => agent'.ended)
    BY <1>4 DEF SpeakWrapUp, SessionShape, Agent
  <2> QED BY <1>1, <1>4, <2>1 DEF SpeakWrapUp, Aside, SessionShape, rowVars, histVars
<1>5. CASE FinishTimeUp
  BY <1>1, <1>5 DEF FinishTimeUp, Aside, SessionShape, rowVars, agentVars, histVars
<1>6. CASE TimeUpFails \/ FinalizeFails
  <2>1. faults' \in 0 .. MaxFaults /\ faults' # 0
    BY <1>6, LimitsAssumption DEF TimeUpFails, FinalizeFails, SessionShape
  <2> QED BY <1>1, <1>6, <2>1 DEF TimeUpFails, FinalizeFails, Aside, SessionShape, rowVars, agentVars
<1>7. CASE Close
  BY <1>7, AbortEffect DEF Close, Aside, SessionShape, rowVars, histVars
<1>8. CASE FinalizeReads \/ FinalizeGenerates \/ RelayAction
  BY <1>1, <1>8 DEF FinalizeReads, FinalizeGenerates, RelayAction, Aside, SessionShape,
                    rowVars, agentVars, histVars
<1>9. CASE FinalizeCompletes
  <2>1. row' \in [status : Statuses, consentGiven : BOOLEAN] /\ row'.consentGiven = row.consentGiven
    BY <1>9 DEF FinalizeCompletes, SessionShape, Statuses
  <2> QED BY <1>1, <1>9, <2>1 DEF FinalizeCompletes, Aside, SessionShape, agentVars, histVars
<1>10. CASE UNCHANGED vars
  BY <1>1, <1>10 DEF vars, Aside, SessionShape, rowVars, agentVars, histVars
<1> QED BY <1>2, <1>3, <1>4, <1>5, <1>6, <1>7, <1>8, <1>9, <1>10 DEF Elsewhere, TimerStep

LEMMA ReceiveEffect ==
  ASSUME SessionShape, NEW p \in Prompts, NEW text \in Texts, ReceivePrompt(p, text)
  PROVE  /\ SessionShape'
         /\ \A q \in Prompts \ {p} : prompt'[q] = prompt[q]
         /\ prompt[p].pc = "idle" /\ prompt'[p].pc = "heard"
         /\ ~agent.ended
         /\ UNCHANGED <<row, answered, usage, agent, openTools, generated, started, faults>>
<1> DEFINE mid == [NoneHeard EXCEPT !.pc = "heard"]
           new == [NoneHeard EXCEPT !.pc = "heard", !.text = text]
<1>1. mid \in Prompt /\ mid.pc = "heard"
  BY NoneHeardType DEF Prompt, PromptPcs
<1>2. new = [mid EXCEPT !.text = text]
  OBVIOUS
<1>3. prompt' = [prompt EXCEPT ![p] = new]
  BY DEF ReceivePrompt
<1> HIDE DEF mid, new
<1>4. new \in Prompt /\ new.pc = "heard"
  BY <1>1, <1>2 DEF Prompt
<1>5. raced' \in BOOLEAN
  BY DEF ReceivePrompt, SessionShape
<1> QED BY <1>3, <1>4, <1>5 DEF ReceivePrompt, SessionShape, rowVars, At

LEMMA NextCases ==
  ASSUME [Next]_vars
  PROVE  Elsewhere \/ \E p \in Prompts : PromptStep(p)
BY DEF Next, Elsewhere

(***************************************************************************)
(* The model never runs before the consent.                                *)
(***************************************************************************)

GateInv == SessionShape /\ ToolsWaiting /\ ConsentGate

LEMMA InitGate == Init => GateInv
<1> SUFFICES ASSUME Init PROVE GateInv
  OBVIOUS
<1>1. \A p \in Prompts : prompt[p] \in Prompt /\ prompt[p].pc = "idle"
  BY NoneHeardType DEF Init, NoneHeard
<1>2. row \in [status : Statuses, consentGiven : BOOLEAN]
  <2>1. row = [status |-> "consent_pending", consentGiven |-> FALSE]
        \/ row = [status |-> "in_progress", consentGiven |-> TRUE]
    BY DEF Init
  <2>2. CASE row = [status |-> "consent_pending", consentGiven |-> FALSE]
    BY <2>2 DEF Statuses
  <2>3. CASE row = [status |-> "in_progress", consentGiven |-> TRUE]
    BY <2>3 DEF Statuses
  <2> QED BY <2>1, <2>2, <2>3
<1>3. agent \in Agent
  <2>1. row.consentGiven \in BOOLEAN
    BY <1>2
  <2>2. agent = [consentGiven |-> row.consentGiven, ended |-> FALSE, turns |-> 0, abort |-> NoPrompt]
    BY DEF Init
  <2> QED BY <2>1, <2>2 DEF Agent
<1>4. prompt \in [Prompts -> Prompt]
  BY NoneHeardType DEF Init
<1>5. /\ answered = FALSE /\ usage = 0 /\ generated = 0 /\ started = 0 /\ raced = FALSE
      /\ faults = 0 /\ 0 \in 0 .. MaxFaults
  BY LimitsAssumption DEF Init
<1>6. SessionShape
  BY <1>2, <1>3, <1>4, <1>5 DEF SessionShape
<1> QED BY <1>1, <1>5, <1>6 DEF GateInv, ToolsWaiting, ConsentGate, BeforeGate

LEMMA AsideGate ==
  ASSUME GateInv, Aside
  PROVE  GateInv'
<1>1. SessionShape'
  BY DEF GateInv, SessionShape, Aside, Cancels
<1>2. ToolsWaiting'
  BY DEF GateInv, ToolsWaiting, Aside, Cancels
<1>3. ConsentGate'
  BY DEF GateInv, ConsentGate, BeforeGate, Aside, Cancels
<1> QED BY <1>1, <1>2, <1>3 DEF GateInv

LEMMA NextGate == GateInv /\ [Next]_vars => GateInv'
<1> SUFFICES ASSUME GateInv, [Next]_vars PROVE GateInv'
  OBVIOUS
<1>1. CASE \E p \in Prompts : PromptStep(p)
  BY <1>1, PromptStepShape, PromptStepGate DEF GateInv
<1>2. CASE \E p \in Prompts, text \in Texts : ReceivePrompt(p, text)
  <2>1. PICK p \in Prompts, text \in Texts : ReceivePrompt(p, text)
    BY <1>2
  <2> QED BY <2>1, ReceiveEffect DEF GateInv, ToolsWaiting, ConsentGate, BeforeGate
<1>3. CASE Aside
  BY <1>3, AsideGate
<1>4. CASE Elsewhere
  BY <1>2, <1>3, <1>4, ElsewhereEffect DEF GateInv
<1> QED BY <1>1, <1>4, NextCases

\* "Until the caller says yes, the LLM never runs" (agent.ts:12), for any number of
\* overlapping utterances, interruptions and outages.
THEOREM LlmOnlyAfterYes == Spec => []LlmAfterYes
<1>1. GateInv => LlmAfterYes
  BY DEF GateInv, ConsentGate, LlmAfterYes
<1> QED BY <1>1, InitGate, NextGate, PTL DEF Spec

(***************************************************************************)
(* An ended agent starts no generation.                                    *)
(***************************************************************************)

LEMMA PromptStepStarts ==
  ASSUME SessionShape, ToolsWaiting, NEW p \in Prompts, PromptStep(p), agent.ended
  PROVE  started' = started
<1>1. CASE RunLlmTurn(p)
  BY <1>1, RunLlmTurnEffect DEF TurnGoesOn
<1>2. CASE StoreReply(p)
  <2>1. prompt[p].tools \in Replies
    BY DEF SessionShape, Prompt
  <2> QED BY <1>2, <2>1, RunToolsEffect DEF StoreReply, TurnGoesOn
<1> QED BY <1>1, <1>2 DEF PromptStep, PassConsentGate, StoreDeclined, EndDeclined, RetryConsent,
        StoreConsent, StoreInProgress, GenerationReturns, CatchAbort, ReadUsage, WriteUsage,
        SaveAnswer, SpeakGoodbye, FinishPrompt, TurnFails, histVars

\* After the agent's goodbye, a refusal or the time limit, no generation begins, whatever
\* turn was in flight (the test of ended at the head of the tool loop, agent.ts:172).
THEOREM EndedAgentIsSilent == Spec => NoGenerationAfterEnd
<1>1. GateInv /\ [Next]_vars => [agent.ended => started' = started]_vars
  <2> SUFFICES ASSUME GateInv, [Next]_vars, agent.ended PROVE started' = started
    OBVIOUS
  <2>1. CASE \E p \in Prompts : PromptStep(p)
    BY <2>1, PromptStepStarts DEF GateInv
  <2>2. CASE Elsewhere
    BY <2>2, ElsewhereEffect, ReceiveEffect DEF GateInv, Aside
  <2> QED BY <2>1, <2>2, NextCases
<1> QED BY <1>1, InitGate, NextGate, PTL DEF Spec, NoGenerationAfterEnd

(***************************************************************************)
(* A caller who waits for each turn: one handler at a time.                *)
(***************************************************************************)

\* The generation of p can be cancelled.
HeldAt(p) == At(p, "generate") => agent.abort = p

\* The row records the consent that the handler of p, or the agent, relies on.
StoredAt(p) ==
  /\ prompt[p].pc \notin BeforeGate \cup {"consent"} => row.consentGiven
  /\ started > 0 \/ answered => row.consentGiven
  /\ agent.consentGiven => row.consentGiven \/ At(p, "consent")

\* The row contains the tokens of every generation but the one p is about to add.
CountedAt(p) ==
  /\ At(p, "usage") \/ At(p, "usageWrite") => usage + 1 = generated
  /\ At(p, "usageWrite") => prompt[p].read = usage
  /\ ~At(p, "usage") /\ ~At(p, "usageWrite") => usage = generated

\* The calls without a result are those p has still to deal with, unless the agent ended.
OpenAt(p) ==
  /\ prompt[p].pc \notin {"idle", "saveAnswer", "goodbye", "finish"} => openTools = 0
  /\ At(p, "saveAnswer") \/ At(p, "goodbye") => openTools = Len(prompt[p].tools)
  /\ At(p, "idle") => agent.ended \/ openTools = 0
  /\ At(p, "finish") => agent.ended

LEMMA PromptStepHeld ==
  ASSUME GateInv, NEW p \in Prompts, PromptStep(p)
  PROVE  HeldAt(p)'
<1> USE DEF GateInv, HeldAt, At
<1>1. CASE RunLlmTurn(p)
  BY <1>1, RunLlmTurnEffect DEF TurnGoesOn
<1>2. CASE PassConsentGate(p) /\ ~RunLlmTurn(p)
  <2>1. PICK pc \in {"decline", "consent", "retry"} : Goto(p, pc)
    BY <1>2 DEF PassConsentGate
  <2> QED BY <2>1, GotoType DEF PromptPcs
<1>3. CASE \E pc \in PromptPcs \ {"generate"} : Goto(p, pc)
  <2>1. PICK pc \in PromptPcs \ {"generate"} : Goto(p, pc)
    BY <1>3
  <2> QED BY <2>1, GotoType
<1>4. CASE Return(p)
  BY <1>4, ReturnType
<1>5. CASE GenerationReturns(p)
  BY <1>5, UsageGoto DEF GenerationReturns
<1>6. CASE ReadUsage(p)
  BY <1>6, ReadGoto DEF ReadUsage
<1>7. CASE StoreReply(p)
  <2>1. prompt[p].tools \in Replies
    BY DEF SessionShape, Prompt
  <2> QED BY <1>4, <1>7, <2>1, RunToolsEffect DEF StoreReply, TurnGoesOn
<1>8. CASE SaveAnswer(p)
  <2>1. Tail(prompt[p].tools) \in Replies
    BY <1>8, TailIsReply DEF SaveAnswer, SessionShape, Prompt, ToolsWaiting
  <2> QED BY <1>4, <1>8, <2>1, RunToolsEffect DEF SaveAnswer, TurnGoesOn
<1>9. {"declined", "status", "reply", "finish"} \subseteq PromptPcs \ {"generate"}
  BY DEF PromptPcs
<1> QED BY <1>1, <1>2, <1>3, <1>4, <1>5, <1>6, <1>7, <1>8, <1>9
        DEF PromptStep, StoreDeclined, EndDeclined, RetryConsent, StoreConsent, StoreInProgress,
            CatchAbort, WriteUsage, SpeakGoodbye, FinishFirst, FinishPrompt, TurnFails

LEMMA PromptStepStored ==
  ASSUME GateInv, NEW p \in Prompts, PromptStep(p), StoredAt(p), faults' = 0
  PROVE  StoredAt(p)'
<1> USE DEF GateInv, StoredAt, At, BeforeGate
<1>1. CASE PassConsentGate(p) /\ agent.consentGiven
  <2>1. RunLlmTurn(p) /\ UNCHANGED <<row, answered>> /\ prompt[p].pc = "heard"
    BY <1>1 DEF PassConsentGate, rowVars
  <2> QED BY <1>1, <2>1, RunLlmTurnEffect DEF TurnGoesOn
<1>2. CASE PassConsentGate(p) /\ ~agent.consentGiven
  <2>1. /\ Goto(p, CASE prompt[p].text = "no"  -> "decline"
                      [] prompt[p].text = "yes" -> "consent"
                      [] OTHER                  -> "retry")
        /\ agent' = [agent EXCEPT !.consentGiven = prompt[p].text = "yes"]
        /\ UNCHANGED <<started, row, answered>>
    BY <1>2 DEF PassConsentGate, rowVars
  <2>2. agent'.consentGiven = (prompt[p].text = "yes")
    BY <2>1 DEF SessionShape, Agent
  <2>3. CASE prompt[p].text = "yes"
    <3>1. Goto(p, "consent")
      BY <2>1, <2>3
    <3>2. prompt'[p].pc = "consent"
      BY <3>1, GotoType DEF PromptPcs
    <3> QED BY <2>1, <3>2
  <2>4. CASE prompt[p].text # "yes"
    <3>1. Goto(p, "decline") \/ Goto(p, "retry")
      BY <2>1, <2>4
    <3>2. prompt'[p].pc \in {"decline", "retry"}
      BY <3>1, GotoType DEF PromptPcs
    <3> QED BY <2>1, <2>2, <2>4, <3>2
  <2> QED BY <2>3, <2>4
<1>3. CASE StoreDeclined(p)
  <2>1. row'.consentGiven = row.consentGiven
    BY <1>3 DEF StoreDeclined, SessionShape
  <2> QED BY <1>3, <2>1, GotoType DEF StoreDeclined, PromptPcs, histVars
<1>4. CASE EndDeclined(p)
  <2>1. agent'.consentGiven = agent.consentGiven
    BY <1>4 DEF EndDeclined, SessionShape, Agent
  <2> QED BY <1>4, <2>1, ReturnType DEF EndDeclined, rowVars, histVars
<1>5. CASE RetryConsent(p)
  BY <1>5, ReturnType DEF RetryConsent, rowVars, histVars
<1>6. CASE StoreConsent(p)
  <2>1. row'.consentGiven = TRUE
    BY <1>6 DEF StoreConsent, SessionShape
  <2> QED BY <1>6, <2>1
<1>7. CASE StoreInProgress(p)
  <2>1. row'.consentGiven = row.consentGiven
    BY <1>7 DEF StoreInProgress, SessionShape
  <2>2. RunLlmTurn(p) /\ answered' = answered /\ prompt[p].pc = "status"
    BY <1>7 DEF StoreInProgress
  <2> QED BY <2>1, <2>2, RunLlmTurnEffect DEF TurnGoesOn
<1>8. CASE GenerationReturns(p)
  <2>1. PICK tools \in Replies : prompt' = [prompt EXCEPT ![p].pc = "usage", ![p].tools = tools]
    BY <1>8 DEF GenerationReturns
  <2>2. prompt[p].pc = "generate" /\ UNCHANGED <<row, answered, started>>
    BY <1>8 DEF GenerationReturns, rowVars
  <2> QED BY <2>2
<1>9. CASE CatchAbort(p)
  <2>1. prompt[p].pc = "aborted" /\ UNCHANGED <<row, answered, started>>
    BY <1>9 DEF CatchAbort, rowVars, histVars
  <2> QED BY <2>1
<1>10. CASE ReadUsage(p) \/ WriteUsage(p) \/ FinishPrompt(p) \/ SpeakGoodbye(p)
  <2>1. prompt[p].pc \in {"usage", "usageWrite", "finish", "goodbye", "wrapUp"}
        /\ UNCHANGED <<row, answered, started>>
    BY <1>10 DEF ReadUsage, WriteUsage, FinishPrompt, SpeakGoodbye, rowVars, histVars
  <2> QED BY <2>1
<1>11. CASE StoreReply(p) \/ SaveAnswer(p)
  <2>1. prompt[p].pc \in {"reply", "saveAnswer"} /\ UNCHANGED row
    BY <1>11 DEF StoreReply, SaveAnswer, rowVars
  <2> QED BY <2>1
<1>12. CASE TurnFails(p)
  BY <1>12, LimitsAssumption DEF TurnFails, SessionShape
<1> QED BY <1>1, <1>2, <1>3, <1>4, <1>5, <1>6, <1>7, <1>8, <1>9, <1>10, <1>11, <1>12 DEF PromptStep

LEMMA PromptStepCounted ==
  ASSUME GateInv, NEW p \in Prompts, PromptStep(p), CountedAt(p), faults' = 0
  PROVE  CountedAt(p)'
<1> USE DEF GateInv, CountedAt, At
<1>1. prompt[p].tools \in Replies /\ (At(p, "saveAnswer") => Tail(prompt[p].tools) \in Replies)
  BY TailIsReply DEF SessionShape, Prompt, ToolsWaiting
<1>2. CASE GenerationReturns(p)
  <2>1. prompt'[p].pc = "usage"
    BY <1>2, UsageGoto DEF GenerationReturns
  <2> QED BY <1>2, <2>1 DEF GenerationReturns, rowVars, SessionShape
<1>3. CASE ReadUsage(p)
  <2>1. prompt'[p].pc = "usageWrite" /\ prompt'[p].read = usage
    BY <1>3, ReadGoto DEF ReadUsage
  <2> QED BY <1>3, <2>1 DEF ReadUsage, rowVars, histVars
<1>4. CASE WriteUsage(p)
  <2>1. prompt'[p].pc = "reply"
    BY <1>4, GotoType DEF WriteUsage, PromptPcs
  <2> QED BY <1>4, <2>1 DEF WriteUsage, histVars
<1>5. CASE TurnFails(p)
  BY <1>5, LimitsAssumption DEF TurnFails, SessionShape
<1>6. ASSUME ~GenerationReturns(p), ~ReadUsage(p), ~WriteUsage(p), ~TurnFails(p)
      PROVE  /\ prompt[p].pc \notin {"usage", "usageWrite"}
             /\ prompt'[p].pc \notin {"usage", "usageWrite"}
             /\ UNCHANGED <<usage, generated>>
  <2>1. UNCHANGED <<usage, generated>> /\ prompt[p].pc \notin {"usage", "usageWrite"}
    BY <1>6 DEF PromptStep, PassConsentGate, StoreDeclined, EndDeclined, RetryConsent, StoreConsent,
           StoreInProgress, CatchAbort, StoreReply, SaveAnswer, SpeakGoodbye, FinishPrompt,
           rowVars, histVars
  <2>2. CASE RunLlmTurn(p) \/ StoreReply(p) \/ SaveAnswer(p)
    BY <1>1, <2>1, <2>2, RunLlmTurnEffect, RunToolsEffect, ReturnType DEF StoreReply, SaveAnswer, TurnGoesOn, TurnPcs
  <2>3. CASE Return(p)
    BY <2>1, <2>3, ReturnType
  <2>4. CASE \E pc \in {"decline", "consent", "retry", "declined", "status", "finish"} : Goto(p, pc)
    <3>1. PICK pc \in {"decline", "consent", "retry", "declined", "status", "finish"} : Goto(p, pc)
      BY <2>4
    <3> QED BY <2>1, <3>1, GotoType DEF PromptPcs
  <2> QED BY <1>6, <2>1, <2>2, <2>3, <2>4
          DEF PromptStep, PassConsentGate, StoreDeclined, EndDeclined, RetryConsent, StoreConsent,
              StoreInProgress, CatchAbort, SpeakGoodbye, FinishFirst, FinishPrompt
<1>7. CASE ~GenerationReturns(p) /\ ~ReadUsage(p) /\ ~WriteUsage(p) /\ ~TurnFails(p)
  BY <1>6, <1>7
<1> QED BY <1>2, <1>3, <1>4, <1>5, <1>7

LEMMA PromptStepOpen ==
  ASSUME GateInv, NEW p \in Prompts, PromptStep(p), OpenAt(p), faults' = 0
  PROVE  OpenAt(p)'
<1> USE DEF GateInv, OpenAt, At
<1>1. prompt[p].tools \in Replies /\ (At(p, "saveAnswer") =>
        /\ Tail(prompt[p].tools) \in Replies
        /\ Len(Tail(prompt[p].tools)) = Len(prompt[p].tools) - 1)
  BY TailIsReply DEF SessionShape, Prompt, ToolsWaiting
<1>2. ASSUME prompt[p].pc \notin {"idle", "saveAnswer", "goodbye", "finish"},
             prompt'[p].pc \notin {"saveAnswer", "goodbye", "finish"}, openTools' = openTools
      PROVE  OpenAt(p)'
  BY <1>2
<1>3. CASE PassConsentGate(p) /\ agent.consentGiven
  <2>1. RunLlmTurn(p) /\ openTools' = openTools /\ prompt[p].pc = "heard"
    BY <1>3 DEF PassConsentGate
  <2> QED BY <1>2, <2>1, RunLlmTurnEffect
<1>4. CASE PassConsentGate(p) /\ ~agent.consentGiven
  <2>1. PICK pc \in {"decline", "consent", "retry"} : Goto(p, pc)
    BY <1>4 DEF PassConsentGate
  <2>2. prompt'[p].pc = pc
    BY <2>1, GotoType DEF PromptPcs
  <2> QED BY <1>2, <1>4, <2>2 DEF PassConsentGate
<1>5. CASE StoreDeclined(p) \/ StoreConsent(p) \/ WriteUsage(p)
  <2>1. PICK pc \in {"declined", "status", "reply"} : Goto(p, pc)
    BY <1>5 DEF StoreDeclined, StoreConsent, WriteUsage
  <2>2. prompt'[p].pc = pc
    BY <2>1, GotoType DEF PromptPcs
  <2>3. prompt[p].pc \in {"decline", "consent", "usageWrite"} /\ openTools' = openTools
    BY <1>5 DEF StoreDeclined, StoreConsent, WriteUsage
  <2> QED BY <1>2, <2>2, <2>3
<1>6. CASE EndDeclined(p) \/ RetryConsent(p) \/ CatchAbort(p)
  <2>1. prompt[p].pc \in {"declined", "retry", "aborted"} /\ openTools' = openTools /\ Return(p)
    BY <1>6 DEF EndDeclined, RetryConsent, CatchAbort
  <2> QED BY <1>2, <2>1, ReturnType
<1>7. CASE StoreInProgress(p)
  <2>1. RunLlmTurn(p) /\ openTools' = openTools /\ prompt[p].pc = "status"
    BY <1>7 DEF StoreInProgress
  <2> QED BY <1>2, <2>1, RunLlmTurnEffect
<1>8. CASE GenerationReturns(p)
  <2>1. prompt'[p].pc = "usage"
    BY <1>8, UsageGoto DEF GenerationReturns
  <2> QED BY <1>2, <1>8, <2>1 DEF GenerationReturns
<1>9. CASE ReadUsage(p)
  <2>1. prompt'[p].pc = "usageWrite"
    BY <1>9, ReadGoto DEF ReadUsage
  <2> QED BY <1>2, <1>9, <2>1 DEF ReadUsage
<1>10. ASSUME NEW tools \in Replies, RunTools(p, tools, Len(tools))
       PROVE  OpenAt(p)'
  <2>1. agent'.ended = agent.ended
        /\ prompt'[p].pc \in {"idle", "generate", "saveAnswer", "goodbye"}
        /\ (prompt'[p].pc = "generate" => ~agent.ended)
    BY <1>10, RunToolsEffect DEF TurnGoesOn
  <2>2. prompt'[p].pc \in {"saveAnswer", "goodbye"} => openTools' = Len(prompt'[p].tools)
    BY <1>10, RunToolsEffect
  <2>3. prompt'[p].pc \in {"idle", "generate"} => agent.ended \/ openTools' = 0
    BY <1>10, RunToolsEffect
  <2> QED BY <2>1, <2>2, <2>3
<1>11. CASE StoreReply(p)
  <2>1. openTools = 0 /\ prompt[p].pc = "reply" /\ Len(prompt[p].tools) \in Nat
    BY <1>1, <1>11, RepliesAreSequences, LimitsAssumption DEF StoreReply
  <2>2. CASE prompt[p].tools = <<>>
    <3>1. Return(p) /\ openTools' = openTools
      BY <1>11, <2>2 DEF StoreReply
    <3> QED BY <1>2, <2>1, <3>1, ReturnType
  <2>3. CASE prompt[p].tools # <<>>
    <3>1. RunTools(p, prompt[p].tools, Len(prompt[p].tools))
      BY <1>11, <2>1, <2>3 DEF StoreReply
    <3> QED BY <1>1, <1>10, <3>1
  <2> QED BY <2>2, <2>3
<1>12. CASE SaveAnswer(p) /\ ~agent.ended
  <2>1. RunTools(p, Tail(prompt[p].tools), Len(Tail(prompt[p].tools)))
    BY <1>1, <1>12 DEF SaveAnswer
  <2> QED BY <1>1, <1>10, <1>12, <2>1 DEF SaveAnswer
<1>13. CASE /\ SaveAnswer(p) \/ SpeakGoodbye(p) \/ FinishPrompt(p)
            /\ agent.ended
  <2>1. Return(p) /\ agent'.ended
    BY <1>13 DEF SaveAnswer, SpeakGoodbye, FinishFirst, FinishPrompt
  <2> QED BY <2>1, ReturnType
<1>14. CASE SpeakGoodbye(p) /\ ~agent.ended
  <2>1. Goto(p, "finish") /\ agent' = [agent EXCEPT !.ended = TRUE]
    BY <1>14 DEF SpeakGoodbye, FinishFirst
  <2>2. prompt'[p].pc = "finish" /\ agent'.ended
    BY <2>1, GotoType DEF PromptPcs, SessionShape, Agent
  <2> QED BY <2>2
<1>15. CASE FinishPrompt(p) /\ ~agent.ended
  BY <1>15 DEF FinishPrompt
<1>16. CASE TurnFails(p)
  BY <1>16, LimitsAssumption DEF TurnFails, SessionShape
<1> QED BY <1>3, <1>4, <1>5, <1>6, <1>7, <1>8, <1>9, <1>11, <1>12, <1>13, <1>14, <1>15, <1>16
        DEF PromptStep

(***************************************************************************)
(* The inductive invariant of a session.                                   *)
(***************************************************************************)

\* No handler but that of p is running.
Alone(p) == \A q \in Prompts \ {p} : prompt[q].pc = "idle"

Clean(p) == StoredAt(p) /\ CountedAt(p) /\ OpenAt(p)

\* As long as no utterance arrived during a turn, one handler runs at most, and what it
\* leaves behind is whole if nothing has failed.
OneAtATime ==
  ~raced => \A p \in Prompts :
    /\ prompt[p].pc # "idle" => Alone(p)
    /\ Alone(p) => HeldAt(p) /\ (faults = 0 => Clean(p))

SessionInv == GateInv /\ OneAtATime

LEMMA InitSession == Init => SessionInv
<1> SUFFICES ASSUME Init PROVE SessionInv
  OBVIOUS
<1>1. GateInv
  BY InitGate
<1>2. /\ \A p \in Prompts : prompt[p].pc = "idle"
      /\ answered = FALSE /\ started = 0 /\ usage = 0 /\ generated = 0 /\ openTools = 0
      /\ agent.consentGiven = row.consentGiven
  BY DEF Init, NoneHeard
<1> QED BY <1>1, <1>2 DEF SessionInv, OneAtATime, Alone, HeldAt, Clean, StoredAt, CountedAt,
                          OpenAt, At, BeforeGate

LEMMA PromptStepSession ==
  ASSUME SessionInv, NEW p \in Prompts, PromptStep(p)
  PROVE  OneAtATime'
<1>1. raced' = raced /\ prompt[p].pc # "idle" /\ (faults' = 0 => faults = 0)
  BY LimitsAssumption DEF PromptStep, PassConsentGate, StoreDeclined, EndDeclined, RetryConsent,
        StoreConsent, StoreInProgress, GenerationReturns, CatchAbort, ReadUsage, WriteUsage,
        StoreReply, SaveAnswer, SpeakGoodbye, FinishPrompt, TurnFails, At, histVars,
        SessionInv, GateInv, SessionShape
<1> SUFFICES ASSUME ~raced PROVE OneAtATime'
  BY <1>1 DEF OneAtATime
<1>2. GateInv /\ Alone(p) /\ HeldAt(p) /\ (faults = 0 => Clean(p))
  BY <1>1 DEF SessionInv, OneAtATime
<1>3. \A q \in Prompts \ {p} : prompt'[q].pc = "idle"
  BY <1>2, PromptStepShape DEF Alone, GateInv
<1>4. HeldAt(p)' /\ (faults' = 0 => Clean(p)')
  BY <1>1, <1>2, PromptStepHeld, PromptStepStored, PromptStepCounted, PromptStepOpen DEF Clean
<1>5. ASSUME NEW q \in Prompts, Alone(q)', q # p
      PROVE  HeldAt(q)' /\ (faults' = 0 => Clean(q)')
  <2>1. prompt'[p].pc = "idle" /\ prompt'[q].pc = "idle"
    BY <1>3, <1>5 DEF Alone
  <2> QED BY <1>4, <2>1 DEF HeldAt, Clean, StoredAt, CountedAt, OpenAt, At, BeforeGate
<1> QED BY <1>3, <1>4, <1>5 DEF OneAtATime, Alone

LEMMA ReceiveSession ==
  ASSUME SessionInv, NEW p \in Prompts, NEW text \in Texts, ReceivePrompt(p, text)
  PROVE  OneAtATime'
<1> SUFFICES ASSUME ~raced' PROVE OneAtATime'
  BY DEF OneAtATime
<1>1. ~raced /\ (\A q \in Prompts : prompt[q].pc = "idle")
  BY DEF ReceivePrompt, At
<1>2. /\ \A q \in Prompts \ {p} : prompt'[q] = prompt[q]
      /\ prompt'[p].pc = "heard" /\ ~agent.ended
      /\ UNCHANGED <<row, answered, usage, agent, openTools, generated, started, faults>>
  BY ReceiveEffect DEF SessionInv, GateInv
<1>3. Alone(p) /\ Alone(p)'
  BY <1>1, <1>2 DEF Alone
<1>4. HeldAt(p) /\ (faults = 0 => Clean(p))
  BY <1>1, <1>3 DEF SessionInv, OneAtATime
<1>5. HeldAt(p)' /\ (faults' = 0 => Clean(p)')
  BY <1>1, <1>2, <1>4 DEF HeldAt, Clean, StoredAt, CountedAt, OpenAt, At, BeforeGate
<1>6. \A q \in Prompts \ {p} : ~Alone(q)' /\ prompt'[q].pc = "idle"
  BY <1>1, <1>2 DEF Alone
<1> QED BY <1>3, <1>5, <1>6 DEF OneAtATime

LEMMA AsideSession ==
  ASSUME SessionInv, Aside
  PROVE  OneAtATime'
<1> SUFFICES ASSUME ~raced, NEW p \in Prompts
             PROVE  /\ prompt'[p].pc # "idle" => Alone(p)'
                    /\ Alone(p)' => HeldAt(p)' /\ (faults' = 0 => Clean(p)')
  BY DEF OneAtATime, Aside
<1>1. \A q \in Prompts : \/ prompt'[q] = prompt[q]
                         \/ (prompt[q].pc = "generate" /\ prompt'[q].pc = "aborted")
  <2>1. Cancels
    BY DEF Aside
  <2> QED BY <2>1 DEF Cancels
<1>2. Alone(p)' <=> Alone(p)
  BY <1>1 DEF Alone
<1>3. prompt[p].pc # "idle" => Alone(p)
  BY DEF SessionInv, OneAtATime
<1>4. ASSUME Alone(p) PROVE HeldAt(p)' /\ (faults' = 0 => Clean(p)')
  <2>1. HeldAt(p) /\ (faults = 0 => Clean(p))
    BY <1>4 DEF SessionInv, OneAtATime
  <2>2. HeldAt(p)'
    BY <1>1, <2>1 DEF HeldAt, At, Aside
  <2>3. ASSUME faults' = 0 PROVE StoredAt(p)'
    BY <1>1, <2>1, <2>3 DEF Aside, Clean, StoredAt, At, BeforeGate
  <2>4. ASSUME faults' = 0 PROVE CountedAt(p)'
    BY <1>1, <2>1, <2>4 DEF Aside, Clean, CountedAt, At
  <2>5. ASSUME faults' = 0 PROVE OpenAt(p)'
    BY <1>1, <2>1, <2>5 DEF Aside, Clean, OpenAt, At
  <2> QED BY <2>2, <2>3, <2>4, <2>5 DEF Clean
<1> QED BY <1>1, <1>2, <1>3, <1>4

LEMMA NextSession == SessionInv /\ [Next]_vars => SessionInv'
<1> SUFFICES ASSUME SessionInv, [Next]_vars PROVE OneAtATime'
  BY NextGate DEF SessionInv
<1>1. CASE \E p \in Prompts : PromptStep(p)
  BY <1>1, PromptStepSession
<1>2. CASE \E p \in Prompts, text \in Texts : ReceivePrompt(p, text)
  BY <1>2, ReceiveSession
<1>3. CASE Elsewhere
  BY <1>2, <1>3, ElsewhereEffect, AsideSession DEF SessionInv, GateInv
<1> QED BY <1>1, <1>3, NextCases

LEMMA SessionCorrect == Spec => []SessionInv
BY InitSession, NextSession, PTL DEF Spec

\* As long as no utterance arrives during a turn, the generation that runs is the one the
\* agent can cancel (agent.ts:173 and 189 set and drop its controller).
THEOREM Interruptible == Spec => []InterruptibleUnlessRaced
<1>1. SessionInv => InterruptibleUnlessRaced
  BY DEF SessionInv, OneAtATime, InterruptibleUnlessRaced, HeldAt, At
<1> QED BY <1>1, SessionCorrect, PTL

\* As long as no utterance arrives during a turn and nothing fails, the row records the
\* consent before the model hears the caller (agent.ts:132-138).
THEOREM ConsentIsStored == Spec => []ConsentStoredUnlessRaced
<1>1. ASSUME SessionInv, ~raced, faults = 0, started > 0 \/ answered PROVE row.consentGiven
  <2>1. PICK p \in Prompts : Alone(p)
    BY <1>1, PromptsAssumption DEF SessionInv, OneAtATime, Alone
  <2> QED BY <1>1, <2>1 DEF SessionInv, OneAtATime, Clean, StoredAt
<1>2. SessionInv => ConsentStoredUnlessRaced
  BY <1>1 DEF ConsentStoredUnlessRaced
<1> QED BY <1>2, SessionCorrect, PTL

\* As long as no utterance arrives during a turn and nothing fails, the model never gets a
\* history in which a tool call has no result (agent.ts:200-208).
THEOREM HistoryIsAnswered == Spec => []HistoryAnsweredUnlessRaced
<1>1. SessionInv => HistoryAnsweredUnlessRaced
  BY DEF SessionInv, OneAtATime, HistoryAnsweredUnlessRaced, Clean, OpenAt, At
<1> QED BY <1>1, SessionCorrect, PTL

\* As long as no utterance arrives during a turn and nothing fails, the row has the tokens
\* of every generation that returned (addUsage, prisma-store.ts:45-59).
THEOREM UsageIsCounted == Spec => []UsageCountedUnlessRaced
<1> DEFINE Adding == {p \in Prompts : prompt[p].pc \in {"usage", "usageWrite"}}
<1>1. ASSUME SessionInv, ~raced, faults = 0 PROVE usage + Cardinality(Adding) = generated
  <2>1. usage \in Nat
    BY <1>1 DEF SessionInv, GateInv, SessionShape
  <2>2. PICK p \in Prompts : Alone(p) /\ (Adding # {} => p \in Adding)
    <3>1. CASE Adding = {}
      BY <1>1, <3>1, PromptsAssumption DEF SessionInv, OneAtATime, Alone
    <3>2. CASE Adding # {}
      BY <1>1, <3>2 DEF SessionInv, OneAtATime
    <3> QED BY <3>1, <3>2
  <2>3. CountedAt(p)
    BY <1>1, <2>2 DEF SessionInv, OneAtATime, Clean
  <2>4. CASE p \in Adding
    <3>1. Adding = {p}
      BY <2>2, <2>4 DEF Alone
    <3>2. Cardinality(Adding) = 1
      BY <3>1, FS_Singleton
    <3> QED BY <2>3, <2>4, <3>2 DEF CountedAt, At
  <2>5. CASE p \notin Adding
    <3>1. Cardinality(Adding) = 0
      BY <2>2, <2>5, FS_EmptySet
    <3> QED BY <2>1, <2>3, <2>5, <3>1 DEF CountedAt, At
  <2> QED BY <2>4, <2>5
<1>2. SessionInv => UsageCountedUnlessRaced
  BY <1>1 DEF UsageCountedUnlessRaced
<1> QED BY <1>2, SessionCorrect, PTL

---------------------------------------------------------------------------
(***************************************************************************)
(* The limits of a call, whatever overlaps.  A turn of the model that has  *)
(* begun may still start the generations up to MaxHops; a generation that  *)
(* runs, and a reply whose tokens are not written yet, are counted once;   *)
(* and every tool call a handler holds waits for its result.  What all     *)
(* handlers together may still do is a sum over them, taken as the         *)
(* number of pairs <<p, i>> with i up to the share of p.                   *)
(***************************************************************************)

Pairs(share) == {s \in Prompts \X Nat : 1 <= s[2] /\ s[2] <= share[s[1]]}
Total(share) == Cardinality(Pairs(share))

LEMMA IntervalOf ==
  ASSUME NEW p, NEW n \in Nat
  PROVE  /\ IsFiniteSet({p} \X (1 .. n))
         /\ Cardinality({p} \X (1 .. n)) = n
<1>1. IsFiniteSet(1 .. n) /\ Cardinality(1 .. n) = n
  BY FS_Interval
<1>2. IsFiniteSet({p}) /\ Cardinality({p}) = 1
  BY FS_Singleton
<1>3. IsFiniteSet({p} \X (1 .. n)) /\ Cardinality({p} \X (1 .. n)) = 1 * n
  BY <1>1, <1>2, FS_Product
<1> QED BY <1>3

\* A share changes: the total changes by as much.
LEMMA ShareChanges ==
  ASSUME NEW f \in [Prompts -> Nat], NEW g \in [Prompts -> Nat], IsFiniteSet(Pairs(f)),
         NEW p \in Prompts, \A q \in Prompts \ {p} : g[q] = f[q]
  PROVE  /\ IsFiniteSet(Pairs(g)) /\ Total(g) = Total(f) - f[p] + g[p]
         /\ Total(f) \in Nat /\ Total(g) \in Nat /\ f[p] <= Total(f)
<1> DEFINE F == {p} \X (1 .. f[p])
           G == {p} \X (1 .. g[p])
           R == Pairs(f) \ F
<1>1. f[p] \in Nat /\ g[p] \in Nat
  OBVIOUS
<1>2. /\ IsFiniteSet(F) /\ Cardinality(F) = f[p]
      /\ IsFiniteSet(G) /\ Cardinality(G) = g[p]
  BY <1>1, IntervalOf
<1>3. F \subseteq Pairs(f)
  BY <1>1 DEF Pairs
<1>4. Pairs(g) = R \cup G /\ R \cap G = {}
  <2>1. ASSUME NEW s \in Pairs(g) PROVE s \in R \cup G
    <3>1. s \in Prompts \X Nat /\ 1 <= s[2] /\ s[2] <= g[s[1]] /\ s = <<s[1], s[2]>>
      BY <2>1 DEF Pairs
    <3>2. CASE s[1] = p
      BY <1>1, <3>1, <3>2
    <3>3. CASE s[1] # p
      <4>1. s \in Pairs(f)
        BY <3>1, <3>3 DEF Pairs
      <4>2. s \notin F
        BY <3>1, <3>3
      <4> QED BY <4>1, <4>2
    <3> QED BY <3>2, <3>3
  <2>2. ASSUME NEW s \in G PROVE s \in Pairs(g)
    BY <1>1, <2>2 DEF Pairs
  <2>3. ASSUME NEW s \in R PROVE s \in Pairs(g) /\ s \notin G
    <3>1. s \in Prompts \X Nat /\ 1 <= s[2] /\ s[2] <= f[s[1]] /\ s = <<s[1], s[2]>> /\ s \notin F
      BY <2>3 DEF Pairs
    <3>2. s[1] # p
      BY <1>1, <3>1
    <3> QED BY <3>1, <3>2 DEF Pairs
  <2> HIDE DEF G, R
  <2> QED BY <2>1, <2>2, <2>3
<1> HIDE DEF F, G
<1>5. IsFiniteSet(R) /\ Cardinality(R) = Cardinality(Pairs(f)) - f[p] /\ f[p] <= Cardinality(Pairs(f))
  <2>1. IsFiniteSet(R) /\ Cardinality(R) = Cardinality(Pairs(f)) - Cardinality(Pairs(f) \cap F)
    BY <1>2, FS_Difference
  <2>2. Pairs(f) \cap F = F
    BY <1>3
  <2>3. Cardinality(F) <= Cardinality(Pairs(f))
    BY <1>3, FS_Subset
  <2> QED BY <1>2, <2>1, <2>2, <2>3
<1> HIDE DEF R
<1>6. IsFiniteSet(R \cup G) /\ Cardinality(R \cup G) = Cardinality(R) + Cardinality(G) - Cardinality(R \cap G)
  BY <1>2, <1>5, FS_Union
<1>7. Cardinality(R \cap G) = 0
  BY <1>4, FS_EmptySet
<1>8. Cardinality(Pairs(f)) \in Nat /\ Cardinality(R \cup G) \in Nat
  BY <1>6, FS_CardinalityType
<1> QED BY <1>1, <1>2, <1>4, <1>5, <1>6, <1>7, <1>8 DEF Total

\* No share grows: neither does the total.
LEMMA SharesShrink ==
  ASSUME NEW f \in [Prompts -> Nat], NEW g \in [Prompts -> Nat], IsFiniteSet(Pairs(f)),
         \A q \in Prompts : g[q] <= f[q]
  PROVE  IsFiniteSet(Pairs(g)) /\ Total(g) <= Total(f) /\ Total(f) \in Nat /\ Total(g) \in Nat
<1>1. Pairs(g) \subseteq Pairs(f)
  BY DEF Pairs
<1> QED BY <1>1, FS_Subset, FS_CardinalityType DEF Total

\* The generations a handler's turn may still start, its generation that runs, its
\* tokens that are not counted, and its tool calls without a result.
AheadOf(h) == [p \in Prompts |->
  IF h[p].pc \in {"generate", "usage", "usageWrite", "reply", "saveAnswer"}
    THEN MaxHops - 1 - h[p].hop ELSE 0]
RunningOf(h) == [p \in Prompts |-> IF h[p].pc = "generate" THEN 1 ELSE 0]
CountingOf(h) == [p \in Prompts |-> IF h[p].pc \in {"usage", "usageWrite"} THEN 1 ELSE 0]
HoldingOf(h) == [p \in Prompts |->
  IF h[p].pc \in {"saveAnswer", "goodbye"} THEN Len(h[p].tools) ELSE 0]

Ahead == AheadOf(prompt)
Running == RunningOf(prompt)
Counting == CountingOf(prompt)
Holding == HoldingOf(prompt)

\* The generations the turns begun so far allow.
Allowed(turns) == (IF turns <= MaxTurns THEN turns ELSE MaxTurns) * MaxHops

InLoop(h) ==
  \A p \in Prompts : h[p].pc \in {"generate", "usage", "usageWrite", "reply", "saveAnswer"} =>
    h[p].hop < MaxHops

InsideLoop == InLoop(prompt)

LimitInv ==
  /\ InsideLoop
  /\ IsFiniteSet(Pairs(Ahead)) /\ IsFiniteSet(Pairs(Running))
  /\ IsFiniteSet(Pairs(Counting)) /\ IsFiniteSet(Pairs(Holding))
  /\ started + Total(Ahead) <= Allowed(agent.turns)
  /\ generated + Total(Running) <= started
  /\ usage + Total(Counting) <= generated
  /\ \A p \in Prompts : prompt[p].pc = "usageWrite" => prompt[p].read + Total(Counting) <= generated
  /\ openTools \in Nat /\ Total(Holding) <= openTools

LEMMA ShareTypes ==
  ASSUME NEW h \in [Prompts -> Prompt], InLoop(h)
  PROVE  /\ AheadOf(h) \in [Prompts -> Nat] /\ RunningOf(h) \in [Prompts -> Nat]
         /\ CountingOf(h) \in [Prompts -> Nat] /\ HoldingOf(h) \in [Prompts -> Nat]
<1>1. ASSUME NEW p \in Prompts
      PROVE  /\ h[p].hop \in Nat /\ Len(h[p].tools) \in Nat
  <2>1. h[p].hop \in Nat /\ h[p].tools \in Replies
    BY LimitsAssumption DEF Prompt
  <2> QED BY <2>1, RepliesAreSequences, LimitsAssumption
<1>2. AheadOf(h) \in [Prompts -> Nat]
  BY <1>1, LimitsAssumption DEF AheadOf, InLoop
<1>3. HoldingOf(h) \in [Prompts -> Nat]
  BY <1>1 DEF HoldingOf
<1> QED BY <1>2, <1>3 DEF RunningOf, CountingOf

LEMMA SharesType ==
  ASSUME SessionShape, InsideLoop
  PROVE  /\ Ahead \in [Prompts -> Nat] /\ Running \in [Prompts -> Nat]
         /\ Counting \in [Prompts -> Nat] /\ Holding \in [Prompts -> Nat]
BY ShareTypes DEF SessionShape, InsideLoop, Ahead, Running, Counting, Holding

LEMMA SharesTypeAfter ==
  ASSUME SessionShape', InsideLoop'
  PROVE  /\ Ahead' \in [Prompts -> Nat] /\ Running' \in [Prompts -> Nat]
         /\ Counting' \in [Prompts -> Nat] /\ Holding' \in [Prompts -> Nat]
<1>1. prompt' \in [Prompts -> Prompt] /\ InLoop(prompt')
  BY DEF SessionShape, InsideLoop, InLoop
<1>2. /\ AheadOf(prompt') \in [Prompts -> Nat] /\ RunningOf(prompt') \in [Prompts -> Nat]
      /\ CountingOf(prompt') \in [Prompts -> Nat] /\ HoldingOf(prompt') \in [Prompts -> Nat]
  BY <1>1, ShareTypes
<1> QED BY <1>2 DEF Ahead, Running, Counting, Holding, AheadOf, RunningOf, CountingOf, HoldingOf

LEMMA AllowedGrows ==
  ASSUME NEW turns \in Nat
  PROVE  /\ Allowed(turns) \in Nat /\ Allowed(turns) <= MaxTurns * MaxHops
         /\ Allowed(turns) <= Allowed(turns + 1)
         /\ turns + 1 <= MaxTurns => Allowed(turns + 1) = Allowed(turns) + MaxHops
<1> DEFINE n == IF turns <= MaxTurns THEN turns ELSE MaxTurns
<1>1. \A a, b, c \in Nat : a <= b => a * c <= b * c /\ a * c \in Nat /\ (a + 1) * c = a * c + c
  OBVIOUS
<1>2. n \in Nat /\ n <= MaxTurns
  BY LimitsAssumption
<1> QED BY <1>1, <1>2, LimitsAssumption DEF Allowed

(***************************************************************************)
(* What a step of a handler does to the numbers.                           *)
(***************************************************************************)

\* The step starts no generation and keeps the turns of the agent.
NothingStarts == started' = started /\ agent'.turns = agent.turns

LEMMA NextHopCounts ==
  ASSUME SessionShape, NEW p \in Prompts, NEW hop \in Nat, NEW turns \in Nat, NextHop(p, hop, turns)
  PROVE  /\ agent'.turns = turns
         /\ \/ /\ hop < MaxHops /\ started' = started + 1
               /\ prompt'[p].pc = "generate" /\ prompt'[p].hop = hop
            \/ prompt'[p].pc = "idle" /\ started' = started
<1>1. agent'.turns = turns
  BY DEF NextHop, SessionShape, Agent
<1>2. CASE hop < MaxHops /\ ~agent.ended
  <2>1. prompt' = [prompt EXCEPT ![p] = [NoneHeard EXCEPT !.pc = "generate", !.hop = hop]]
    BY <1>2 DEF NextHop
  <2> DEFINE r == [NoneHeard EXCEPT !.pc = "generate", !.hop = hop]
  <2>2. r.pc = "generate" /\ r.hop = hop
    BY DEF NoneHeard
  <2> HIDE DEF r
  <2>3. prompt'[p] = r
    BY <2>1 DEF SessionShape, r
  <2> QED BY <1>1, <1>2, <2>2, <2>3 DEF NextHop
<1>3. CASE ~(hop < MaxHops /\ ~agent.ended)
  BY <1>1, <1>3, ReturnType DEF NextHop
<1> QED BY <1>2, <1>3

\* A turn of the model begins: it may start MaxHops generations.
LEMMA RunLlmTurnCounts ==
  ASSUME SessionShape, NEW p \in Prompts, RunLlmTurn(p)
  PROVE  \/ prompt'[p].pc \in {"idle", "wrapUp"} /\ started' = started
            /\ agent'.turns = agent.turns + 1
         \/ /\ agent.turns + 1 <= MaxTurns /\ agent'.turns = agent.turns + 1
            /\ 0 < MaxHops /\ started' = started + 1
            /\ prompt'[p].pc = "generate" /\ prompt'[p].hop = 0
<1>1. agent.turns \in Nat /\ agent \in Agent
  BY DEF SessionShape, Agent
<1>2. CASE agent.turns + 1 > MaxTurns
  <2>1. Goto(p, "wrapUp") /\ agent' = [agent EXCEPT !.turns = @ + 1] /\ started' = started
    BY <1>2 DEF RunLlmTurn
  <2>2. agent'.turns = agent.turns + 1
    BY <1>1, <2>1 DEF Agent
  <2> QED BY <2>1, <2>2, GotoType DEF PromptPcs
<1>3. CASE ~(agent.turns + 1 > MaxTurns)
  <2>1. NextHop(p, 0, agent.turns + 1)
    BY <1>3 DEF RunLlmTurn
  <2> QED BY <1>1, <1>3, <2>1, NextHopCounts, LimitsAssumption
<1> QED BY <1>2, <1>3

\* The loop over the tool calls gives each a result, or ends with the agent.
LEMMA RunToolsCounts ==
  ASSUME SessionShape, NEW p \in Prompts, NEW tools \in Replies, NEW open \in Int,
         RunTools(p, tools, open)
  PROVE  /\ agent'.turns = agent.turns
         /\ \/ prompt'[p].pc = "idle" /\ started' = started
            \/ /\ prompt[p].hop + 1 < MaxHops /\ started' = started + 1
               /\ prompt'[p].pc = "generate" /\ prompt'[p].hop = prompt[p].hop + 1
            \/ /\ prompt'[p].pc \in {"saveAnswer", "goodbye"} /\ prompt'[p].hop = prompt[p].hop
               /\ started' = started
         /\ openTools' \in Int
         /\ prompt'[p].pc \in {"saveAnswer", "goodbye"} => openTools' = open - Len(tools) + Len(prompt'[p].tools)
         /\ prompt'[p].pc \in {"idle", "generate"} => openTools' >= open - Len(tools)
<1> DEFINE r == Rejected(tools)
           rest == SubSeq(tools, r + 1, Len(tools))
<1>1. /\ r \in 0 .. Len(tools) /\ Len(tools) \in Nat
      /\ rest \in Replies /\ Len(rest) = Len(tools) - r
  <2>1. r \in 0 .. Len(tools)
    BY RejectedExists
  <2>2. Len(tools) \in Nat
    BY RepliesAreSequences, LimitsAssumption
  <2>3. rest \in Replies /\ Len(rest) = Len(tools) - r
    BY RestIsReply
  <2> QED BY <2>1, <2>2, <2>3
<1>2. IF r > 0 /\ agent.ended
        THEN Return(p) /\ openTools' = open - 1 /\ UNCHANGED <<agent, started>>
        ELSE /\ openTools' = open - r
             /\ IF rest = <<>>
                  THEN NextHop(p, prompt[p].hop + 1, agent.turns)
                  ELSE /\ prompt' = [prompt EXCEPT ![p].tools = rest,
                             ![p].pc = IF Head(rest) = "save" THEN "saveAnswer" ELSE "goodbye"]
                       /\ UNCHANGED <<agent, started>>
  BY DEF RunTools, Rejected
<1>3. prompt[p].hop + 1 \in Nat /\ agent.turns \in Nat
  BY LimitsAssumption DEF SessionShape, Prompt, Agent
<1> HIDE DEF r, rest
<1>4. CASE r > 0 /\ agent.ended
  <2>1. Return(p) /\ openTools' = open - 1 /\ UNCHANGED <<agent, started>>
    BY <1>2, <1>4
  <2> QED BY <1>1, <1>4, <2>1, ReturnType
<1>5. CASE ~(r > 0 /\ agent.ended) /\ rest = <<>>
  <2>1. openTools' = open - r /\ NextHop(p, prompt[p].hop + 1, agent.turns) /\ r = Len(tools)
    BY <1>1, <1>2, <1>5
  <2> QED BY <1>1, <1>3, <2>1, NextHopCounts
<1>6. CASE ~(r > 0 /\ agent.ended) /\ rest # <<>>
  <2> DEFINE pc == IF Head(rest) = "save" THEN "saveAnswer" ELSE "goodbye"
  <2>1. pc \in {"saveAnswer", "goodbye"}
    OBVIOUS
  <2>2. prompt' = [prompt EXCEPT ![p].tools = rest, ![p].pc = pc]
    BY <1>2, <1>6
  <2>3. openTools' = open - r /\ UNCHANGED <<agent, started>>
    BY <1>2, <1>6
  <2> HIDE DEF pc
  <2> DEFINE m == [prompt[p] EXCEPT !.tools = rest, !.pc = pc]
  <2>4. m.pc = pc /\ m.tools = rest /\ m.hop = prompt[p].hop
    BY DEF SessionShape, Prompt
  <2>5. prompt'[p] = m
    BY <2>2 DEF SessionShape
  <2> HIDE DEF m
  <2> QED BY <1>1, <2>1, <2>3, <2>4, <2>5
<1> QED BY <1>4, <1>5, <1>6

LoopPcs == {"generate", "usage", "usageWrite", "reply", "saveAnswer"}

LEMMA LimitKept ==
  ASSUME SessionShape, SessionShape', LimitInv, NEW p \in Prompts,
         \A q \in Prompts \ {p} : prompt'[q] = prompt[q],
         prompt'[p].pc \in LoopPcs => prompt'[p].hop < MaxHops,
         started' + Ahead'[p] <= started + Ahead[p] + Allowed(agent'.turns) - Allowed(agent.turns),
         generated' + Running'[p] <= generated + Running[p] + started' - started,
         Counting'[p] <= Counting[p] + generated' - generated,
         \/ usage' = usage
         \/ prompt[p].pc = "usageWrite" /\ usage' = prompt[p].read + 1 /\ generated' = generated /\ Counting'[p] = 0,
         prompt'[p].pc = "usageWrite" => prompt'[p].read = usage /\ usage' = usage,
         openTools' \in Int, openTools' - openTools >= Holding'[p] - Holding[p]
  PROVE  LimitInv'
<1>1. InsideLoop'
  BY DEF LimitInv, InsideLoop, InLoop, LoopPcs
<1>2. /\ Ahead \in [Prompts -> Nat] /\ Running \in [Prompts -> Nat]
      /\ Counting \in [Prompts -> Nat] /\ Holding \in [Prompts -> Nat]
  BY SharesType DEF LimitInv
<1>3. /\ Ahead' \in [Prompts -> Nat] /\ Running' \in [Prompts -> Nat]
      /\ Counting' \in [Prompts -> Nat] /\ Holding' \in [Prompts -> Nat]
  BY <1>1, SharesTypeAfter
<1>4. \A q \in Prompts \ {p} : /\ Ahead'[q] = Ahead[q] /\ Running'[q] = Running[q]
                               /\ Counting'[q] = Counting[q] /\ Holding'[q] = Holding[q]
  BY DEF Ahead, Running, Counting, Holding, AheadOf, RunningOf, CountingOf, HoldingOf
<1>5. \A share \in [Prompts -> Nat] : Pairs(share)' = Pairs(share) /\ Total(share)' = Total(share)
  BY DEF Pairs, Total
<1>6. /\ IsFiniteSet(Pairs(Ahead)) /\ IsFiniteSet(Pairs(Running))
      /\ IsFiniteSet(Pairs(Counting)) /\ IsFiniteSet(Pairs(Holding))
  BY DEF LimitInv
<1>7. /\ IsFiniteSet(Pairs(Ahead')) /\ Total(Ahead') = Total(Ahead) - Ahead[p] + Ahead'[p]
      /\ Total(Ahead) \in Nat /\ Total(Ahead') \in Nat /\ Ahead[p] <= Total(Ahead)
  <2>1. /\ Ahead \in [Prompts -> Nat] /\ Ahead' \in [Prompts -> Nat] /\ IsFiniteSet(Pairs(Ahead))
        /\ \A q \in Prompts \ {p} : Ahead'[q] = Ahead[q]
    BY <1>2, <1>3, <1>4, <1>6
  <2> QED BY <2>1, ShareChanges
<1>8. /\ IsFiniteSet(Pairs(Running')) /\ Total(Running') = Total(Running) - Running[p] + Running'[p]
      /\ Total(Running) \in Nat /\ Total(Running') \in Nat /\ Running[p] <= Total(Running)
  <2>1. /\ Running \in [Prompts -> Nat] /\ Running' \in [Prompts -> Nat] /\ IsFiniteSet(Pairs(Running))
        /\ \A q \in Prompts \ {p} : Running'[q] = Running[q]
    BY <1>2, <1>3, <1>4, <1>6
  <2> QED BY <2>1, ShareChanges
<1>9. /\ IsFiniteSet(Pairs(Counting')) /\ Total(Counting') = Total(Counting) - Counting[p] + Counting'[p]
      /\ Total(Counting) \in Nat /\ Total(Counting') \in Nat /\ Counting[p] <= Total(Counting)
  <2>1. /\ Counting \in [Prompts -> Nat] /\ Counting' \in [Prompts -> Nat] /\ IsFiniteSet(Pairs(Counting))
        /\ \A q \in Prompts \ {p} : Counting'[q] = Counting[q]
    BY <1>2, <1>3, <1>4, <1>6
  <2> QED BY <2>1, ShareChanges
<1>10. /\ IsFiniteSet(Pairs(Holding')) /\ Total(Holding') = Total(Holding) - Holding[p] + Holding'[p]
      /\ Total(Holding) \in Nat /\ Total(Holding') \in Nat /\ Holding[p] <= Total(Holding)
  <2>1. /\ Holding \in [Prompts -> Nat] /\ Holding' \in [Prompts -> Nat] /\ IsFiniteSet(Pairs(Holding))
        /\ \A q \in Prompts \ {p} : Holding'[q] = Holding[q]
    BY <1>2, <1>3, <1>4, <1>6
  <2> QED BY <2>1, ShareChanges
<1>11. /\ started \in Nat /\ started' \in Nat /\ generated \in Nat /\ generated' \in Nat
       /\ usage \in Nat /\ usage' \in Nat /\ openTools \in Nat
       /\ Allowed(agent.turns) \in Nat /\ Allowed(agent'.turns) \in Nat
       /\ Ahead[p] \in Nat /\ Ahead'[p] \in Nat /\ Running[p] \in Nat /\ Running'[p] \in Nat
       /\ Counting[p] \in Nat /\ Counting'[p] \in Nat /\ Holding[p] \in Nat /\ Holding'[p] \in Nat
  BY <1>2, <1>3, AllowedGrows DEF SessionShape, Agent, LimitInv
<1>12. started' + Total(Ahead') <= Allowed(agent'.turns)
  BY <1>7, <1>11 DEF LimitInv
<1>13. generated' + Total(Running') <= started'
  BY <1>8, <1>11 DEF LimitInv
<1>14. \A q \in Prompts : prompt[q].pc = "usageWrite" => prompt[q].read + Total(Counting) <= generated /\ prompt[q].read \in Nat
  BY DEF LimitInv, SessionShape, Prompt
<1>15. usage' + Total(Counting') <= generated'
  <2>1. CASE usage' = usage
    BY <1>9, <1>11, <2>1 DEF LimitInv
  <2>2. CASE prompt[p].pc = "usageWrite" /\ usage' = prompt[p].read + 1 /\ generated' = generated /\ Counting'[p] = 0
    <3>1. Counting[p] = 1
      BY <2>2 DEF Counting, CountingOf
    <3> QED BY <1>9, <1>11, <1>14, <2>2, <3>1
  <2> QED BY <2>1, <2>2
<1>16. ASSUME NEW q \in Prompts, prompt'[q].pc = "usageWrite"
       PROVE  prompt'[q].read + Total(Counting') <= generated'
  <2>1. CASE q = p
    BY <1>15, <1>16, <2>1
  <2>2. CASE q # p
    <3>1. prompt[q].pc = "usageWrite" /\ prompt'[q].read = prompt[q].read
      BY <1>16, <2>2
    <3> QED BY <1>9, <1>11, <1>14, <3>1
  <2> QED BY <2>1, <2>2
<1>17. openTools' \in Nat /\ Total(Holding') <= openTools'
  BY <1>10, <1>11 DEF LimitInv
<1>18. /\ Pairs(Ahead)' = Pairs(Ahead') /\ Total(Ahead)' = Total(Ahead')
       /\ Pairs(Running)' = Pairs(Running') /\ Total(Running)' = Total(Running')
       /\ Pairs(Counting)' = Pairs(Counting') /\ Total(Counting)' = Total(Counting')
       /\ Pairs(Holding)' = Pairs(Holding') /\ Total(Holding)' = Total(Holding')
       /\ Allowed(agent.turns)' = Allowed(agent'.turns)
  BY DEF Pairs, Total, Allowed
<1> QED BY <1>1, <1>7, <1>8, <1>9, <1>10, <1>12, <1>13, <1>15, <1>16, <1>17, <1>18 DEF LimitInv

\* A step outside of the loop, or one that leaves it.
LEMMA LeavesLoop ==
  ASSUME SessionShape, SessionShape', LimitInv, NEW p \in Prompts,
         \A q \in Prompts \ {p} : prompt'[q] = prompt[q],
         prompt'[p].pc \notin LoopPcs \cup {"goodbye"}, prompt[p].pc # "usageWrite" \/ usage' = usage,
         UNCHANGED <<started, generated, usage>>, openTools' \in Int, openTools' >= openTools - Holding[p],
         agent'.turns \in {agent.turns, agent.turns + 1}
  PROVE  LimitInv'
<1>1. /\ Ahead'[p] = 0 /\ Running'[p] = 0 /\ Counting'[p] = 0 /\ Holding'[p] = 0
  BY DEF Ahead, Running, Counting, Holding, AheadOf, RunningOf, CountingOf, HoldingOf, LoopPcs
<1>2. /\ Ahead[p] \in Nat /\ Running[p] \in Nat /\ Counting[p] \in Nat /\ Holding[p] \in Nat
  BY SharesType DEF LimitInv
<1>3. Allowed(agent.turns) \in Nat /\ Allowed(agent'.turns) \in Nat /\ Allowed(agent'.turns) >= Allowed(agent.turns)
  BY AllowedGrows DEF SessionShape, Agent
<1>4. started \in Nat /\ generated \in Nat /\ openTools \in Nat
  BY DEF SessionShape, LimitInv
<1> QED BY <1>1, <1>2, <1>3, <1>4, LimitKept DEF LoopPcs

\* A turn of the model begins.
LEMMA TurnLimits ==
  ASSUME SessionShape, SessionShape', LimitInv, NEW p \in Prompts, RunLlmTurn(p),
         \A q \in Prompts \ {p} : prompt'[q] = prompt[q],
         prompt[p].pc \notin LoopPcs \cup {"goodbye"}, UNCHANGED <<generated, usage, openTools>>
  PROVE  LimitInv'
<1>1. Ahead[p] = 0 /\ Running[p] = 0 /\ Counting[p] = 0 /\ Holding[p] = 0
  BY DEF Ahead, Running, Counting, Holding, AheadOf, RunningOf, CountingOf, HoldingOf, LoopPcs
<1>2. openTools \in Nat /\ started \in Nat /\ generated \in Nat /\ agent.turns \in Nat
  BY DEF LimitInv, SessionShape, Agent
<1>3. CASE prompt'[p].pc \in {"idle", "wrapUp"} /\ started' = started /\ agent'.turns = agent.turns + 1
  BY <1>1, <1>2, <1>3, LeavesLoop DEF LoopPcs
<1>4. CASE /\ agent.turns + 1 <= MaxTurns /\ agent'.turns = agent.turns + 1
           /\ 0 < MaxHops /\ started' = started + 1
           /\ prompt'[p].pc = "generate" /\ prompt'[p].hop = 0
  <2>1. Ahead'[p] = MaxHops - 1 /\ Running'[p] = 1 /\ Counting'[p] = 0 /\ Holding'[p] = 0
    BY <1>4, LimitsAssumption DEF Ahead, Running, Counting, Holding, AheadOf, RunningOf, CountingOf, HoldingOf
  <2>2. Allowed(agent'.turns) = Allowed(agent.turns) + MaxHops /\ Allowed(agent.turns) \in Nat
    BY <1>2, <1>4, AllowedGrows
  <2>3. started' + Ahead'[p] <= started + Ahead[p] + Allowed(agent'.turns) - Allowed(agent.turns)
    BY <1>1, <1>2, <1>4, <2>1, <2>2, LimitsAssumption
  <2> QED BY <1>1, <1>2, <1>4, <2>1, <2>3, LimitKept
<1> QED BY <1>3, <1>4, RunLlmTurnCounts

\* The loop over the tool calls goes on.
LEMMA ToolsLimits ==
  ASSUME SessionShape, SessionShape', LimitInv, NEW p \in Prompts, NEW tools \in Replies, NEW open \in Int,
         RunTools(p, tools, open), \A q \in Prompts \ {p} : prompt'[q] = prompt[q],
         prompt[p].pc \in {"reply", "saveAnswer"}, open = openTools - Holding[p] + Len(tools),
         UNCHANGED <<generated, usage>>
  PROVE  LimitInv'
<1>1. /\ Ahead[p] = MaxHops - 1 - prompt[p].hop /\ Running[p] = 0 /\ Counting[p] = 0
      /\ prompt[p].hop \in Nat /\ prompt[p].hop < MaxHops
  BY LimitsAssumption DEF Ahead, Running, Counting, AheadOf, RunningOf, CountingOf, LimitInv, InsideLoop, InLoop, SessionShape, Prompt
<1>2. /\ openTools \in Nat /\ started \in Nat /\ generated \in Nat /\ Holding[p] \in Nat /\ Len(tools) \in Nat
      /\ Allowed(agent.turns) \in Nat
  <2>1. openTools \in Nat /\ started \in Nat /\ generated \in Nat /\ agent.turns \in Nat
    BY DEF LimitInv, SessionShape, Agent
  <2>2. Holding[p] \in Nat
    BY SharesType DEF LimitInv
  <2>3. Len(tools) \in Nat
    BY RepliesAreSequences, LimitsAssumption
  <2> QED BY <2>1, <2>2, <2>3, AllowedGrows
<1>3. agent'.turns = agent.turns /\ openTools' \in Int
  BY RunToolsCounts
<1>4. CASE prompt'[p].pc = "idle" /\ started' = started
  <2>1. openTools' >= openTools - Holding[p]
    BY <1>2, <1>3, <1>4, RunToolsCounts
  <2> QED BY <1>3, <1>4, <2>1, LeavesLoop DEF LoopPcs
<1>5. CASE /\ prompt[p].hop + 1 < MaxHops /\ started' = started + 1
           /\ prompt'[p].pc = "generate" /\ prompt'[p].hop = prompt[p].hop + 1
  <2>0. Ahead'[p] = MaxHops - 1 - (prompt[p].hop + 1) /\ Running'[p] = 1 /\ Counting'[p] = 0 /\ Holding'[p] = 0
    BY <1>5 DEF Ahead, Running, Counting, Holding, AheadOf, RunningOf, CountingOf, HoldingOf
  <2>1. Ahead'[p] = MaxHops - 2 - prompt[p].hop /\ Running'[p] = 1 /\ Counting'[p] = 0 /\ Holding'[p] = 0
    BY <1>1, <2>0, LimitsAssumption
  <2>2. openTools' >= openTools - Holding[p]
    BY <1>2, <1>3, <1>5, RunToolsCounts
  <2>3. started' + Ahead'[p] <= started + Ahead[p] + Allowed(agent'.turns) - Allowed(agent.turns)
    BY <1>1, <1>2, <1>3, <1>5, <2>1, LimitsAssumption
  <2>4. openTools' - openTools >= Holding'[p] - Holding[p]
    BY <1>2, <1>3, <2>1, <2>2
  <2>8. /\ prompt'[p].hop < MaxHops /\ prompt'[p].pc # "usageWrite" /\ usage' = usage
        /\ generated' + Running'[p] <= generated + Running[p] + started' - started
        /\ Counting'[p] <= Counting[p] + generated' - generated
    BY <1>1, <1>2, <1>5, <2>1
  <2> QED BY <1>3, <2>1, <2>3, <2>4, <2>8, LimitKept
<1>6. CASE /\ prompt'[p].pc \in {"saveAnswer", "goodbye"} /\ prompt'[p].hop = prompt[p].hop
           /\ started' = started
  <2>1. /\ Ahead'[p] \in Nat /\ Ahead'[p] <= Ahead[p] /\ Running'[p] = 0 /\ Counting'[p] = 0
        /\ Holding'[p] = Len(prompt'[p].tools)
    BY <1>1, <1>6, LimitsAssumption DEF Ahead, Running, Counting, Holding, AheadOf, RunningOf, CountingOf, HoldingOf
  <2>2. openTools' = open - Len(tools) + Len(prompt'[p].tools)
    BY <1>6, RunToolsCounts
  <2>3. prompt'[p].tools \in Replies
    BY DEF SessionShape, Prompt
  <2>4. Len(prompt'[p].tools) \in Nat
    BY <2>3, RepliesAreSequences, LimitsAssumption
  <2>5. openTools' - openTools >= Holding'[p] - Holding[p]
    <3>1. \A a, b, c, d \in Int : a = (b - c + d) - d + Holding'[p] /\ Holding'[p] \in Int => a - b >= Holding'[p] - c
      OBVIOUS
    <3>2. openTools' = (openTools - Holding[p] + Len(tools)) - Len(tools) + Holding'[p] /\ Holding'[p] \in Int
      BY <2>1, <2>2, <2>4
    <3> QED BY <1>2, <1>3, <3>1, <3>2
  <2>6. started' + Ahead'[p] <= started + Ahead[p] + Allowed(agent'.turns) - Allowed(agent.turns)
    BY <1>1, <1>2, <1>3, <1>6, <2>1, LimitsAssumption
  <2>8. /\ prompt'[p].hop < MaxHops /\ prompt'[p].pc # "usageWrite" /\ usage' = usage
        /\ generated' + Running'[p] <= generated + Running[p] + started' - started
        /\ Counting'[p] <= Counting[p] + generated' - generated
    BY <1>1, <1>2, <1>6, <2>1
  <2> QED BY <1>3, <2>1, <2>5, <2>6, <2>8, LimitKept
<1> QED BY <1>4, <1>5, <1>6, RunToolsCounts

LEMMA PromptStepLimits ==
  ASSUME GateInv, LimitInv, NEW p \in Prompts, PromptStep(p)
  PROVE  LimitInv'
<1>1. SessionShape /\ SessionShape' /\ \A q \in Prompts \ {p} : prompt'[q] = prompt[q]
  BY PromptStepShape DEF GateInv
<1>2. /\ openTools \in Nat /\ started \in Nat /\ generated \in Nat /\ usage \in Nat
      /\ agent \in Agent /\ agent.turns \in Nat
      /\ prompt \in [Prompts -> Prompt] /\ prompt[p] \in Prompt /\ prompt[p].tools \in Replies
      /\ Len(prompt[p].tools) \in Nat /\ prompt[p].hop \in Nat
      /\ Ahead[p] \in Nat /\ Holding[p] \in Nat /\ Allowed(agent.turns) \in Nat
  <2>1. prompt \in [Prompts -> Prompt] /\ prompt[p] \in Prompt /\ prompt[p].tools \in Replies
        /\ agent \in Agent /\ agent.turns \in Nat
    BY <1>1 DEF SessionShape, Prompt, Agent
  <2>2. Ahead[p] \in Nat /\ Holding[p] \in Nat
    BY <1>1, SharesType DEF LimitInv
  <2>3. openTools \in Nat /\ started \in Nat /\ generated \in Nat /\ usage \in Nat
    BY <1>1 DEF LimitInv, SessionShape
  <2>4. Len(prompt[p].tools) \in Nat /\ Allowed(agent.turns) \in Nat
    <3>1. Len(prompt[p].tools) \in Nat
      BY <2>1, RepliesAreSequences, LimitsAssumption
    <3>2. Allowed(agent.turns) \in Nat
      BY <2>1, AllowedGrows
    <3> QED BY <3>1, <3>2
  <2>5. prompt[p].hop \in Nat
    BY <2>1, LimitsAssumption DEF Prompt
  <2> QED BY <2>1, <2>2, <2>3, <2>4, <2>5
<1>3. CASE /\ \/ PassConsentGate(p) /\ ~agent.consentGiven
              \/ StoreDeclined(p) \/ StoreConsent(p)
              \/ SpeakGoodbye(p) /\ ~agent.ended
  <2>1. PICK pc \in {"decline", "consent", "retry", "declined", "status", "finish"} : Goto(p, pc)
    BY <1>3 DEF PassConsentGate, StoreDeclined, StoreConsent, SpeakGoodbye, FinishFirst
  <2>2. prompt'[p].pc = pc
    BY <1>1, <2>1, GotoType DEF PromptPcs
  <2>3. UNCHANGED <<started, generated, usage, openTools>>
    BY <1>3 DEF PassConsentGate, StoreDeclined, StoreConsent, SpeakGoodbye, FinishFirst, rowVars, histVars
  <2>4. agent'.turns = agent.turns
    BY <1>2, <1>3 DEF PassConsentGate, StoreDeclined, StoreConsent, SpeakGoodbye, FinishFirst, Agent
  <2> QED BY <1>1, <1>2, <2>2, <2>3, <2>4, LeavesLoop DEF LoopPcs
<1>4. CASE EndDeclined(p) \/ RetryConsent(p) \/ CatchAbort(p) \/ FinishPrompt(p) \/ TurnFails(p)
           \/ (SpeakGoodbye(p) /\ agent.ended)
  <2>1. Return(p) /\ UNCHANGED <<started, generated, usage, openTools>>
    BY <1>4 DEF EndDeclined, RetryConsent, CatchAbort, FinishPrompt, TurnFails, SpeakGoodbye, FinishFirst,
       rowVars, histVars
  <2>2. prompt'[p].pc = "idle"
    BY <1>1, <2>1, ReturnType
  <2>3. agent'.turns = agent.turns
    BY <1>2, <1>4 DEF EndDeclined, RetryConsent, CatchAbort, FinishPrompt, TurnFails, SpeakGoodbye, FinishFirst, Agent
  <2> QED BY <1>1, <1>2, <2>1, <2>2, <2>3, LeavesLoop DEF LoopPcs
<1>5. CASE StoreInProgress(p) \/ (PassConsentGate(p) /\ agent.consentGiven)
  <2>1. RunLlmTurn(p) /\ UNCHANGED <<generated, usage, openTools>> /\ prompt[p].pc \in {"status", "heard"}
    BY <1>5 DEF StoreInProgress, PassConsentGate, rowVars, At
  <2> QED BY <1>1, <2>1, TurnLimits DEF LoopPcs
<1>6. CASE GenerationReturns(p)
  <2>1. PICK tools \in Replies : prompt' = [prompt EXCEPT ![p].pc = "usage", ![p].tools = tools]
    BY <1>6 DEF GenerationReturns
  <2> DEFINE m == [prompt[p] EXCEPT !.pc = "usage", !.tools = tools]
  <2>2. m.pc = "usage" /\ m.hop = prompt[p].hop
    BY <1>2 DEF Prompt
  <2>3. prompt'[p] = m
    BY <1>2, <2>1
  <2> HIDE DEF m
  <2>4. /\ prompt[p].pc = "generate" /\ generated' = generated + 1 /\ agent'.turns = agent.turns
        /\ UNCHANGED <<started, usage, openTools>>
    BY <1>2, <1>6 DEF GenerationReturns, rowVars, At, Agent
  <2>5. prompt[p].hop < MaxHops
    BY <2>4 DEF LimitInv, InsideLoop, InLoop
  <2>6. /\ Ahead'[p] = Ahead[p] /\ Running[p] = 1 /\ Running'[p] = 0 /\ Counting[p] = 0 /\ Counting'[p] = 1
        /\ Holding'[p] = 0 /\ Holding[p] = 0
    BY <2>2, <2>3, <2>4 DEF Ahead, Running, Counting, Holding, AheadOf, RunningOf, CountingOf, HoldingOf
  <2> QED BY <1>1, <1>2, <2>2, <2>3, <2>4, <2>5, <2>6, LimitKept
<1>7. CASE ReadUsage(p)
  <2> DEFINE m == [prompt[p] EXCEPT !.pc = "usageWrite", !.read = usage]
  <2>1. m.pc = "usageWrite" /\ m.hop = prompt[p].hop /\ m.read = usage
    BY <1>2 DEF Prompt
  <2>2. prompt'[p] = m
    BY <1>2, <1>7 DEF ReadUsage
  <2> HIDE DEF m
  <2>3. prompt[p].pc = "usage" /\ UNCHANGED <<started, generated, usage, openTools, agent>>
    BY <1>7 DEF ReadUsage, rowVars, histVars, At
  <2>4. prompt[p].hop < MaxHops
    BY <2>3 DEF LimitInv, InsideLoop, InLoop
  <2>5. /\ Ahead'[p] = Ahead[p] /\ Running[p] = 0 /\ Running'[p] = 0 /\ Counting[p] = 1 /\ Counting'[p] = 1
        /\ Holding'[p] = 0 /\ Holding[p] = 0
    BY <2>1, <2>2, <2>3 DEF Ahead, Running, Counting, Holding, AheadOf, RunningOf, CountingOf, HoldingOf
  <2> QED BY <1>1, <1>2, <2>1, <2>2, <2>3, <2>4, <2>5, LimitKept
<1>8. CASE WriteUsage(p)
  <2> DEFINE m == [prompt[p] EXCEPT !.pc = "reply"]
  <2>1. m.pc = "reply" /\ m.hop = prompt[p].hop
    BY <1>2 DEF Prompt
  <2>2. prompt'[p] = m
    BY <1>2, <1>8 DEF WriteUsage, Goto
  <2> HIDE DEF m
  <2>3. /\ prompt[p].pc = "usageWrite" /\ usage' = prompt[p].read + 1
        /\ UNCHANGED <<started, generated, openTools, agent>>
    BY <1>8 DEF WriteUsage, histVars, At
  <2>4. prompt[p].hop < MaxHops
    BY <2>3 DEF LimitInv, InsideLoop, InLoop
  <2>5. /\ Ahead'[p] = Ahead[p] /\ Running[p] = 0 /\ Running'[p] = 0 /\ Counting[p] = 1 /\ Counting'[p] = 0
        /\ Holding'[p] = 0 /\ Holding[p] = 0
    BY <2>1, <2>2, <2>3 DEF Ahead, Running, Counting, Holding, AheadOf, RunningOf, CountingOf, HoldingOf
  <2> QED BY <1>1, <1>2, <2>1, <2>2, <2>3, <2>4, <2>5, LimitKept
<1>9. CASE StoreReply(p)
  <2>1. prompt[p].pc = "reply" /\ UNCHANGED <<generated, usage>>
    BY <1>9 DEF StoreReply, At, rowVars
  <2>2. Holding[p] = 0
    BY <2>1 DEF Holding, HoldingOf
  <2>3. CASE prompt[p].tools = <<>>
    <3>1. Return(p) /\ UNCHANGED <<agent, openTools, started>>
      BY <1>9, <2>3 DEF StoreReply
    <3>2. prompt'[p].pc = "idle"
      BY <1>1, <3>1, ReturnType
    <3> QED BY <1>1, <1>2, <2>1, <3>1, <3>2, LeavesLoop DEF LoopPcs
  <2>4. CASE prompt[p].tools # <<>>
    <3> DEFINE open == openTools + Len(prompt[p].tools)
    <3>1. RunTools(p, prompt[p].tools, open)
      BY <1>9, <2>4 DEF StoreReply
    <3>2. open \in Int /\ open = openTools - Holding[p] + Len(prompt[p].tools)
      BY <1>2, <2>2
    <3> HIDE DEF open
    <3> QED BY <1>1, <1>2, <2>1, <3>1, <3>2, ToolsLimits
  <2> QED BY <2>3, <2>4
<1>10. CASE SaveAnswer(p)
  <2>1. prompt[p].pc = "saveAnswer" /\ UNCHANGED <<generated, usage>> /\ prompt[p].tools # <<>>
    BY <1>10 DEF SaveAnswer, At, GateInv, ToolsWaiting
  <2>2. /\ Holding[p] = Len(prompt[p].tools) /\ Len(prompt[p].tools) # 0
        /\ Tail(prompt[p].tools) \in Replies /\ Len(Tail(prompt[p].tools)) = Len(prompt[p].tools) - 1
    BY <1>2, <2>1, TailIsReply DEF Holding, HoldingOf
  <2>3. CASE agent.ended
    <3>1. Return(p) /\ UNCHANGED <<agent, started>> /\ openTools' = openTools - 1
      BY <1>10, <2>3 DEF SaveAnswer
    <3>2. prompt'[p].pc = "idle"
      BY <1>1, <3>1, ReturnType
    <3>3. openTools' \in Int /\ openTools' >= openTools - Holding[p]
      BY <1>2, <2>2, <3>1
    <3> QED BY <1>1, <1>2, <2>1, <3>1, <3>2, <3>3, LeavesLoop DEF LoopPcs
  <2>4. CASE ~agent.ended
    <3> DEFINE open == openTools - 1
               tools == Tail(prompt[p].tools)
    <3>1. RunTools(p, tools, open)
      BY <1>10, <2>4 DEF SaveAnswer
    <3>2. open \in Int /\ open = openTools - Holding[p] + Len(tools)
      BY <1>2, <2>2
    <3>3. tools \in Replies
      BY <2>2
    <3> HIDE DEF open, tools
    <3> QED BY <1>1, <2>1, <3>1, <3>2, <3>3, ToolsLimits
  <2> QED BY <2>3, <2>4
<1> QED BY <1>3, <1>4, <1>5, <1>6, <1>7, <1>8, <1>9, <1>10 DEF PromptStep

\* Elsewhere generations are only cancelled.
LEMMA AsideLimits ==
  ASSUME GateInv, LimitInv, Aside, agent'.turns = agent.turns,
         \A p \in Prompts : prompt'[p].hop = prompt[p].hop /\ prompt'[p].tools = prompt[p].tools
                            /\ prompt'[p].read = prompt[p].read
  PROVE  LimitInv'
<1>1. SessionShape /\ SessionShape' /\ UNCHANGED <<usage, generated, started, openTools>>
  BY DEF GateInv, SessionShape, Aside, Cancels
<1>2. \A p \in Prompts : \/ prompt'[p].pc = prompt[p].pc
                         \/ prompt[p].pc = "generate" /\ prompt'[p].pc = "aborted"
  BY DEF Aside, Cancels
<1>3. InsideLoop'
  BY <1>2 DEF LimitInv, InsideLoop, InLoop
<1>4. /\ Ahead \in [Prompts -> Nat] /\ Running \in [Prompts -> Nat]
      /\ Counting \in [Prompts -> Nat] /\ Holding \in [Prompts -> Nat]
  BY <1>1, SharesType DEF LimitInv
<1>5. /\ Ahead' \in [Prompts -> Nat] /\ Running' \in [Prompts -> Nat]
      /\ Counting' \in [Prompts -> Nat] /\ Holding' \in [Prompts -> Nat]
  BY <1>1, <1>3, SharesTypeAfter
<1>6. \A p \in Prompts : /\ Ahead[p] \in Nat /\ Ahead'[p] <= Ahead[p] /\ Running'[p] <= Running[p]
                         /\ Counting'[p] <= Counting[p] /\ Holding'[p] <= Holding[p]
  <2> TAKE p \in Prompts
  <2>1. Ahead[p] \in Nat /\ Holding[p] \in Nat
    BY <1>4
  <2>2. CASE prompt'[p].pc = prompt[p].pc
    <3>1. Ahead'[p] = Ahead[p] /\ Running'[p] = Running[p] /\ Counting'[p] = Counting[p] /\ Holding'[p] = Holding[p]
      BY <2>2 DEF Ahead, Running, Counting, Holding, AheadOf, RunningOf, CountingOf, HoldingOf
    <3> QED BY <1>4, <2>1, <3>1
  <2>3. CASE prompt[p].pc = "generate" /\ prompt'[p].pc = "aborted"
    <3>1. Ahead'[p] = 0 /\ Running'[p] = 0 /\ Counting'[p] = 0 /\ Holding'[p] = 0
      BY <2>3 DEF Ahead, Running, Counting, Holding, AheadOf, RunningOf, CountingOf, HoldingOf
    <3> QED BY <1>4, <2>1, <3>1
  <2> QED BY <1>2, <2>2, <2>3
<1>7. /\ IsFiniteSet(Pairs(Ahead')) /\ Total(Ahead') <= Total(Ahead) /\ Total(Ahead) \in Nat /\ Total(Ahead') \in Nat
  <2>1. /\ Ahead \in [Prompts -> Nat] /\ Ahead' \in [Prompts -> Nat] /\ IsFiniteSet(Pairs(Ahead))
        /\ \A q \in Prompts : Ahead'[q] <= Ahead[q]
    BY <1>4, <1>5, <1>6 DEF LimitInv
  <2> QED BY <2>1, SharesShrink
<1>8. /\ IsFiniteSet(Pairs(Running')) /\ Total(Running') <= Total(Running) /\ Total(Running) \in Nat /\ Total(Running') \in Nat
  <2>1. /\ Running \in [Prompts -> Nat] /\ Running' \in [Prompts -> Nat] /\ IsFiniteSet(Pairs(Running))
        /\ \A q \in Prompts : Running'[q] <= Running[q]
    BY <1>4, <1>5, <1>6 DEF LimitInv
  <2> QED BY <2>1, SharesShrink
<1>9. /\ IsFiniteSet(Pairs(Counting')) /\ Total(Counting') <= Total(Counting) /\ Total(Counting) \in Nat /\ Total(Counting') \in Nat
  <2>1. /\ Counting \in [Prompts -> Nat] /\ Counting' \in [Prompts -> Nat] /\ IsFiniteSet(Pairs(Counting))
        /\ \A q \in Prompts : Counting'[q] <= Counting[q]
    BY <1>4, <1>5, <1>6 DEF LimitInv
  <2> QED BY <2>1, SharesShrink
<1>10. /\ IsFiniteSet(Pairs(Holding')) /\ Total(Holding') <= Total(Holding) /\ Total(Holding) \in Nat /\ Total(Holding') \in Nat
  <2>1. /\ Holding \in [Prompts -> Nat] /\ Holding' \in [Prompts -> Nat] /\ IsFiniteSet(Pairs(Holding))
        /\ \A q \in Prompts : Holding'[q] <= Holding[q]
    BY <1>4, <1>5, <1>6 DEF LimitInv
  <2> QED BY <2>1, SharesShrink
<1>11. /\ Pairs(Ahead)' = Pairs(Ahead') /\ Total(Ahead)' = Total(Ahead')
       /\ Pairs(Running)' = Pairs(Running') /\ Total(Running)' = Total(Running')
       /\ Pairs(Counting)' = Pairs(Counting') /\ Total(Counting)' = Total(Counting')
       /\ Pairs(Holding)' = Pairs(Holding') /\ Total(Holding)' = Total(Holding')
       /\ Allowed(agent.turns)' = Allowed(agent.turns)
  BY DEF Pairs, Total, Allowed
<1>12. Allowed(agent.turns) \in Nat /\ started \in Nat /\ generated \in Nat /\ usage \in Nat /\ openTools \in Nat
       /\ \A p \in Prompts : prompt[p].read \in Nat
  BY <1>1, AllowedGrows DEF SessionShape, Agent, Prompt, LimitInv
<1>13. started' + Total(Ahead') <= Allowed(agent.turns) /\ generated' + Total(Running') <= started'
       /\ usage' + Total(Counting') <= generated'
  BY <1>1, <1>7, <1>8, <1>9, <1>12 DEF LimitInv
<1>14. ASSUME NEW p \in Prompts, prompt'[p].pc = "usageWrite" PROVE prompt'[p].read + Total(Counting') <= generated'
  <2>1. prompt[p].pc = "usageWrite" /\ prompt'[p].read = prompt[p].read
    BY <1>2, <1>14
  <2> QED BY <1>1, <1>9, <1>12, <2>1 DEF LimitInv
<1>15. openTools' \in Nat /\ Total(Holding') <= openTools'
  BY <1>1, <1>10, <1>12 DEF LimitInv
<1> QED BY <1>3, <1>7, <1>8, <1>9, <1>10, <1>11, <1>13, <1>14, <1>15 DEF LimitInv

LEMMA InitLimits == Init => LimitInv
<1> SUFFICES ASSUME Init PROVE LimitInv
  OBVIOUS
<1>1. \A p \in Prompts : prompt[p].pc = "idle"
  BY DEF Init, NoneHeard
<1>2. /\ \A p \in Prompts : Ahead[p] = 0 /\ Running[p] = 0 /\ Counting[p] = 0 /\ Holding[p] = 0
  BY <1>1 DEF Ahead, Running, Counting, Holding, AheadOf, RunningOf, CountingOf, HoldingOf
<1>3. Pairs(Ahead) = {} /\ Pairs(Running) = {} /\ Pairs(Counting) = {} /\ Pairs(Holding) = {}
  BY <1>2 DEF Pairs
<1>4. IsFiniteSet({}) /\ Cardinality({}) = 0
  BY FS_EmptySet
<1>5. started = 0 /\ generated = 0 /\ usage = 0 /\ openTools = 0 /\ agent.turns = 0
  BY DEF Init
<1>6. Allowed(0) \in Nat
  BY AllowedGrows
<1> QED BY <1>1, <1>3, <1>4, <1>5, <1>6 DEF LimitInv, InsideLoop, InLoop, Total

\* What the other steps keep of the agent and of its handlers.
LEMMA ElsewhereKeeps ==
  ASSUME SessionShape, Elsewhere, ~\E p \in Prompts, text \in Texts : ReceivePrompt(p, text)
  PROVE  /\ agent'.turns = agent.turns
         /\ \A p \in Prompts : prompt'[p].hop = prompt[p].hop /\ prompt'[p].tools = prompt[p].tools
                               /\ prompt'[p].read = prompt[p].read
<1>1. agent'.turns = agent.turns
  BY DEF Elsewhere, TimerStep, Interrupt, TimeIsUp, SpeakWrapUp, FinishTimeUp, TimeUpFails, Close, FinalizeReads,
     FinalizeGenerates, FinalizeCompletes, FinalizeFails, RelayAction, vars, agentVars, SessionShape, Agent
<1>2. UNCHANGED prompt \/ Abort
  BY DEF Elsewhere, TimerStep, Interrupt, TimeIsUp, SpeakWrapUp, FinishTimeUp, TimeUpFails, Close, FinalizeReads,
     FinalizeGenerates, FinalizeCompletes, FinalizeFails, RelayAction, vars, agentVars
<1>3. CASE Abort
  <2>1. ASSUME NEW p \in Prompts
        PROVE  prompt'[p].hop = prompt[p].hop /\ prompt'[p].tools = prompt[p].tools /\ prompt'[p].read = prompt[p].read
    <3> DEFINE m == [prompt[p] EXCEPT !.pc = "aborted"]
    <3>1. m.hop = prompt[p].hop /\ m.tools = prompt[p].tools /\ m.read = prompt[p].read
      BY DEF SessionShape, Prompt
    <3>2. prompt'[p] = m \/ prompt'[p] = prompt[p]
      BY <1>3 DEF Abort
    <3> HIDE DEF m
    <3> QED BY <3>1, <3>2
  <2> QED BY <1>1, <2>1
<1> QED BY <1>1, <1>2, <1>3

LEMMA NextLimits == GateInv /\ LimitInv /\ [Next]_vars => LimitInv'
<1> SUFFICES ASSUME GateInv, LimitInv, [Next]_vars PROVE LimitInv'
  OBVIOUS
<1>1. CASE \E p \in Prompts : PromptStep(p)
  BY <1>1, PromptStepLimits
<1>2. CASE \E p \in Prompts, text \in Texts : ReceivePrompt(p, text)
  <2>1. PICK p \in Prompts, text \in Texts : ReceivePrompt(p, text)
    BY <1>2
  <2>2. /\ SessionShape /\ SessionShape' /\ \A q \in Prompts \ {p} : prompt'[q] = prompt[q]
        /\ prompt'[p].pc = "heard" /\ prompt[p].pc = "idle"
        /\ UNCHANGED <<usage, agent, openTools, generated, started>>
    BY <2>1, ReceiveEffect DEF GateInv
  <2>3. openTools \in Nat /\ Holding[p] = 0
    BY <2>2 DEF LimitInv, Holding, HoldingOf
  <2> QED BY <2>2, <2>3, LeavesLoop DEF LoopPcs
<1>3. CASE Elsewhere /\ ~\E p \in Prompts, text \in Texts : ReceivePrompt(p, text)
  <2>1. Aside
    BY <1>3, ElsewhereEffect DEF GateInv
  <2> QED BY <1>3, <2>1, ElsewhereKeeps, AsideLimits DEF GateInv
<1> QED BY <1>1, <1>2, <1>3, NextCases

\* Where the timer, the socket, the finalisation and the relay's action stand.
EndShape ==
  /\ timer \in {"armed", "speak", "finish", "failed", "off"}
  /\ socket \in {"open", "ending", "closed"}
  /\ closer \in {"off", "read", "generate", "complete"}
  /\ processed \in BOOLEAN
  /\ action \in {"none", "hangup", "fallback"}

LEMMA EndShapeHolds ==
  /\ Init => EndShape
  /\ EndShape /\ [Next]_vars => EndShape'
<1>1. Init => EndShape
  BY DEF Init, EndShape
<1>2. ASSUME EndShape, [Next]_vars PROVE EndShape'
  <2>1. CASE \E p \in Prompts : PromptStep(p)
    <3>1. UNCHANGED <<timer, closer, processed, action>> /\ (End \/ UNCHANGED socket)
      BY <2>1 DEF PromptStep, PassConsentGate, StoreDeclined, EndDeclined, RetryConsent, StoreConsent,
         StoreInProgress, GenerationReturns, CatchAbort, ReadUsage, WriteUsage, StoreReply, SaveAnswer,
         SpeakGoodbye, FinishPrompt, TurnFails, endVars
    <3> QED BY <1>2, <3>1 DEF EndShape, End
  <2>2. CASE \E p \in Prompts, text \in Texts : ReceivePrompt(p, text)
    BY <1>2, <2>2 DEF ReceivePrompt, EndShape, endVars
  <2>3. CASE Interrupt \/ TimeIsUp \/ SpeakWrapUp \/ FinishTimeUp \/ TimeUpFails \/ UNCHANGED vars
    BY <1>2, <2>3 DEF Interrupt, TimeIsUp, SpeakWrapUp, FinishTimeUp, TimeUpFails, EndShape, End, endVars, vars
  <2>4. CASE Close \/ FinalizeReads \/ FinalizeGenerates \/ FinalizeCompletes \/ FinalizeFails \/ RelayAction
    BY <1>2, <2>4 DEF Close, FinalizeReads, FinalizeGenerates, FinalizeCompletes, FinalizeFails, RelayAction, EndShape
  <2> QED BY <1>2, <2>1, <2>2, <2>3, <2>4 DEF Next, TimerStep
<1> QED BY <1>1, <1>2

\* "Budget caps: max turns per call" (agent.ts:14): at most MaxTurns * MaxHops generations
\* begin, and are charged, however utterances overlap; and no tool call gets two results.
THEOREM SessionTypeCorrect == Spec => []SessionTypeOK
<1>1. ASSUME GateInv, LimitInv, EndShape PROVE SessionTypeOK
  <2>1. started \in Nat /\ usage \in Nat /\ generated \in Nat /\ agent.turns \in Nat
    BY <1>1 DEF GateInv, SessionShape, Agent
  <2>2. /\ Total(Ahead) \in Nat /\ Total(Running) \in Nat /\ Total(Counting) \in Nat
    BY <1>1, FS_CardinalityType DEF LimitInv, Total
  <2>3. Allowed(agent.turns) \in Nat /\ Allowed(agent.turns) <= MaxTurns * MaxHops /\ MaxTurns * MaxHops \in Nat
    BY <2>1, AllowedGrows, LimitsAssumption
  <2>4. started <= MaxTurns * MaxHops /\ usage <= MaxTurns * MaxHops
    BY <1>1, <2>1, <2>2, <2>3 DEF LimitInv
  <2>5. started \in 0 .. MaxTurns * MaxHops /\ usage \in 0 .. MaxTurns * MaxHops
    BY <2>1, <2>3, <2>4
  <2> QED BY <1>1, <2>5 DEF SessionTypeOK, GateInv, SessionShape, LimitInv, EndShape
<1>2. Init => GateInv /\ LimitInv /\ EndShape
  BY InitGate, InitLimits, EndShapeHolds
<1>3. GateInv /\ LimitInv /\ EndShape /\ [Next]_vars => GateInv' /\ LimitInv' /\ EndShape'
  BY NextGate, NextLimits, EndShapeHolds
<1> QED BY <1>1, <1>2, <1>3, PTL DEF Spec
=============================================================================
