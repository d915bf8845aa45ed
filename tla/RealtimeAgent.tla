---------------------------- MODULE RealtimeAgent ----------------------------
(***************************************************************************)
(* One realtime session: the DialogueAgent of a ConversationRelay call,    *)
(* the socket it talks through, its time limit, and what follows when the  *)
(* socket closes.                                                          *)
(*                                                                         *)
(* The process has one thread, so the code between two awaits is atomic.   *)
(* An action is what an awaited call does, with the code that follows it   *)
(* up to the next await.  Every message of the socket starts a handler of  *)
(* its own, and the handlers share the fields of the agent.                *)
(***************************************************************************)
EXTENDS Naturals, Sequences, FiniteSets

CONSTANTS
  Prompts,        \* utterances that may be handled at once
  NoPrompt,       \* JavaScript's null where an abort controller is expected
  MaxTurns,       \* turns of the model per call (maxTurns, 40)
  MaxHops,        \* generations per turn (4)
  MaxToolCalls,   \* bound: tool calls in one reply of the model
  MaxFaults       \* bound: outages in a behaviour

ASSUME PromptsAssumption == Prompts # {} /\ NoPrompt \notin Prompts
ASSUME LimitsAssumption ==
  MaxTurns \in Nat /\ MaxHops \in Nat /\ MaxToolCalls \in Nat /\ MaxFaults \in Nat

VARIABLES
  row,        \* the columns of the call row: status and consentGiven
  answered,   \* an answer of the call is stored
  usage,      \* generations whose tokens state.realtimeUsage contains
  agent,      \* the fields of the DialogueAgent
  openTools,  \* tool calls in the history that have no result there yet
  prompt,     \* the handlers of utterances
  timer,      \* the handler of the time limit
  socket,     \* "open", "ending" once the end message is sent, "closed"
  closer,     \* finalizeCall as run by the close handler
  processed,  \* the transcript went to the summary's language model
  action,     \* what the relay-action request was answered
  generated,  \* generations that have returned
  started,    \* generations that have begun
  raced,      \* some utterance arrived while another one was being handled
  faults      \* outages so far

rowVars   == <<row, answered, usage>>
agentVars == <<agent, openTools, prompt>>
endVars   == <<timer, socket, closer, processed, action>>
histVars  == <<generated, started, raced, faults>>
vars      == <<rowVars, agentVars, endVars, histVars>>

\* Words of the YES list, only words of the NO list, or neither.
Texts == {"yes", "no", "other"}

\* save_answer with a value that validates, a call that is rejected at once (unknown
\* tool or key, no JSON, an invalid value), or end_call.
Tools == {"save", "reject", "end"}
Replies == UNION {[1 .. n -> Tools] : n \in 0 .. MaxToolCalls}

PromptPcs == {"idle", "heard", "decline", "declined", "retry", "consent", "status", "generate",
              "aborted", "usage", "usageWrite", "reply", "saveAnswer", "goodbye", "wrapUp", "finish"}

Prompt == [pc : PromptPcs, text : Texts, hop : 0 .. MaxHops, tools : Replies, read : Nat]
NoneHeard == [pc |-> "idle", text |-> "other", hop |-> 0, tools |-> <<>>, read |-> 0]

Agent == [consentGiven : BOOLEAN, ended : BOOLEAN, turns : Nat, abort : Prompts \cup {NoPrompt}]

Statuses == {"consent_pending", "in_progress", "declined", "completed"}

\* Types.  "Budget caps: max turns per call" (agent.ts:14) is the range of started: whatever
\* overlaps, the number of generations of a call is limited.
SessionTypeOK ==
  /\ row \in [status : Statuses, consentGiven : BOOLEAN]
  /\ answered \in BOOLEAN
  /\ usage \in 0 .. MaxTurns * MaxHops
  /\ agent \in Agent
  /\ openTools \in Nat
  /\ prompt \in [Prompts -> Prompt]
  /\ timer \in {"armed", "speak", "finish", "failed", "off"}
  /\ socket \in {"open", "ending", "closed"}
  /\ closer \in {"off", "read", "generate", "complete"}
  /\ processed \in BOOLEAN
  /\ action \in {"none", "hangup", "fallback"}
  /\ generated \in Nat
  /\ started \in 0 .. MaxTurns * MaxHops
  /\ raced \in BOOLEAN
  /\ faults \in 0 .. MaxFaults

\* A new call, or one that is connected again after the consent.
Init ==
  /\ row \in {[status |-> "consent_pending", consentGiven |-> FALSE],
              [status |-> "in_progress", consentGiven |-> TRUE]}
  /\ agent = [consentGiven |-> row.consentGiven, ended |-> FALSE, turns |-> 0, abort |-> NoPrompt]
  /\ answered = FALSE /\ usage = 0 /\ openTools = 0
  /\ prompt = [p \in Prompts |-> NoneHeard]
  /\ timer = "armed" /\ socket = "open" /\ closer = "off"
  /\ processed = FALSE /\ action = "none"
  /\ generated = 0 /\ started = 0 /\ raced = FALSE /\ faults = 0

-----------------------------------------------------------------------------

At(p, pc) == prompt[p].pc = pc
Goto(p, pc) == prompt' = [prompt EXCEPT ![p].pc = pc]

\* The handler of the utterance returns.
Return(p) == prompt' = [prompt EXCEPT ![p] = NoneHeard]

\* transport.end(): nothing is sent through a socket that is closed.
End == socket' = IF socket = "open" THEN "ending" ELSE socket

\* finish(), up to its await: the first one ends the agent.
FinishFirst(p) ==
  IF agent.ended THEN Return(p) /\ UNCHANGED agent
                 ELSE Goto(p, "finish") /\ agent' = [agent EXCEPT !.ended = TRUE]

\* Mutation: the loop does not look at ended.
NextHop_IgnoresEnd(p, hop, turns) ==
  IF hop < MaxHops
    THEN /\ prompt' = [prompt EXCEPT ![p] = [NoneHeard EXCEPT !.pc = "generate", !.hop = hop]]
         /\ agent' = [agent EXCEPT !.abort = p, !.turns = turns]
         /\ started' = started + 1
    ELSE /\ Return(p)
         /\ agent' = [agent EXCEPT !.turns = turns]
         /\ UNCHANGED started

\* Mutation: one controller for the whole turn, made before the first generation.
NextHop_OneController(p, hop, turns) ==
  IF hop < MaxHops /\ ~agent.ended
    THEN /\ prompt' = [prompt EXCEPT ![p] = [NoneHeard EXCEPT !.pc = "generate", !.hop = hop]]
         /\ agent' = [agent EXCEPT !.abort = IF hop = 0 THEN p ELSE @, !.turns = turns]
         /\ started' = started + 1
    ELSE /\ Return(p)
         /\ agent' = [agent EXCEPT !.turns = turns]
         /\ UNCHANGED started

\* The head of the tool loop: another generation with a controller of its own, or the
\* turn is over.
NextHop(p, hop, turns) ==
  IF hop < MaxHops /\ ~agent.ended
    THEN /\ prompt' = [prompt EXCEPT ![p] = [NoneHeard EXCEPT !.pc = "generate", !.hop = hop]]
         /\ agent' = [agent EXCEPT !.abort = p, !.turns = turns]
         /\ started' = started + 1
    ELSE /\ Return(p)
         /\ agent' = [agent EXCEPT !.turns = turns]
         /\ UNCHANGED started

\* Mutation: off by one in the limit.
RunLlmTurn_OnceMore(p) ==
  IF agent.turns + 1 > MaxTurns + 1
    THEN Goto(p, "wrapUp") /\ agent' = [agent EXCEPT !.turns = @ + 1] /\ UNCHANGED started
    ELSE NextHop(p, 0, agent.turns + 1)

RunLlmTurn(p) ==
  IF agent.turns + 1 > MaxTurns
    THEN Goto(p, "wrapUp") /\ agent' = [agent EXCEPT !.turns = @ + 1] /\ UNCHANGED started
    ELSE NextHop(p, 0, agent.turns + 1)

\* Mutation: a rejected tool call gets no result.
RunTools_SkipsRejected(p, tools, open) ==
  LET accepted == SelectSeq(tools, LAMBDA tool : tool # "reject") IN
  /\ openTools' = open
  /\ IF accepted = <<>>
       THEN NextHop(p, prompt[p].hop + 1, agent.turns)
       ELSE /\ prompt' = [prompt EXCEPT ![p].tools = accepted,
                  ![p].pc = IF Head(accepted) = "save" THEN "saveAnswer" ELSE "goodbye"]
            /\ UNCHANGED <<agent, started>>

\* The tool calls that are left, with "open" calls in the history that wait for their
\* result.  A rejected call gets it at once; after each call the loop looks at ended.
RunTools(p, tools, open) ==
  LET r == CHOOSE n \in 0 .. Len(tools) :
             /\ \A i \in 1 .. n : tools[i] = "reject"
             /\ n < Len(tools) => tools[n + 1] # "reject"
      rest == SubSeq(tools, r + 1, Len(tools))
  IN  IF r > 0 /\ agent.ended
        THEN Return(p) /\ openTools' = open - 1 /\ UNCHANGED <<agent, started>>
        ELSE /\ openTools' = open - r
             /\ IF rest = <<>>
                  THEN NextHop(p, prompt[p].hop + 1, agent.turns)
                  ELSE /\ prompt' = [prompt EXCEPT ![p].tools = rest,
                             ![p].pc = IF Head(rest) = "save" THEN "saveAnswer" ELSE "goodbye"]
                       /\ UNCHANGED <<agent, started>>

-----------------------------------------------------------------------------
(***************************************************************************)
(* onCallerText.                                                           *)
(***************************************************************************)

\* An utterance that reaches an ended agent, or none at all, changes nothing.
ReceivePrompt(p, text) ==
  /\ At(p, "idle")
  /\ socket # "closed"
  /\ ~agent.ended
  /\ prompt' = [prompt EXCEPT ![p] = [NoneHeard EXCEPT !.pc = "heard", !.text = text]]
  /\ raced' = (raced \/ \E q \in Prompts : ~At(q, "idle"))
  /\ UNCHANGED <<rowVars, agent, openTools, endVars, generated, started, faults>>

\* Mutation: every utterance but a refusal goes to the model.
PassConsentGate_UnlessRefused(p) ==
  /\ At(p, "heard")
  /\ IF agent.consentGiven \/ prompt[p].text = "other"
       THEN RunLlmTurn(p)
       ELSE /\ Goto(p, IF prompt[p].text = "no" THEN "decline" ELSE "consent")
            /\ agent' = [agent EXCEPT !.consentGiven = prompt[p].text = "yes"]
            /\ UNCHANGED started
  /\ UNCHANGED <<rowVars, openTools, endVars, generated, raced, faults>>

\* The consent gate, once the utterance is in the transcript.
PassConsentGate(p) ==
  /\ At(p, "heard")
  /\ IF agent.consentGiven
       THEN RunLlmTurn(p)
       ELSE /\ Goto(p, CASE prompt[p].text = "no"  -> "decline"
                         [] prompt[p].text = "yes" -> "consent"
                         [] OTHER                  -> "retry")
            /\ agent' = [agent EXCEPT !.consentGiven = prompt[p].text = "yes"]
            /\ UNCHANGED started
  /\ UNCHANGED <<rowVars, openTools, endVars, generated, raced, faults>>

StoreDeclined(p) ==
  /\ At(p, "decline")
  /\ row' = [row EXCEPT !.status = "declined"]
  /\ Goto(p, "declined")
  /\ UNCHANGED <<answered, usage, agent, openTools, endVars, histVars>>

EndDeclined(p) ==
  /\ At(p, "declined")
  /\ agent' = [agent EXCEPT !.ended = TRUE]
  /\ End
  /\ Return(p)
  /\ UNCHANGED <<rowVars, openTools, timer, closer, processed, action, histVars>>

RetryConsent(p) ==
  /\ At(p, "retry")
  /\ Return(p)
  /\ UNCHANGED <<rowVars, agent, openTools, endVars, histVars>>

\* Mutation: the consent is stored after the status, when the model has begun.
StoreConsent_Later(p) ==
  /\ At(p, "consent")
  /\ row' = [row EXCEPT !.status = "in_progress"]
  /\ RunLlmTurn(p)
  /\ UNCHANGED <<answered, usage, openTools, endVars, generated, raced, faults>>

StoreConsent(p) ==
  /\ At(p, "consent")
  /\ row' = [row EXCEPT !.consentGiven = TRUE]
  /\ Goto(p, "status")
  /\ UNCHANGED <<answered, usage, agent, openTools, endVars, histVars>>

\* The status is written whatever it is by now; the model is asked next.
StoreInProgress(p) ==
  /\ At(p, "status")
  /\ row' = [row EXCEPT !.status = "in_progress"]
  /\ RunLlmTurn(p)
  /\ UNCHANGED <<answered, usage, openTools, endVars, generated, raced, faults>>

-----------------------------------------------------------------------------
(***************************************************************************)
(* runLlmTurn and execTool.                                                *)
(***************************************************************************)

\* The reply of the model: its tool calls.
GenerationReturns(p) ==
  /\ At(p, "generate")
  /\ \E tools \in Replies :
       prompt' = [prompt EXCEPT ![p].pc = "usage", ![p].tools = tools]
  /\ agent' = [agent EXCEPT !.abort = NoPrompt]
  /\ generated' = generated + 1
  /\ UNCHANGED <<rowVars, openTools, endVars, started, raced, faults>>

\* AbortError: the turn stays silent.  The controller is dropped, whoever's it is by now.
CatchAbort(p) ==
  /\ At(p, "aborted")
  /\ agent' = [agent EXCEPT !.abort = NoPrompt]
  /\ Return(p)
  /\ UNCHANGED <<rowVars, openTools, endVars, histVars>>

ReadUsage(p) ==
  /\ At(p, "usage")
  /\ prompt' = [prompt EXCEPT ![p].pc = "usageWrite", ![p].read = usage]
  /\ UNCHANGED <<rowVars, agent, openTools, endVars, histVars>>

\* Mutation: the tokens of the last generation replace those before.
WriteUsage_Replaces(p) ==
  /\ At(p, "usageWrite")
  /\ usage' = 1
  /\ Goto(p, "reply")
  /\ UNCHANGED <<row, answered, agent, openTools, endVars, histVars>>

WriteUsage(p) ==
  /\ At(p, "usageWrite")
  /\ usage' = prompt[p].read + 1
  /\ Goto(p, "reply")
  /\ UNCHANGED <<row, answered, agent, openTools, endVars, histVars>>

\* The reply goes into the transcript, if it has words, and into the history.
StoreReply(p) ==
  /\ At(p, "reply")
  /\ IF prompt[p].tools = <<>>
       THEN Return(p) /\ UNCHANGED <<agent, openTools, started>>
       ELSE RunTools(p, prompt[p].tools, openTools + Len(prompt[p].tools))
  /\ UNCHANGED <<rowVars, endVars, generated, raced, faults>>

\* save_answer: the row is written even if the agent ended meanwhile.
SaveAnswer(p) ==
  /\ At(p, "saveAnswer")
  /\ answered' = TRUE
  /\ IF agent.ended
       THEN Return(p) /\ openTools' = openTools - 1 /\ UNCHANGED <<agent, started>>
       ELSE RunTools(p, Tail(prompt[p].tools), openTools - 1)
  /\ UNCHANGED <<row, usage, endVars, generated, raced, faults>>

\* end_call or the turn limit: the goodbye is spoken, then the agent ends.
SpeakGoodbye(p) ==
  /\ At(p, "goodbye") \/ At(p, "wrapUp")
  /\ FinishFirst(p)
  /\ UNCHANGED <<rowVars, openTools, endVars, histVars>>

FinishPrompt(p) ==
  /\ At(p, "finish")
  /\ End
  /\ Return(p)
  /\ UNCHANGED <<rowVars, agent, openTools, timer, closer, processed, action, histVars>>

\* Mutation: the failure is logged, and the relay left to the agent.
TurnFails_LeavesRelay(p) ==
  /\ prompt[p].pc \notin {"idle", "aborted"}
  /\ faults < MaxFaults
  /\ faults' = faults + 1
  /\ agent' = [agent EXCEPT !.abort = IF At(p, "generate") THEN NoPrompt ELSE @]
  /\ Return(p)
  /\ UNCHANGED <<rowVars, openTools, endVars, generated, started, raced>>

\* An awaited call of the handler fails: the session ends the relay, the agent goes on.
TurnFails(p) ==
  /\ prompt[p].pc \notin {"idle", "aborted"}
  /\ faults < MaxFaults
  /\ faults' = faults + 1
  /\ agent' = [agent EXCEPT !.abort = IF At(p, "generate") THEN NoPrompt ELSE @]
  /\ End
  /\ Return(p)
  /\ UNCHANGED <<rowVars, openTools, timer, closer, processed, action, generated, started, raced>>

-----------------------------------------------------------------------------
(***************************************************************************)
(* Interruption, the time limit and the end of the session.                *)
(***************************************************************************)

\* abort() on the current controller, if there is one.
Abort == prompt' = [p \in Prompts |-> IF p = agent.abort /\ At(p, "generate")
                                        THEN [prompt[p] EXCEPT !.pc = "aborted"]
                                        ELSE prompt[p]]

\* The caller barges in.
Interrupt ==
  /\ socket # "closed"
  /\ \E p \in Prompts : p = agent.abort /\ At(p, "generate")
  /\ Abort
  /\ UNCHANGED <<rowVars, agent, openTools, endVars, histVars>>

\* onTimeUp.
TimeIsUp ==
  /\ timer = "armed"
  /\ IF agent.ended THEN timer' = "off" /\ UNCHANGED prompt
                    ELSE timer' = "speak" /\ Abort
  /\ UNCHANGED <<rowVars, agent, openTools, socket, closer, processed, action, histVars>>

SpeakWrapUp ==
  /\ timer = "speak"
  /\ IF agent.ended THEN timer' = "off" /\ UNCHANGED agent
                    ELSE timer' = "finish" /\ agent' = [agent EXCEPT !.ended = TRUE]
  /\ UNCHANGED <<rowVars, openTools, prompt, socket, closer, processed, action, histVars>>

FinishTimeUp ==
  /\ timer = "finish"
  /\ timer' = "off"
  /\ End
  /\ UNCHANGED <<rowVars, agentVars, closer, processed, action, histVars>>

\* The error is logged: the session runs on without a limit, or ended and not hung up.
TimeUpFails ==
  /\ timer \in {"speak", "finish"}
  /\ faults < MaxFaults
  /\ faults' = faults + 1
  /\ timer' = "failed"
  /\ UNCHANGED <<rowVars, agentVars, socket, closer, processed, action, generated, started, raced>>

\* The relay ends, the connection fails or the caller hangs up.  A session whose agent
\* has ended is finalised.
Close ==
  /\ socket # "closed"
  /\ socket' = "closed"
  /\ timer' = IF timer = "armed" THEN "off" ELSE timer
  /\ Abort
  /\ closer' = IF agent.ended THEN "read" ELSE "off"
  /\ UNCHANGED <<rowVars, agent, openTools, processed, action, histVars>>

\* finalizeCall, as far as it reads and writes the columns of this module: CallLifecycle
\* has the rest.
FinalizeReads ==
  /\ closer = "read"
  /\ closer' = IF row.status = "completed" THEN "off" ELSE "generate"
  /\ UNCHANGED <<rowVars, agentVars, timer, socket, processed, action, histVars>>

FinalizeGenerates ==
  /\ closer = "generate"
  /\ closer' = "complete"
  /\ processed' = TRUE
  /\ UNCHANGED <<rowVars, agentVars, timer, socket, action, histVars>>

FinalizeCompletes ==
  /\ closer = "complete"
  /\ closer' = "off"
  /\ row' = [row EXCEPT !.status = "completed"]
  /\ UNCHANGED <<answered, usage, agentVars, timer, socket, processed, action, histVars>>

FinalizeFails ==
  /\ closer # "off"
  /\ faults < MaxFaults
  /\ faults' = faults + 1
  /\ closer' = "off"
  /\ UNCHANGED <<rowVars, agentVars, timer, socket, processed, action, generated, started, raced>>

\* relay-action: Twilio asks how the call goes on when the relay has ended.  The turn the
\* fallback runs finds the phase "consent" and asks for the consent: it writes no column.
RelayAction ==
  /\ socket = "closed"
  /\ action = "none"
  /\ action' = IF row.status \in {"completed", "declined"} THEN "hangup" ELSE "fallback"
  /\ UNCHANGED <<rowVars, agentVars, timer, socket, closer, processed, histVars>>

-----------------------------------------------------------------------------

PromptStep(p) ==
  \/ PassConsentGate(p) \/ StoreDeclined(p) \/ EndDeclined(p) \/ RetryConsent(p)
  \/ StoreConsent(p) \/ StoreInProgress(p) \/ GenerationReturns(p) \/ CatchAbort(p)
  \/ ReadUsage(p) \/ WriteUsage(p) \/ StoreReply(p) \/ SaveAnswer(p)
  \/ SpeakGoodbye(p) \/ FinishPrompt(p) \/ TurnFails(p)

TimerStep == SpeakWrapUp \/ FinishTimeUp \/ TimeUpFails

Next ==
  \/ \E p \in Prompts : PromptStep(p) \/ \E text \in Texts : ReceivePrompt(p, text)
  \/ Interrupt \/ TimeIsUp \/ TimerStep \/ Close
  \/ FinalizeReads \/ FinalizeGenerates \/ FinalizeCompletes \/ FinalizeFails
  \/ RelayAction

\* The last statement of a handler that has ended the agent returns or throws.
LastStep(p) == FinishPrompt(p) \/ (At(p, "finish") /\ TurnFails(p))

\* The handlers that end a session get over their database statements.  Nothing is assumed
\* of the caller, of Twilio or of the model, whose reply the code awaits without a limit.
Spec == /\ Init /\ [][Next]_vars
        /\ WF_vars(TimerStep)
        /\ \A p \in Prompts : WF_vars(LastStep(p))

-----------------------------------------------------------------------------
(***************************************************************************)
(* Properties.                                                             *)
(***************************************************************************)

\* "Until the caller says yes, the LLM never runs" (agent.ts:12), however utterances
\* overlap with one another, with the time limit and with outages.
LlmAfterYes == started > 0 => agent.consentGiven

\* One utterance after the other and without outages, the row records the consent before
\* the model hears anything and before an answer is stored.
ConsentStoredUnlessRaced ==
  ~raced /\ faults = 0 /\ (started > 0 \/ answered) => row.consentGiven

\* One utterance after the other, a running generation can be cancelled: the controller
\* the agent holds is the one of that generation.
InterruptibleUnlessRaced ==
  ~raced => \A p \in Prompts : At(p, "generate") => agent.abort = p

\* One utterance after the other and without outages, the tokens of every generation that
\* returned are on the call row, or about to be.
UsageCountedUnlessRaced ==
  ~raced /\ faults = 0 =>
    usage + Cardinality({p \in Prompts : prompt[p].pc \in {"usage", "usageWrite"}}) = generated

\* One utterance after the other and without outages, the model is never sent a history
\* with a tool call that has no result, which its interface rejects.
HistoryAnsweredUnlessRaced ==
  ~raced /\ faults = 0 /\ (\E p \in Prompts : At(p, "generate")) => openTools = 0

\* After the end of the agent - by its own goodbye, a refusal or the time limit - no
\* generation begins, whatever turn was in flight.
NoGenerationAfterEnd == [][agent.ended => started' = started]_vars

\* "REALTIME_MAX_MINUTES wraps up politely" (docs/VOICE.md:56): once the limit fires, the
\* agent ends and the relay with it, whatever the model is doing, whichever turn is just
\* ending the agent itself, and whatever fails but the wrap-up.
TimeLimitEnds == timer = "speak" ~> (agent.ended /\ socket # "open") \/ timer = "failed"

\* "No consent means no LLM processing" (call-lifecycle.ts:12-13).
NoProcessingWithoutConsent == processed => row.consentGiven

=============================================================================
