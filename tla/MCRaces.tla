-------------------------------- MODULE MCRaces --------------------------------
(* Five components whose safety the interleavings decide: the critic's       *)
(* nominees, the LLM approval gate, the passes of one transcription, the     *)
(* usage rows and the chat agent.  They share no state; one of them,         *)
(* `focus`, moves in each behaviour.                                         *)
EXTENDS CandidateReview, ApprovalGate, Transcription, UsageLimits, AgentChat, TLC

CONSTANTS
    a1,     \* the process_content row of the item
    q1, q2  \* messages to the chat agent

VARIABLE focus

reviewVars == vars

MCInit ==
    /\ focus \in {"nominees", "approval", "passes", "usage", "chat"}
    /\ Init /\ GateInit /\ TextInit /\ UsageInit /\ ChatInit
    /\ focus # "passes" => apiOn /\ item.long
    /\ focus # "usage" => limited

MCNext ==
    /\ UNCHANGED focus
    /\ \/ focus = "nominees" /\ Next /\ UNCHANGED <<gateVars, textVars, usageVars, chatVars>>
       \/ focus = "approval" /\ GateNext /\ UNCHANGED <<reviewVars, textVars, usageVars, chatVars>>
       \/ focus = "passes" /\ TextNext /\ UNCHANGED <<reviewVars, gateVars, usageVars, chatVars>>
       \/ focus = "usage" /\ UsageNext /\ UNCHANGED <<reviewVars, gateVars, textVars, chatVars>>
       \/ focus = "chat" /\ ChatNext /\ UNCHANGED <<reviewVars, gateVars, textVars, usageVars>>

MCSpec == MCInit /\ [][MCNext]_<<reviewVars, gateVars, textVars, usageVars, chatVars, focus>>

\* A podcast's episode, long; a video with a transcript on its site, short.
MCEpisodes == {[channel |-> FALSE, pattern |-> FALSE, long |-> TRUE],
               [channel |-> TRUE, pattern |-> TRUE, long |-> FALSE]}
MCTextTries == a1 :> 3
MCMaxLoops == (q1 :> 2) @@ (q2 :> 1)

\* The type invariants of the five modules.
TypesOK == TypeOK /\ GateTypeOK /\ TextTypeOK /\ UsageTypeOK /\ ChatTypeOK
=============================================================================
