----------------------------- MODULE MCLlmClient -----------------------------
(* A small instance of LlmClient for TLC. *)
EXTENDS LlmClient

\* An Ollama model that thinks though its name does not tell, a vendor's reasoning
\* model as the fallback.
MCFamily == [m \in Models |-> CHOOSE f \in {"ollama", "openai"} : f = "ollama" <=> m \in Thinking]
CONSTANTS Cloud
MCFallbacks == <<Cloud>>

\* One call past the gateway, with tools, and one through it, without.
MCCalls ==
    {[model |-> None, direct |-> tools, tools |-> tools, suppress_reasoning |-> TRUE] : tools \in BOOLEAN}
=============================================================================
