------------------------------ MODULE Prompts -------------------------------
(***************************************************************************)
(* The prompts of the merchants' bots and of the platform's own, which     *)
(* share nothing but what is asked of them.                                *)
(***************************************************************************)
EXTENDS MerchantPrompts, BotPrompts

PromptsSpec == MerchantPromptsSpec /\ BotPromptsSpec

\* What a bot is told to say is what was stored last, and nothing is lost of it: for the
\* merchants' bots as MerchantPrompts says, for the platform's own as BotPrompts does.
PromptsAreCurrent == PromptIsCurrent /\ NoTemplateIsLost /\ LastActivatedAnswers
=============================================================================
