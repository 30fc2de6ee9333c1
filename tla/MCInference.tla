---------------------------- MODULE MCInference -----------------------------
EXTENDS Inference

MCChains == {<<"openai">>, <<"anthropic">>, <<"openai", "anthropic">>}
=============================================================================
