------------------------------- MODULE MCOpenAI -------------------------------
EXTENDS OpenAI
===============================================================================
