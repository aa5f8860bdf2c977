-------------------------- MODULE MCExtractionRun --------------------------
EXTENDS ExtractionRun

\* A document that the older code has published, one that is new and has no
\* Article, and one on a platform without symbolic links.
MCSetups ==
    {[synthetic |-> FALSE, symlinks |-> TRUE, legacy |-> TRUE,
      provider |-> "gemini"],
     [synthetic |-> TRUE, symlinks |-> TRUE, legacy |-> FALSE,
      provider |-> "openai"],
     [synthetic |-> FALSE, symlinks |-> FALSE, legacy |-> TRUE,
      provider |-> "ollama"]}
=============================================================================
