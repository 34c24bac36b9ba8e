----------------------------- MODULE MCStartup -----------------------------
\* Two presets, one persona, one text that fits and one that does not.
EXTENDS Startup
============================================================================
