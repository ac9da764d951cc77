----------------------------- MODULE MCConsole -----------------------------
(* The console for TLC: a prompt of two glyphs. *)
EXTENDS Console

PromptGlyphs == <<"p", ">">>

\* Commands that end their output with a newline: all but mem and a successful
\* diskR, after which the prompt does not start in column 0.
LineOutputs == {<<Newline, "out", Newline>>, <<"out", Newline>>}
=============================================================================
