------------------------------- MODULE MCRepl -------------------------------
(***************************************************************************)
(* Lines for TLC: beginnings and ends of blocks, calls, arrays, strings    *)
(* (with an escaped quote, with brackets inside, open at the end of the    *)
(* line) and comments, so that every pairing of them occurs in a buffer.   *)
(***************************************************************************)
EXTENDS Repl

MCLines == {
    <<>>, <<"ESC">>, <<" ">>,
    <<"x", ";">>, <<"x">>, <<";">>,
    <<"{">>, <<"}">>, <<"x", "(">>, <<")", ";">>, <<"[", "x">>, <<"]", ";">>,
    <<")", "(">>, <<"x", "[", "x", "]">>,
    <<"quote">>, <<"quote", ";">>, <<"quote", "backslash">>,
    <<"quote", "backslash", "quote", "{", "quote", ";">>,
    <<"quote", "}", "/", "/", "quote", ";">>,
    <<"x", ";", "backslash">>, <<"x", "/">>, <<"/", "/", "{">>,
    <<"x", ";", "/", "/", "quote">>,
    <<"x", ";", "/", "/", ";">>,
    <<"fn", "(", ")">>, <<"fn", "(", "x", "x", ")", "x", "{", "x", ";", "}">>,
    <<"let", "x", "=">>, <<"if", "x", "{">>, <<"}", "else", "{">>,
    <<"}", "elif", "x", "{">>, <<"while", "not", "x", "{">>,
    <<"return">>, <<",", "-", "x">> }

=============================================================================
