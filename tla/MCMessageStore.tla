---------------------------- MODULE MCMessageStore ----------------------------
(* Names of at most three characters.  "a bc" is cut to "a b", which has    *)
(* the full name of "ab" and of "a b" at the end of the input.              *)
EXTENDS MessageStore, TLC

MCNameLines == {<<"a", " ", "b", "c">>, <<"a", "b">>, <<"b", " ">>}

MCTextLines == {<<"h">>, <<"h", "i", "!">>}

==============================================================================
