---------------------------- MODULE MCBacktester ----------------------------
(* Backtester on a small instance, with the messages of a file; the other  *)
(* constants are in the .cfg files.                                        *)
EXTENDS Main

SmallTokens == {<<"1">>, <<"1", "2">>}

SmallLines(n) == [1 .. n -> [1 .. Fields -> SmallTokens]]

\* Header lines are empty or look like any other line.
SmallHeaders == {<< << <<>> >>, << <<"1">>, <<"2">> >> >>, << << <<"1">>, <<"2">> >>, << <<>> >> >>}

\* Two lines behind the header, or fewer, or one that ends inside it, or N messages.
SmallFiles ==
  [lines : {h \o l : h \in SmallHeaders, l \in UNION {SmallLines(n) : n \in 1 .. 2}},
   newline : BOOLEAN]
  \cup [lines : SmallHeaders, newline : {TRUE}]
  \cup [lines : {<< << <<"1">> >> >>}, newline : BOOLEAN]
  \cup {[lines |-> (CHOOSE h \in SmallHeaders : TRUE) \o (CHOOSE l \in SmallLines(N) : TRUE),
         newline |-> TRUE]}
=============================================================================
