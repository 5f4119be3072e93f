---------------------------- MODULE MCAlgorithms ----------------------------
EXTENDS Algorithms, SequencesExt

MCBodies == BoundedSeq({Key, "1", ",", "]"}, 6)

MCTexts == BoundedSeq({"1", "x", ",", "\n"}, 5) \cup [1..4 -> {"1", "-", "n", ",", "\n"}]

MCConfigs ==
  LET V(type, text) == Value(type, text)
      values == {V("string", <<>>), V("string", <<"true", "}", ",">>),
                 V("number", <<"1", "2">>), V("number", <<"-", "1", ".", "2">>),
                 V("bool", <<"true">>)}
  IN  BoundedSeq([key : {<<"a">>, <<"b", ":">>}, value : values], 2)

MCGaps == {<<>>, <<Space>>}

\* Without and with a scaler, each field as it is by default or not.
MCBundles ==
  {Bundle([f \in Fields |->
     IF f = "has" THEN h ELSE IF f \in plain THEN "default" ELSE f]) :
       h \in {"0", "1"}, plain \in SUBSET {"act", "W1", "temp"}}

MCShuffles == SetToAllKPermutations({1, 2, 3}) \cup {[i \in 1..n |-> n + 1 - i] : n \in 4..12}

\* Three classes in two rows, two in three, NaN among the probabilities.
MCScored == [probs : [1..2 -> [0..2 -> {NaN, 0, 1}]], y : {<<0, 1>>, <<2, 2>>, <<1, 0>>}]
            \cup [probs : [1..3 -> [0..1 -> {NaN, 0, 1}]], y : [1..3 -> 0..1]]

MCColumns == UNION {[1..n -> 0..2] : n \in 1..3} \cup
  {<<3, 1, 4, 2, 5>>, [i \in 1..12 |-> (i * 5) % 13], <<2, 1, 1, 2, 0, 2>>,
   <<NonFinite>>, <<2, NonFinite, 1, 2>>, <<25, 35, NonFinite, 25>>, <<96, 104, 115, 9>>}
=============================================================================
