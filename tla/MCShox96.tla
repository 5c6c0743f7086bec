------------------------------- MODULE MCShox96 -------------------------------
(****************************************************************************)
(* Texts for Shox96.                                                        *)
(****************************************************************************)
EXTENDS Shox96

Words(alphabet, lengths) == UNION {[1 .. n -> alphabet] : n \in lengths}
RunOf(c, n) == [k \in 1 .. n |-> c]

\* Repetitions: all words of two letters.
TwoLetters == Words({97, 98}, 0 .. 9)
\* Switches: a capital, a small letter, a digit, a space, a `.`, a LF and a CR.
Switching == Words({65, 97, 53, 32, 46, 10, 13}, 1 .. 4)
\* Runs of capitals, which take six of them, broken by a letter or a digit.
Capitals == Words({65, 98, 53}, {7})
\* Every character of the limits README states, by itself and in state 2.
Single == {<<c>> : c \in Characters} \cup {<<53, c, 53>> : c \in Characters}
\* A count in each of the size classes, as the length of a run and as a distance.
Long == {RunOf(97, n) : n \in {10, 60, 230, 800, 4900}}
   \cup {<<97, 98, 99, 100>> \o RunOf(101, n) \o <<97, 98, 99, 100, 102>> : n \in {30, 100, 300}}
\* The texts that take most bits: a capital and a digit by turns, each after a
\* switch of set, the first capitals after one to a run as well; the same with a `.
Turns(c, d) == [k \in 1 .. 12 |-> IF k % 2 = 1 THEN c[(k + 1) \div 2] ELSE d[k \div 2]]
Costly == {Turns(<<88, 90, 90, 88, 88, 90>>, d) : d \in [1 .. 6 -> {54, 55, 56}]}
     \cup {Turns(d, RunOf(96, 6)) : d \in [1 .. 6 -> {49, 50, 51}]}

AllTexts == TwoLetters \cup Switching \cup Capitals \cup Single \cup Long \cup Costly

TextsWithoutDelayedRuns == {t \in AllTexts : ~DelayedRun(t)}

\* "key=101;key=1010000;": the second key=101 repeats the first, the four zeros
\* are the last character but one of the repetition.
Keys == {<<107, 101, 121, 61, 49, 48, 49, 59,
           107, 101, 121, 61, 49, 48, 49, 48, 48, 48, 48, 59>>}
KeysAndWords == Keys \cup Words({97, 98, 32}, 1 .. 4)

\* No earlier lines, which is what the SQL functions pass, and two of them.
Lines == {<< >>, << <<97, 98, 98, 97, 97>>, <<98, 98, 98, 97, 97, 98>> >>}
NoLines == {<< >>}
==============================================================================
