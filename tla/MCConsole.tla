----------------------------- MODULE MCConsole -----------------------------
(***************************************************************************)
(* Console with programs that print parts of the marker, a NUL, several    *)
(* lines, or one number of eight bits at a boundary, by printk or raw, and *)
(* return, panic or fail an assertion.                                     *)
(***************************************************************************)
EXTENDS Console

MCChar == STRING

\* DONE!!! and a newline, shortened: a first letter that does not come again, a
\* repeated one, the newline.
MCMarker == <<"D", "!", "!", "\n">>

Says(text) == [text |-> text, raw |-> FALSE, panics |-> FALSE, asserts |-> FALSE,
               line |-> 0, conv |-> "none", arg |-> 0, padding |-> 0]

SendsRaw(text) == [Says(text) EXCEPT !.raw = TRUE]

FailsAfter(text) == [Says(text) EXCEPT !.asserts = TRUE, !.panics = TRUE, !.line = 10]

Shows(conv, arg, padding) ==
    [Says(NumberText(conv, arg, padding) \o <<"\n">>)
        EXCEPT !.conv = conv, !.arg = arg, !.padding = padding]

MCTexts == {Says(<<>>), Says(<<"D", "!", "\n">>), Says(<<"D">>),
            Says(<<"NUL", "N", "\n">>), Says(MCMarker),
            [Says(<<"D">>) EXCEPT !.panics = TRUE, !.line = 10],
            SendsRaw(<<"D", "!", "\n">>), SendsRaw(MCMarker), FailsAfter(<<"D", "!", "!">>)}

MCNumbers ==
    {Shows("b", 6, 0), Shows("u", -1, 0), Shows("p", 26, 0),
     Shows("hex", 10, 0), Shows("int", 0, 0), Shows("int", 100, 0),
     Shows("d", -128, 0), Shows("0d", -7, 3), Shows("0x", 11, 3)}

MCPrograms == MCTexts \cup MCNumbers
=============================================================================
