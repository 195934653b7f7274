----------------------------- MODULE MCMessages -----------------------------
(* A foreground event against two parallel ones.  One of those has an inn, *)
(* the other and the foreground an inn that is free.                       *)
EXTENDS Messages

Order == <<"p", "q">>
Talk(lines) == [Silence EXCEPT !.lines = lines]
Ask(lines, choices, cancel) ==
  [Silence EXCEPT !.lines = lines, !.choices = choices, !.cancel = cancel]
Number(lines) == [Silence EXCEPT !.lines = lines, !.digits = 1]
Raise(lines) == [Silence EXCEPT !.kind = "level", !.lines = lines]
FreeInn == [Silence EXCEPT !.kind = "free inn"]
Inn == [Ask(<<<<"c">>>>, <<TRUE, TRUE>>, 5) EXCEPT !.kind = "inn"]

Scripts == [s \in Speakers |->
  CASE s = "p" -> {Ask(<<<<"c", "w">>>>, <<TRUE, TRUE>>, 2), FreeInn}
    [] s = "q" -> {Inn, Raise(<<<<"c", "f">>, <<"c">>>>), Raise(<<>>)}
    [] OTHER -> {Talk(<<<<"c", "w">>, <<"!">>, <<"^">>, <<"w">>>>),
                 Ask(<<<<"c">>, <<"c">>>>, <<TRUE, FALSE>>, 5), Number(<<>>), Number(<<<<"w">>>>), FreeInn}]
=============================================================================
