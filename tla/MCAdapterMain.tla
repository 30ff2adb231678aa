--------------------------- MODULE MCAdapterMain ---------------------------
(***************************************************************************)
(* AdapterMain for TLC: every argument of up to three characters, pairs of *)
(* the awkward ones, and the ways in which options, programs, descriptors  *)
(* and the environment differ, one at a time.                              *)
(***************************************************************************)
EXTENDS AdapterMain

Chars == {"a", " ", "\"", "\\"}
Texts == UNION {[1..n -> Chars] : n \in 0..3} \cup {<<"\t">>}
Awkward == {<<>>, <<" ">>, <<"\"">>, <<"\\">>, <<"a", "\\">>, <<" ", "\\">>}

Arg(text) == [option |-> "none", text |-> text]
Opt(name) == [option |-> name, text |-> <<"-">>]
P == Arg(<<"p">>)

File(dir, ext, runs) == [dir |-> dir, name |-> <<"p">>, ext |-> ext, runs |-> runs]
Prog(dir, ext) == [dir |-> dir, name |-> <<"p">>, ext |-> ext]

Usual ==
  [argv |-> <<P>>, env |-> {"TERM"}, ttys |-> {0, 1, 2}, size |-> "known",
   path |-> << <<"b">>, <<"c", " ">> >>,
   files |-> {File(<<"b">>, ".exe", TRUE), File(<<"c", " ">>, ".exe", TRUE)},
   program |-> Prog(<<>>, "")]

Arguments1 == {[Usual EXCEPT !.argv = <<P, Arg(t)>>] : t \in Texts}
Arguments2 == {[Usual EXCEPT !.argv = <<P, Arg(t), Arg(u)>>] : t, u \in Awkward}

OptionRows ==
  { <<>>, <<Opt("--mouse"), P, Opt("--mouse")>>, <<Opt("--"), Opt("-x"), P>>, <<Opt("--")>>,
    <<Opt("-Xplain"), Opt("--"), P, Opt("--")>>, <<Opt("-x"), P>>, <<Opt("--help"), P>>,
    <<Opt("--mouse"), Opt("--version")>>, <<Opt("--showkey")>>, <<Opt("--showkey"), P>>,
    <<Opt("--showkey"), Opt("-Xallow-non-tty")>>, <<Opt("-Xcolor")>> }
Options ==
  {[Usual EXCEPT !.argv = row, !.ttys = t] : row \in OptionRows, t \in {{0, 1, 2}, {1, 2}}}

Programs ==
  {[Usual EXCEPT !.program = Prog(dir, ext), !.files = files] :
     dir \in {<<>>, <<"b">>}, ext \in {"", ".exe", ".bat", ".sh"},
     files \in {{}, {File(<<"b">>, "", TRUE), File(<<"c", " ">>, ".exe", TRUE)},
                {File(<<"b">>, ".exe", FALSE), File(<<"c", " ">>, ".exe", TRUE)},
                {File(<<"b">>, ".bat", TRUE), File(<<"c", " ">>, ".bat", TRUE),
                 File(<<"c", " ">>, ".sh", TRUE)}}}

Differences ==
  {[Usual EXCEPT !.ttys = t] : t \in SUBSET {0, 1}} \cup
  {[Usual EXCEPT !.size = s] : s \in {"unknown", "zero"}} \cup
  {[Usual EXCEPT !.env = e] : e \in SUBSET {"TERM", "WINPTY_DEBUG", "WINPTY_SHOW_CONSOLE"}}

MCStarts == Arguments1 \cup Arguments2 \cup Options \cup Programs \cup Differences
=============================================================================
