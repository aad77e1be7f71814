--------------------------- MODULE MCHttpGateway ---------------------------
(***************************************************************************)
(* SlabPrograms for TLC.  The inputs on which parse() is compared with the *)
(* grammar are the initial values of a variable of their own.              *)
(***************************************************************************)
EXTENDS SlabPrograms, HttpParser

VARIABLE input

mcVars == <<programVars, input>>

\* Every request line, up to three header lines and every body, from pieces that
\* reach each test of parse(), whole and cut off.
Piece ==
    {<<"w">>, <<"w", "SP">>, <<"SP">>, <<"COLON">>, <<"CR">>, <<"LF">>, <<"CR", "LF">>}
RequestLine ==
    {<<"w", "SP", "w", "SP", "w">> \o e : e \in {<<"LF">>, <<"CR", "LF">>}}
HeaderLine ==
    {k \o <<"COLON">> \o v \o <<"LF">> :
       k \in {<<>>, <<"w">>, <<"w", "w", "w">>, <<"Host">>, <<"injected">>, <<"w", "HIGH">>,
              <<"Transfer-Encoding">>},
       v \in {<<>>, <<"w", "CR">>, <<"SP", "w", "TAB">>, <<"w", "CR", "CR">>, <<"chunked">>,
              <<"CR", "SP", "COLON">>}}
Ending == {<<>>, <<"LF">>, <<"CR", "LF">>, <<"CR", "w">>, <<"LF", "LF", "w", "CR", "NUL">>,
           <<"CR", "LF", "LF", "NUL", "NUL">>}
Input ==
    {a \o b \o c \o d \o e : a, b, c, d \in Piece, e \in {<<>>, <<"LF">>, <<"LF", "LF">>}}
      \cup {r \o e : r \in RequestLine, e \in Ending}
      \cup {r \o h \o e : r \in RequestLine, h \in HeaderLine, e \in Ending}
      \cup {<<"w", "SP", "w", "SP", "w", "LF">> \o g \o h \o e : g, h \in HeaderLine, e \in Ending}
      \cup {<<"w", "SP", "w", "SP", "w", "LF", "w", "COLON", "LF", "w", "COLON", "LF">> \o h \o e :
             h \in HeaderLine, e \in Ending}

MCRequest == {<<"w", "SP", "w", "SP", "w", "LF", "LF">>, <<"w">>}

\* The requests parse() accepts; a definition without parameters is evaluated once.
Accepted == {r \in MCRequest : Parse(r).ok}
MCWellFormed == Accepted

MCInit ==
    /\ ProgramInit
    /\ IF program = "http" /\ pinned THEN input \in Input ELSE input = <<>>

MCNext == ProgramNext /\ input' = <<>>

MCSpec ==
    /\ MCInit
    /\ [][MCNext]_mcVars
    /\ WF_mcVars(ProducerRuns /\ input' = <<>>)
    /\ WF_mcVars(ConsumerRuns /\ input' = <<>>)
    /\ SF_mcVars(ProducerSwaps /\ input' = <<>>)
    /\ SF_mcVars(ConsumerSwaps /\ input' = <<>>)

\* parse() accepts exactly the requests that the grammar describes, and finds
\* their method, target, headers and body: its state machine neither splits
\* nor joins lines, whatever ends them, and never reads past the end.
ParserMeetsGrammar == input # <<>> => AgreesWithGrammar(input)
=============================================================================
