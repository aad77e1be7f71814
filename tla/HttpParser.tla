----------------------------- MODULE HttpParser -----------------------------
(***************************************************************************)
(* cre::transport::http_parser::parse (include/conduit/transport/http.hpp):*)
(* a state machine that reads a request byte by byte and records where its *)
(* parts are.  A byte is one of the bytes parse() tells apart, or a word   *)
(* that stands for the letters of a token; a view is the bytes it covers.  *)
(* Grammar, at the end, says what a request is without a state machine.    *)
(***************************************************************************)
EXTENDS Integers, Sequences, SequencesExt

CONSTANTS
    MAX_HEADERS,         \* headers an event can hold
    MaxKeyLength         \* the longest key that parse() accepts

Break == {"CR", "LF"}
Blank == {"SP", "TAB"}
NotInKey == Break \cup Blank \cup {"NUL", "HIGH"}   \* <= 0x20 or >= 0x7f
TransferEncoding == {"Transfer-Encoding", "transfer-encoding"}
Chunked == {"chunked", "Chunked"}

\* string_view(raw_buffer + from, to - from), with positions counted from 1.
View(raw, from, to) == SubSeq(raw, from, to - 1)

\* The locals of parse() and the event it fills; key is that of the header
\* whose value is being read.
Start ==
    [i |-> 1, current_state |-> "METHOD", token_start |-> 1, saw_colon |-> FALSE,
     key |-> <<>>, verdict |-> "none",
     ev |-> [method |-> <<>>, uri |-> <<>>, headers |-> <<>>, body |-> <<>>]]

Reject(p) == [p EXCEPT !.verdict = "false"]

Method(raw, p) ==
    CASE raw[p.i] # "SP" -> p
      [] p.i = p.token_start -> Reject(p)
      [] OTHER -> [p EXCEPT !.ev.method = View(raw, p.token_start, p.i),
                            !.token_start = p.i + 1, !.current_state = "URI"]

UriWithBreaks(raw, p) ==
    CASE raw[p.i] # "SP" -> p
      [] p.i = p.token_start -> Reject(p)
      [] OTHER -> [p EXCEPT !.ev.uri = View(raw, p.token_start, p.i),
                            !.token_start = p.i + 1, !.current_state = "VERSION"]

Uri(raw, p) ==
    CASE raw[p.i] \in Break -> Reject(p)
      [] raw[p.i] # "SP" -> p
      [] p.i = p.token_start -> Reject(p)
      [] OTHER -> [p EXCEPT !.ev.uri = View(raw, p.token_start, p.i),
                            !.token_start = p.i + 1, !.current_state = "VERSION"]

Version(raw, p) ==
    CASE raw[p.i] # "LF" -> p
      [] View(raw, p.token_start, p.i) \in {<<>>, <<"CR">>} -> Reject(p)
      [] OTHER -> [p EXCEPT !.token_start = p.i + 1, !.current_state = "HEADER_KEY"]

\* May the header that has this key follow the headers already read?
KeyAllowed(p, key) ==
    /\ Len(p.ev.headers) < MAX_HEADERS
    /\ Len(key) \in 1 .. MaxKeyLength
    /\ p.ev.headers # <<>> => ~(Last(p.ev.headers).key = <<"Host">> /\ key = <<"injected">>)
    /\ \A k \in 1 .. Len(key) : key[k] \notin NotInKey

HeaderKey(raw, p) ==
    LET key  == View(raw, p.token_start, p.i)
        crlf == raw[p.i] = "CR" /\ p.i < Len(raw) /\ raw[p.i + 1] = "LF"
        n    == IF crlf THEN 1 ELSE 0
    IN  CASE raw[p.i] \in Break /\ p.i = p.token_start ->
               [p EXCEPT !.current_state = "BODY", !.token_start = p.i + n + 1, !.i = p.i + n]
          [] raw[p.i] \in Break -> IF p.saw_colon THEN p ELSE Reject(p)
          [] raw[p.i] = "COLON" ->
               IF ~KeyAllowed(p, key) THEN Reject(p)
               ELSE [p EXCEPT !.key = key, !.token_start = p.i + 1, !.saw_colon = TRUE,
                              !.current_state = "HEADER_VALUE"]
          [] OTHER -> p

\* The value without the blanks around it.
Trim(s) ==
    LET kept == {k \in 1 .. Len(s) : s[k] \notin Blank}
    IN  IF kept = {} THEN <<>>
        ELSE SubSeq(s, CHOOSE k \in kept : \A l \in kept : k <= l,
                       CHOOSE k \in kept : \A l \in kept : k >= l)

\* A header line up to its line feed: one carriage return before that goes first.
TrimValue(s) == Trim(IF s # <<>> /\ Last(s) = "CR" THEN Front(s) ELSE s)

ValueAllowed(key, value) ==
    /\ \A k \in 1 .. Len(value) : value[k] \notin Break
    /\ ~(/\ Len(key) = 1 /\ key[1] \in TransferEncoding
         /\ \E k \in 1 .. Len(value) : value[k] \in Chunked)

HeaderValue(raw, p) ==
    LET value == TrimValue(View(raw, p.token_start, p.i))
    IN  CASE raw[p.i] # "LF" -> p
          [] ~ValueAllowed(p.key, value) -> Reject(p)
          [] OTHER ->
               [p EXCEPT !.ev.headers = Append(@, [key |-> p.key, value |-> value]),
                         !.token_start = p.i + 1, !.saw_colon = FALSE,
                         !.current_state = "HEADER_KEY"]

\* The rest without leading line breaks, and without a final NUL.
BodyOf(rest) ==
    LET kept == {k \in 1 .. Len(rest) : rest[k] \notin Break}
        body == IF kept = {} THEN <<>>
                ELSE SubSeq(rest, CHOOSE k \in kept : \A l \in kept : k <= l, Len(rest))
    IN  IF body # <<>> /\ Last(body) = "NUL" THEN Front(body) ELSE body

Body(raw, p) ==
    [p EXCEPT !.ev.body = BodyOf(View(raw, p.token_start, Len(raw) + 1)),
              !.current_state = "DONE", !.verdict = "true"]

\* The switch on current_state.  DONE is never met: Body returns.
Step(raw, p) ==
    CASE p.current_state = "METHOD" -> Method(raw, p)
      [] p.current_state = "URI" -> Uri(raw, p)
      [] p.current_state = "VERSION" -> Version(raw, p)
      [] p.current_state = "HEADER_KEY" -> HeaderKey(raw, p)
      [] p.current_state = "HEADER_VALUE" -> HeaderValue(raw, p)
      [] p.current_state = "BODY" -> Body(raw, p)

RECURSIVE Loop(_, _)
Loop(raw, p) ==
    IF p.verdict # "none" \/ p.i > Len(raw) THEN p
    ELSE Loop(raw, [Step(raw, p) EXCEPT !.i = @ + 1])

\* parse(raw, length, ev): the verdict and the event.  A request may end with
\* its empty line.
Parse(raw) ==
    LET p == Loop(raw, Start)
    IN  [ok |-> p.verdict = "true" \/ (p.verdict = "none" /\ p.current_state = "BODY"),
         ev |-> p.ev]

----------------------------------------------------------------------------
\* The first position from k on that holds one of these bytes; past the end if none.
First(raw, bytes, k) ==
    CHOOSE f \in k .. Len(raw) + 1 :
        /\ f <= Len(raw) => raw[f] \in bytes
        /\ \A g \in k .. f - 1 : raw[g] \notin bytes

\* The request that the bytes are, as positions of its parts: the two spaces
\* and the end of the request line, then lines up to the first that begins with a
\* line break.  Each of them has a key, a colon and a value.
Grammar(raw) ==
    LET n == Len(raw)
        space == First(raw, {"SP"}, 1)
        stop  == First(raw, {"SP"} \cup Break, space + 1)
        eol   == First(raw, {"LF"}, stop + 1)
        begin == {eol + 1} \cup {k + 1 : k \in {l \in eol + 1 .. n : raw[l] = "LF"}}
        empty == {k \in begin : k <= n /\ raw[k] \in Break}
        last  == CHOOSE k \in empty : \A l \in empty : k <= l
        lines == SetToSortSeq({k \in begin : k < last}, LAMBDA a, b : a < b)
        colon(k) == First(raw, {"COLON", "LF"}, k)
        key(k)   == View(raw, k, colon(k))
        val(k)   == TrimValue(View(raw, colon(k) + 1, First(raw, {"LF"}, k)))
    IN  IF /\ space \in 2 .. n
           /\ stop \in space + 2 .. n /\ raw[stop] = "SP"
           /\ eol <= n /\ View(raw, stop + 1, eol) \notin {<<>>, <<"CR">>}
           /\ empty # {}
           /\ Len(lines) <= MAX_HEADERS
           /\ \A h \in 1 .. Len(lines) :
                 /\ raw[colon(lines[h])] = "COLON"
                 /\ Len(key(lines[h])) \in 1 .. MaxKeyLength
                 /\ \A k \in 1 .. Len(key(lines[h])) : key(lines[h])[k] \notin NotInKey
                 /\ ValueAllowed(key(lines[h]), val(lines[h]))
                 /\ h > 1 => <<key(lines[h - 1]), key(lines[h])>> # <<<<"Host">>, <<"injected">>>>
        THEN [ok |-> TRUE,
              ev |-> [method |-> View(raw, 1, space), uri |-> View(raw, space + 1, stop),
                      headers |-> [h \in 1 .. Len(lines) |->
                          [key |-> key(lines[h]), value |-> val(lines[h])]],
                      body |-> BodyOf(View(raw, last, n + 1))]]
        ELSE [ok |-> FALSE]

\* parse() accepts exactly the requests of the grammar, and finds their parts.
AgreesWithGrammar(raw) ==
    /\ Parse(raw).ok = Grammar(raw).ok
    /\ Parse(raw).ok => Parse(raw).ev = Grammar(raw).ev
=============================================================================
