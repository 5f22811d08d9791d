------------------------------- MODULE HttpDef -------------------------------
(***************************************************************************)
(* RequestParser and ReplyParser of http/HttpDef.cpp, as operators on a    *)
(* parser and the bytes that wait in a connection's read buffer.           *)
(*                                                                         *)
(* A byte stands for itself where the code looks at it (blank, CR, LF) and *)
(* for one or more of a word where it does not: a word is short, but long  *)
(* enough to be cut before its first byte, after it, and before its end.   *)
(* std::find answers end, never nullptr, so a piece without its delimiter  *)
(* is taken for a whole one, and `begin' is then one past the end.         *)
(***************************************************************************)
EXTENDS Integers, SequencesExt

SP == "SP"
CR == "CR"
LF == "LF"
EOL == <<CR, LF>>

Method == <<"G", "ET">>
Version == <<"H", "TTP/1.1">>
StatusOk == <<"2", "00">>
KeepAlive == <<"C", "onnection: keep-alive">>

Number == [s \in {"0", "1", "2"} |-> CASE s = "0" -> 0 [] s = "1" -> 1 [] s = "2" -> 2]
Numeral(n) == CHOOSE s \in DOMAIN Number : Number[s] = n
ContentLength(n) == <<"L", Numeral(n)>>

-----------------------------------------------------------------------------
(* Messages, as toString() and other programs write them, line by line.    *)

Request(uri, headers) ==
    <<Method \o <<SP, uri, SP>> \o Version \o EOL>>
    \o [i \in DOMAIN headers |-> headers[i] \o EOL]
    \o <<EOL>>

\* A reply is a status line, a line with its length, an empty line and a body.
StatusLine == Version \o <<SP>> \o StatusOk \o <<SP, "Ok">> \o EOL
LengthLine(n) == ContentLength(n) \o EOL

-----------------------------------------------------------------------------
(* A parser: its progress_, its bytes_, what it has found so far, and the  *)
(* local `begin' of parse(), as an offset.                                 *)

NewParser(progress) ==
    [progress |-> progress, bytes |-> 0, uri |-> <<>>, headers |-> {},
     content |-> <<>>, begin |-> 0]

\* clear() of the two parsers.
NewRequest == NewParser("Method")
NewReply == NewParser("Starting")

\* An assertion has failed or an exception has left the loop: the process ends.
Dies(p) == p.progress = "Aborted"

isError(p) ==
    p.progress \in {"InvalidMethod", "InvalidURI", "InvalidVersion", "InvalidHeader"}

isGood(p) == p.progress = "Good"

\* std::find from begin on, as an offset.
Find(buf, begin, c) ==
    LET at == {i \in begin + 1 .. Len(buf) : buf[i] = c}
    IN IF at = {} THEN Len(buf) ELSE Min(at) - 1

\* (A CR at the end of a line is not part of it.)
Stripped(buf, finish) ==
    IF finish > 0 /\ buf[finish] = CR THEN finish - 1 ELSE finish

Text(buf, begin, last) == SubSeq(buf, begin + 1, last)

To(p, progress) == [p EXCEPT !.progress = progress]

\* bytes_ += ++finish - begin; begin = finish
Past(p, finish) ==
    [p EXCEPT !.bytes = @ + finish + 1 - p.begin, !.begin = finish + 1]

\* The text up to the next c.
LastOf(p, buf, c) ==
    LET finish == Find(buf, p.begin, c)
    IN IF c = LF THEN Stripped(buf, finish) ELSE finish
Word(p, buf, c) == Text(buf, p.begin, LastOf(p, buf, c))

\* One piece that ends with c: stored if the parser's function for it finds it
\* good, left with the answer `bad' if not.  The functions assert begin <= end.
Piece(p, buf, c, good, bad, stored, next) ==
    CASE p.begin > LastOf(p, buf, c) -> To(p, "Aborted")
      [] p.begin <= LastOf(p, buf, c) /\ ~good -> To(p, bad)
      [] OTHER -> To(Past(stored, Find(buf, p.begin, c)), next)

\* F(v), for TLC: with v evaluated once.
Of(F(_), v) == CHOOSE y \in {F(x) : x \in {v}} : TRUE

\* (Mutant of HeaderLine: the end of the head is not seen.)
LineNoEnd(p, buf, next) ==
    IF p.begin = Len(buf) THEN p
    ELSE To(Past(p, Find(buf, p.begin, LF)), "Headers")

\* A line of the head, or the empty one (or one of a single byte) at its end.
HeaderLine(p, buf, next) ==
    LET finish == Find(buf, p.begin, LF)
        stored == [p EXCEPT !.headers = @ \cup {Word(p, buf, LF)}]
    IN  CASE p.progress # "Headers" \/ p.begin = Len(buf) -> p
          [] p.progress = "Headers" /\ p.begin # Len(buf)
             /\ finish \in {p.begin, p.begin + 1} -> To(Past(p, finish), next)
          [] OTHER -> Piece(p, buf, LF, TRUE, "InvalidHeader", stored, "Headers")

\* All its lines: each takes a byte, and the last may fail.
Headers(p, buf, next) ==
    LET after[n \in 0 .. Len(buf) + 1] ==
            IF n = 0 THEN p
            ELSE Of(LAMBDA q : HeaderLine(q, buf, next), after[n - 1])
    IN  after[Len(buf) + 1]

-----------------------------------------------------------------------------
(* RequestParser.                                                           *)

ParseMethod(p, buf) ==
    Piece(p, buf, SP, Word(p, buf, SP) = Method, "InvalidMethod", p, "URI")

\* (The words of these messages hold no '%' and no '?', where the code decodes
\* the text and cuts it.)
ParseURI(p, buf) ==
    Piece(p, buf, SP, TRUE, "InvalidURI",
          [p EXCEPT !.uri = Word(p, buf, SP)], "Version")

ParseHttpVersion(p, buf, next) ==
    LET c == IF next = "Status" THEN SP ELSE LF
    IN Piece(p, buf, c, Word(p, buf, c) = Version, "InvalidVersion", p, next)

\* p goes through a stage of the switch if it is the stage's turn.
Then(p, stage, Stage(_)) ==
    Of(LAMBDA q : IF q.progress = stage THEN Stage(q) ELSE q, p)

\* RequestParser::parse.
ParseRequest(parser, buf) ==
    LET p1 == [parser EXCEPT !.begin = 0]
        p2 == Then(p1, "Method", LAMBDA p : ParseMethod(p, buf))
        p3 == Then(p2, "URI", LAMBDA p : ParseURI(p, buf))
        p4 == Then(p3, "Version", LAMBDA p : ParseHttpVersion(p, buf, "Headers"))
    IN Then(p4, "Headers", LAMBDA p : Headers(p, buf, "Good"))

-----------------------------------------------------------------------------
(* ReplyParser.                                                             *)

\* stoi throws when there is nothing; an unknown status is no error, and no
\* progress.
ParseStatus(p, buf) ==
    Piece(p, buf, SP, Word(p, buf, SP) = StatusOk,
          IF Word(p, buf, SP) = <<>> THEN "Aborted" ELSE "Status",
          p, "StatusString")

\* (ParseStatusString asserts nothing about begin and end.)
ParseStatusString(p, buf) == To(Past(p, Find(buf, p.begin, LF)), "Headers")

\* The case ParsingBody, which ParsingHeaders falls into also when the head is
\* not complete.  stoi throws when there is no length.
ParseBody(p, buf) ==
    LET lengths == {h \in p.headers : Len(h) = 2 /\ h[1] = "L"}
    IN IF lengths = {} THEN To(p, "Aborted")
       ELSE LET len == Number[(CHOOSE h \in lengths : TRUE)[2]]
            IN CASE len = 0 -> To(p, "Good")
                 [] len > 0 /\ Len(buf) - p.begin < len -> p
                 [] OTHER ->
                      [To(p, "Good") EXCEPT
                          !.bytes = @ + len,
                          !.content = @ \o Text(buf, p.begin, p.begin + len)]

\* ReplyParser::parse.
ParseReply(parser, buf) ==
    LET p0 == [parser EXCEPT !.begin = 0]
        p1 == Then(p0, "Starting", LAMBDA p : To(p, "StatusVersion"))
        p2 == Then(p1, "StatusVersion", LAMBDA p : ParseHttpVersion(p, buf, "Status"))
        p3 == Then(p2, "Status", LAMBDA p : ParseStatus(p, buf))
        p4 == Then(p3, "StatusString", LAMBDA p : ParseStatusString(p, buf))
        p5 == Then(p4, "Headers", LAMBDA p : Headers(p, buf, "Body"))
    IN Of(LAMBDA p : IF p.progress \in {"Headers", "Body"} THEN ParseBody(p, buf) ELSE p,
          p5)
=============================================================================
