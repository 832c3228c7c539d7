------------------------------ MODULE Stackish ------------------------------
(***************************************************************************)
(* The Stackish parser of src/stackish/stackish.c, and Node_parse_seq of   *)
(* node.c that drives it.                                                  *)
(*                                                                         *)
(* A parser is a record: the store its nodes go to, root, current, the     *)
(* state cs of the machine, mark, more, and the position p of the next     *)
(* character.  out is set where the C code jumps to _out: the machine has  *)
(* then already changed to its next state, and p stays where it is.        *)
(*                                                                         *)
(* The states of the machine are named for what it is inside of: "main"    *)
(* (10, the only one is_finished accepts), "string" (2), "blob" (5, where  *)
(* only the closing quote may follow), "number" (14), "float" (11),        *)
(* "word" (13), "attr" (12) and "error" (0).  A number, a float, a word or *)
(* an attribute is handled when the character after it is read.            *)
(***************************************************************************)
EXTENDS Node

Lexemes == {"number", "float", "word", "attr"}

stackish_parser_init(st, from) ==
  [st |-> st, root |-> NULL, current |-> NULL, cs |-> "main", mark |-> 0,
   more |-> 0, p |-> from, out |-> FALSE]

stackish_parser_has_error(parser) == parser.cs = "error"
stackish_parser_is_finished(parser) == parser.cs = "main"

Stop(parser) == [parser EXCEPT !.out = TRUE]

-----------------------------------------------------------------------------
(* The handlers                                                             *)

handle_push(parser, type, value) ==
  IF /\ parser.current # NULL
     /\ parser.root # NULL
     /\ parser.st[parser.current].type = "group"
  THEN [parser EXCEPT !.st = Node_create(@, parser.current, type, value)]
  ELSE Stop(parser)

\* A word, or the NONAME of a closing bracket, names the current group.  The
\* document is done at the root; otherwise the parser moves up.
handle_word(parser, name) ==
  IF parser.root = NULL \/ parser.current = NULL THEN Stop(parser)
  ELSE LET named == [parser EXCEPT !.st = Node_name(@, parser.current, name)]
       IN  IF parser.current = parser.root THEN Stop(named)
           ELSE [named EXCEPT !.current = parser.st[parser.current].parent]

handle_group(parser) == handle_word(parser, NONAME)

handle_attr(parser, name) ==
  LET child == parser.st[parser.current].child
  IN  IF child = NULL THEN Stop(parser)
      ELSE [parser EXCEPT !.st = Node_name(@, child, name)]

handle_start(parser) ==
  LET st == Node_new_group(parser.st, parser.current)
  IN  [parser EXCEPT !.st = st, !.current = Len(st),
                     !.root = IF @ = NULL THEN Len(st) ELSE @]

\* What the character after a lexeme sets off: actions 1, 2, 6 and 9.
FinishLexeme(parser, buf, cs) ==
  LET value == buf[parser.mark].v
  IN  CASE cs \in {"number", "float"} -> handle_push(parser, cs, value)
        [] cs = "word" -> handle_word(parser, value)
        [] cs = "attr" -> handle_attr(parser, value)
        [] OTHER -> parser

-----------------------------------------------------------------------------
(* The machine                                                              *)

\* A lexeme may follow another one directly: what could extend the one
\* before is part of it.
NextState(cs, c) ==
  CASE cs = "string" -> IF c.k = "\"" THEN "main" ELSE "string"
    [] cs = "blob" -> IF c.k = "'" THEN "main" ELSE "error"
    [] c.k \in Lexemes -> c.k
    [] c.k = "\"" -> "string"
    [] c.k = "blob" -> "blob"
    [] c.k = "'" -> "error"
    [] OTHER -> "main"

MARK(parser, at) == [parser EXCEPT !.mark = at]

\* What the character itself sets off: actions 0, 3, 4, 5, 7 and 8.
Action(parser, buf, cs) ==
  LET c == buf[parser.p]
      text == SubSeq(buf, parser.mark, parser.p - 1)
  IN  CASE parser.out \/ parser.cs = "error" -> parser
        [] cs = "string" ->
             IF parser.cs = "main" THEN handle_push(parser, "string", text) ELSE parser
        [] cs = "blob" ->
             LET pushed == handle_push(parser, "blob", text)
             IN  IF pushed.out THEN pushed ELSE [pushed EXCEPT !.more = 0]
        [] c.k = "[" -> handle_start(parser)
        [] c.k = "]" -> handle_group(parser)
        [] c.k \in Lexemes -> MARK(parser, parser.p)
        [] c.k = "\"" -> MARK(parser, parser.p + 1)
        [] c.k = "blob" ->
             LET blob == [MARK(parser, parser.p + 1) EXCEPT !.more = c.v]
             IN  IF c.v > 0 THEN Stop(blob) ELSE blob
        [] OTHER -> parser

\* One turn of the loop from _resume to _again.
stackish_parser_step(parser, buf) ==
  LET cs == parser.cs
      moved == [parser EXCEPT !.cs = NextState(cs, buf[parser.p])]
      done == Action(IF moved.cs = "error" THEN moved
                     ELSE FinishLexeme(moved, buf, cs), buf, cs)
  IN  IF done.out \/ done.cs = "error" THEN Stop(done)
      ELSE [done EXCEPT !.p = @ + 1]

-----------------------------------------------------------------------------
(* Node_parse_seq                                                           *)

\* The machine stopped at the length of a blob: the parser skips its bytes
\* and goes on at the closing quote.
MoreToRead(parser, buf) ==
  /\ parser.more > 0
  /\ ~stackish_parser_is_finished(parser)
  /\ parser.p <= Len(buf)

SkipBlob(parser) == [parser EXCEPT !.p = @ + parser.more + 1, !.out = FALSE]

Stopped(parser, buf) == parser.out \/ parser.p > Len(buf)

RECURSIVE SkipNewlines(_, _)
SkipNewlines(buf, from) ==
  IF from <= Len(buf) /\ buf[from].k = "\n" THEN SkipNewlines(buf, from + 1)
  ELSE from

\* Where the next document of the buffer starts, once this one is parsed.
NextFrom(parser, buf) ==
  IF stackish_parser_has_error(parser) THEN parser.p + 1
  ELSE SkipNewlines(buf, parser.p + 1)

\* The tree that is returned, complete or not.
Parsed(parser) == IF stackish_parser_has_error(parser) THEN NULL ELSE parser.root

RECURSIVE Execute(_, _)
Execute(parser, buf) ==
  IF ~Stopped(parser, buf) THEN Execute(stackish_parser_step(parser, buf), buf)
  ELSE IF ~stackish_parser_has_error(parser) /\ MoreToRead(parser, buf)
       THEN Execute(SkipBlob(parser), buf)
       ELSE parser

\* A buffer that does not end in a blank is refused before it is read.
EndsInBlank(buf) == buf # <<>> /\ Last(buf).k \in {Sep.k, "\n"}

Node_parse_seq(st, buf, from) ==
  LET parser == stackish_parser_init(st, from)
  IN  IF EndsInBlank(buf) THEN Execute(parser, buf) ELSE [parser EXCEPT !.cs = "error"]

=============================================================================
