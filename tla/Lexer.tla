-------------------------------- MODULE Lexer --------------------------------
(***************************************************************************)
(* The scanner (lexer.l) on the pieces of a text that decide how it is cut *)
(* into tokens.  A piece is one character, except that a word (a keyword,  *)
(* or "x" for any identifier) and the mark of an operator ("=", "+" for    *)
(* the operators other than "-" and "/") are one piece each, set off from  *)
(* the words and marks next to them.  A text is a sequence of pieces.      *)
(***************************************************************************)
EXTENDS Naturals, Sequences

Blanks == {" ", "nl"}

Brackets == {"{", "}", "[", "]", "(", ")"}

Words == {"x", "fn", "let", "not", "if", "elif", "else", "while", "return"}

Marks == {";", ",", "=", "-", "+"}

Pieces == Blanks \union Brackets \union Words \union Marks
              \union {"quote", "backslash", "/", "ESC"}

(* The scanner between two pieces: the start condition of flex, refined by *)
(* what is being matched, the tokens returned so far, and whether the last *)
(* piece that is not blank was ignored: in a comment, or not matched by    *)
(* any rule of the scanner, as an escape character and, outside of a       *)
(* string, a backslash.                                                    *)
Unmatched == {"ESC", "backslash"}

Start == [mode |-> "INITIAL", tokens |-> <<>>, ignored |-> FALSE]

Emit(s, token) == [s EXCEPT !.tokens = Append(@, token)]

In(s, mode) == [s EXCEPT !.mode = mode]

Initial(s, c) ==
    CASE c = "quote" -> In(s, "STR")
      [] c = "/"     -> In(s, "slash")
      [] c \in Brackets \union Words \union Marks -> Emit(s, c)
      [] OTHER       -> s

(* A string drops its line breaks and takes the piece after a backslash as *)
(* it is, a quote too.  Two slashes are a comment, one is an operator.     *)
Match(s, c) ==
    CASE s.mode = "INITIAL" -> Initial(s, c)
      [] s.mode = "slash" /\ c = "/" -> In(s, "comment")
      [] s.mode = "slash" /\ c # "/" -> Initial(In(Emit(s, "/"), "INITIAL"), c)
      [] s.mode = "comment" -> IF c = "nl" THEN In(s, "INITIAL") ELSE s
      [] s.mode = "STR" /\ c = "quote" -> In(Emit(s, "str"), "INITIAL")
      [] s.mode = "STR" /\ c = "backslash" -> In(s, "escape")
      [] s.mode = "escape" -> In(s, "STR")
      [] OTHER -> s

Take(s, c) ==
    LET next == Match(s, c)
    IN  IF c \in Blanks THEN next
        ELSE [next EXCEPT !.ignored = next.mode = "comment" \/ c \in Unmatched]

Lex(text) ==
    LET after[i \in 0 .. Len(text)] ==
            IF i = 0 THEN Start ELSE Take(after[i - 1], text[i])
    IN  after[Len(text)]

(* The tokens yylex returns until the end of the text.  A string that is   *)
(* still open there is never returned.                                     *)
Tokens(text) == Lex(text).tokens

(* The text ends neither inside a string nor with what is ignored.         *)
Settled(text) == Lex(text).mode = "INITIAL" /\ ~ Lex(text).ignored

=============================================================================
