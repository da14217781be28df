-------------------------------- MODULE Repl --------------------------------
(***************************************************************************)
(* The interactive loop of src/main.cpp: lines are collected in a buffer   *)
(* until isInputComplete accepts it; the buffer then goes through a fresh  *)
(* scanner and parser, and what parses goes to the interpreter (module     *)
(* Interpreter, whose Submit is the accept() of this loop).                *)
(***************************************************************************)
EXTENDS Lexer, Grammar, Integers, FiniteSets

CONSTANTS
    Lines,      \* the lines a user may type
    MaxBuffer   \* bound on the pieces the buffer holds

ASSUME LinesAssumption == /\ MaxBuffer \in Nat
                          /\ Lines \subseteq Seq(Pieces)

VARIABLES
    mode,          \* "run", "exit", or the signal that ended the process
    phase,         \* "read" a line, "parse" the buffer, or "accept" its tree
    buffer,
    continuation

vars == <<mode, phase, buffer, continuation>>

Init == mode = "run" /\ phase = "read" /\ buffer = <<>> /\ continuation = FALSE

-----------------------------------------------------------------------------
(* isInputComplete.                                                        *)

Closing == [b \in {"{", "[", "("} |->
               CASE b = "{" -> "}" [] b = "[" -> "]" [] b = "(" -> ")"]

NoBalance == [b \in DOMAIN Closing |-> 0]

Count(balance, c) ==
    [b \in DOMAIN Closing |-> balance[b] + (IF c = b THEN 1 ELSE 0)
                                         - (IF c = Closing[b] THEN 1 ELSE 0)]

ScanStart == [balance |-> NoBalance, in_string |-> FALSE,
              in_comment |-> FALSE, skip |-> FALSE]

(* The loop moves on by two after an escape and after the slashes that     *)
(* begin a comment.                                                        *)
SkipsNext(input, i, s) ==
    IF s.in_string THEN input[i] = "backslash"
    ELSE input[i] = "/" /\ i < Len(input) /\ input[i + 1] = "/"

Escaped(input, s, i) ==
    [s EXCEPT !.in_string = input[i] # "quote", !.skip = SkipsNext(input, i, s)]

Counted(input, s, i) ==
    [s EXCEPT !.in_string = input[i] = "quote",
              !.in_comment = SkipsNext(input, i, s),
              !.skip = SkipsNext(input, i, s),
              !.balance = Count(@, input[i])]

(* MUTANT: brackets are counted inside comments.                           *)
ScanCharInComments(input, s, i) ==
    IF s.skip THEN [s EXCEPT !.skip = FALSE]
    ELSE IF s.in_string THEN Escaped(input, s, i)
    ELSE [Counted(input, s, i) EXCEPT !.in_comment = FALSE, !.skip = FALSE]

ScanChar(input, s, i) ==
    IF s.skip THEN [s EXCEPT !.skip = FALSE]
    ELSE IF s.in_comment THEN [s EXCEPT !.in_comment = input[i] # "nl"]
    ELSE IF s.in_string THEN Escaped(input, s, i)
    ELSE Counted(input, s, i)

Scan(input) ==
    LET after[i \in 0 .. Len(input)] ==
            IF i = 0 THEN ScanStart ELSE ScanChar(input, after[i - 1], i)
    IN  after[Len(input)]

(* MUTANT: only a semicolon ends an input.                                 *)
EndsNeedSemicolon == {";"}

Ends == {";", "}"}

(* An open string is not looked at, and neither is whether the last piece  *)
(* belongs to a comment.                                                   *)
isInputComplete(input) ==
    LET inked == {i \in DOMAIN input : input[i] \notin Blanks}
    IN  /\ Scan(input).balance = NoBalance
        /\ \A i \in inked : (\A j \in inked : j <= i) => input[i] \in Ends

-----------------------------------------------------------------------------
(* The loop.                                                               *)

Reading == mode = "run" /\ phase = "read"

Cancels(line) == continuation /\ (line # <<>> => line[1] = "ESC")

(* An empty line, or one that begins with an escape, drops the buffer.     *)
Cancel(line) ==
    /\ Reading /\ Cancels(line)
    /\ buffer' = <<>> /\ continuation' = FALSE
    /\ UNCHANGED <<mode, phase>>

ReadLine(line) ==
    /\ Reading /\ ~ Cancels(line)
    /\ Len(buffer) + Len(line) < MaxBuffer
    /\ buffer' = Append(buffer \o line, "nl")
    /\ IF isInputComplete(buffer')
       THEN phase' = "parse" /\ UNCHANGED continuation
       ELSE continuation' = TRUE /\ UNCHANGED phase
    /\ UNCHANGED mode

EndOfInput ==
    /\ Reading
    /\ mode' = "exit"
    /\ UNCHANGED <<phase, buffer, continuation>>

Program == Tokens(buffer)

(* MUTANT: the buffer is not cleared.                                      *)
AnsweredUncleared ==
    /\ phase' = "read"
    /\ continuation' = FALSE
    /\ UNCHANGED <<mode, buffer>>

(* The end of the loop's body.                                             *)
Answered ==
    /\ phase' = "read"
    /\ buffer' = <<>> /\ continuation' = FALSE
    /\ UNCHANGED mode

(* parser.parse(), outside of any try block.  What derives without an      *)
(* error rule yields a tree.  Of other texts error recovery may save some: *)
(* either outcome is possible.  The rule for a function literal without a  *)
(* return type throws, and nothing catches it.                             *)
ParseSucceeds ==
    /\ mode = "run" /\ phase = "parse"
    /\ Derives(Program) => ~ HasUntypedFn(Program)
    /\ phase' = "accept"
    /\ UNCHANGED <<mode, buffer, continuation>>

ParseFails ==
    /\ mode = "run" /\ phase = "parse"
    /\ ~ Derives(Program)
    /\ Answered

ParseThrows ==
    /\ mode = "run" /\ phase = "parse"
    /\ HasUntypedFn(Program)
    /\ mode' = "SIGABRT"
    /\ UNCHANGED <<phase, buffer, continuation>>

(* accept() returns or throws, inside the try block.  (How the interpreter *)
(* can end the process is in module Interpreter.)                          *)
AcceptReturns == mode = "run" /\ phase = "accept" /\ Answered

(* The process has ended.                                                  *)
Ended == mode # "run" /\ UNCHANGED vars

Next == \/ \E line \in Lines : Cancel(line) \/ ReadLine(line)
        \/ EndOfInput
        \/ ParseSucceeds \/ ParseFails \/ ParseThrows \/ AcceptReturns
        \/ Ended

Spec == Init /\ [][Next]_vars

-----------------------------------------------------------------------------
(* Properties.                                                             *)

(* The prompt is "..." exactly when an unfinished input is being kept.     *)
TypeOK ==
    /\ mode \in {"run", "exit", "SIGABRT"}
    /\ phase \in {"read", "parse", "accept"}
    /\ buffer \in Seq(Pieces)
    /\ phase = "read" => (continuation = (buffer # <<>>))

Occurrences(tokens, k) == Cardinality({i \in DOMAIN tokens : tokens[i] = k})

(* Balanced: isInputComplete scans characters with rules of its own, and   *)
(* lexer.l cuts tokens with others; whatever strings, escapes and comments *)
(* do to the two, the tokens of a buffer that goes to the parser have as   *)
(* many closing brackets of each kind as opening ones.                     *)
Balanced ==
    phase = "parse" =>
        \A b \in DOMAIN Closing :
            Occurrences(Program, b) = Occurrences(Program, Closing[b])

(* NothingWithheld: the REPL never keeps asking for more when what it      *)
(* holds is already a program of grammar.y, unless the last thing typed is *)
(* ignored by the scanner (a comment) or a string that is still open.      *)
NothingWithheld ==
    Reading /\ continuation /\ Settled(buffer) => ~ Derives(Program)

(* ErrorsAnswered: "The driver prints error messages and continues in REPL *)
(* mode" (Compiler Phases.md:343): no text typed ends the process.         *)
ErrorsAnswered == mode # "SIGABRT"

=============================================================================
