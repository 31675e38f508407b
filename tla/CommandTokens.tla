---------------------------- MODULE CommandTokens ----------------------------
(***************************************************************************)
(* A command line: a sequence of words and flags.  A flag holds its value  *)
(* inline (--name=value), or takes the next token.                         *)
(***************************************************************************)
EXTENDS Naturals, Sequences, SequencesExt

\* A flag is named without its dashes, but "-p" has one letter, and "--"
\* ends the flags.
Word(text) == [flag |-> "", text |-> text, inline |-> <<>>]
Flag(name) == [flag |-> name, text |-> "", inline |-> <<>>]
FlagWith(name, value) == [flag |-> name, text |-> "", inline |-> <<value>>]
IsWord(token) == token.flag = ""
Alone(token) == token.inline = <<>>
\* A token's text when it is a value.
Text(token) ==
  CASE IsWord(token) -> token.text
    [] token.flag \in {"--", "-h", "-o", "-p", "-e", "-q", "-y"} -> token.flag
    [] OTHER -> "--" \o token.flag \o (IF Alone(token) THEN "" ELSE "=" \o token.inline[1])

\* The places of the tokens that are no values, where Takes tells the flags
\* that take the next token.
Places(line, Takes(_)) ==
  LET value[i \in 0 .. Len(line)] == i > 1 /\ ~value[i - 1] /\ Takes(line[i - 1])
  IN  {i \in DOMAIN line : ~value[i]}
InOrder(line, places) ==
  LET order == SelectSeq([i \in DOMAIN line |-> i], LAMBDA i : i \in places)
  IN  [k \in DOMAIN order |-> line[order[k]]]
Texts(tokens) == [k \in DOMAIN tokens |-> Text(tokens[k])]

\* The place of the first "--", or behind the line; the flags before it; and
\* the words, before it or behind.
Stop(line, places) == Min({i \in places : line[i].flag = "--"} \cup {Len(line) + 1})
PartsUntil(line, places, stop) ==
  [flags |-> {i \in places : i < stop /\ ~IsWord(line[i])},
   words |-> {i \in places : i < stop /\ IsWord(line[i])} \cup {i \in DOMAIN line : i > stop}]
Parts(line, places) == PartsUntil(line, places, Stop(line, places))
==============================================================================
