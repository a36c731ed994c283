----------------------------- MODULE CommandLine -----------------------------
(***************************************************************************)
(* The words of a command line as the parsers of the programs see them.    *)
(* A text is a record [word, number]: a number alone has the word "", an   *)
(* endpoint word:number has both, and any other word has the number -1.    *)
(* Negative numbers also stand for digits std::from_chars cannot read.     *)
(*                                                                         *)
(* A line is a sequence of pairs of words, an option and its value, and    *)
(* possibly one more word, last, that has no partner.                      *)
(***************************************************************************)
EXTENDS Integers, Sequences, SequencesExt

CONSTANTS
  Addresses,        \* the words inet_pton reads as IPv4 addresses
  NumberMax,        \* the largest std::uint64_t, and std::size_t
  PortMax           \* the largest std::uint16_t

ASSUME CommandLineAssumption ==
  /\ {"0.0.0.0", "127.0.0.1"} \subseteq Addresses
  /\ NumberMax \in Nat /\ PortMax \in 1..NumberMax

Absent == -1        \* std::nullopt

\* What std::from_chars reads into an unsigned integer from the whole text.
IsUnsigned(text) == text.word = "" /\ text.number \in 0..NumberMax

IsPositive(text) == IsUnsigned(text) /\ text.number # 0

Endpoint(word, number) == [address |-> word, port |-> number]

Complete(line) == line.last = "none"

\* The values given to an option, in order.
Given(line, option) ==
  LET Collect(values, pair) ==
        IF pair.option = option THEN Append(values, pair.value) ELSE values
  IN  FoldLeft(Collect, <<>>, line.pairs)

\* The value of an option that was given at most once.
GivenOr(line, option, default) ==
  IF Given(line, option) = <<>> THEN default ELSE Given(line, option)[1]
=============================================================================
