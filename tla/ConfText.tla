------------------------------ MODULE ConfText ------------------------------
(***************************************************************************)
(* The text of a configuration file, conf.txt, and what read_cfg()         *)
(* (src/main/fmb630.c:412-538) makes of it.                                *)
(*                                                                         *)
(* A file is a beginning of a file somebody wrote: the first n lines of    *)
(* it, and perhaps a part of the next one that read_cfg takes for a whole  *)
(* line (`period_park=3' of `period_park=30'); a part of which read_cfg    *)
(* makes nothing is not kept apart from no part.                           *)
(* A line sets one parameter or adds one entry to the list of scenarios;   *)
(* comments and lines of up to five characters are left out.               *)
(***************************************************************************)
EXTENDS Integers, Sequences, FiniteSets

CONSTANTS
  Params,   \* names of the parameters: eight in the code
  Need,     \* parameter lines a file must have: 7 in the code
  Files,    \* the files somebody wrote
  Lines     \* Lines[f] is the sequence of the lines of file f

Entry  == "#"        \* a line of the list of scenarios
NoName == "no file"

ASSUME ConfAssumption ==
  /\ IsFiniteSet(Params) /\ Entry \notin Params /\ NoName \notin Files
  /\ Need \in Nat \ {0}
  /\ Lines \in [Files -> Seq(Params \cup {Entry})]

\* A file as it is on a medium.  A part of a line can only be followed by nothing.
Text(f, n, part) == [of |-> f, n |-> n, part |-> part]
Whole(f)  == Text(f, Len(Lines[f]), "none")
Empty(f)  == Text(f, 0, "none")
Absent    == Text(NoName, 0, "none")
Parts     == {"none", "taken"}
TextsOf(f) == {Whole(f)} \cup {Text(f, n, part) : n \in 0..Len(Lines[f]) - 1, part \in Parts}
Texts      == (UNION {TextsOf(f) : f \in Files}) \cup {Absent}

\* What may be left of a file when writing it, or reading it, stops early.
Cut(c) ==
  IF c = Absent THEN {Absent}
  ELSE {x \in TextsOf(c.of) : x.n < c.n} \cup {c, Text(c.of, c.n, "none")}

(***************************************************************************)
(* read_cfg.                                                               *)
(***************************************************************************)
\* The numbers of the lines that fgets() returns and the code can make use of.
Read(c) == 1..c.n + (IF c.part = "taken" THEN 1 ELSE 0)

\* cnt: a parameter that is set twice is counted twice.
Count(c) == Cardinality({i \in Read(c) : Lines[c.of][i] \in Params})

\* if (cnt >= 7)
Accepted(c) == Count(c) >= Need

\* Values of a parameter: the file it is from, zero, cut short, or the default.
Values  == Files \cup {"zero", "cut", "default"}
Default == [p \in Params |-> "default"]

\* The local copy cnf: the last line of a parameter gives its value, none leaves zero.
Value(c, p) ==
  LET set == {i \in Read(c) : Lines[c.of][i] = p}
  IN  IF set = {} THEN "zero" ELSE IF c.n + 1 \in set THEN "cut" ELSE c.of

Parsed(c) == [p \in Params |-> Value(c, p)]

\* add_ones() for every entry, in the order of the file.
EntryLines(c) == {i \in Read(c) : Lines[c.of][i] = Entry}
EntryLine(c, k) ==
  CHOOSE i \in EntryLines(c) : Cardinality({j \in EntryLines(c) : j <= i}) = k
Entries(c) ==
  [k \in 1..Cardinality(EntryLines(c)) |-> [of |-> c.of, line |-> EntryLine(c, k)]]

\* Mutant: the lines are parsed into the configuration itself.
ReadCfgInPlace(cf, list, c) ==
  [err |-> ~Accepted(c), list |-> list \o Entries(c),
   cf  |-> [p \in Params |-> IF Value(c, p) = "zero" THEN cf[p] ELSE Value(c, p)]]

\* What read_cfg returns, and what it makes of the configuration and of the list: the
\* configuration is only replaced by a file that has enough parameters, the
\* list is extended line by line.
ReadCfg(cf, list, c) ==
  [err |-> ~Accepted(c), list |-> list \o Entries(c),
   cf  |-> IF Accepted(c) THEN Parsed(c) ELSE cf]
=============================================================================
