-------------------------------- MODULE MCTools ---------------------------------
(* Small instances of Tools for TLC.  The expressions are written from     *)
(* their trees, with the parentheses the usual precedences ask for.        *)
EXTENDS Tools

CONSTANTS MaxNodes   \* of an expression's tree

RECURSIVE Trees(_)
Trees(n) ==
  IF n = 1 THEN {<<"1">>}
  ELSE {<<"f", a>> : a \in Trees(n - 1)} \cup {<<"-", <<"0">>, a>> : a \in Trees(n - 1)}
       \cup UNION {{<<op, a, b>> : op \in {"-", "*", "^"}, a \in Trees(k), b \in Trees(n - 1 - k)}
                   : k \in 1..(n - 2)}

SmallTrees == UNION {Trees(n) : n \in 1..MaxNodes}

IsMinus(t) == Len(t) = 3 /\ t[2] = <<"0">>
Level(t) == IF Len(t) = 3 THEN Precedence(t[1]) ELSE 4

(* The phrase of a tree, with no more parentheses than it needs.           *)
RECURSIVE Phrase(_)
Held(t, level) == IF Level(t) < level THEN Grouped(Phrase(t)) ELSE Phrase(t)
Phrase(t) ==
  IF Len(t) = 1 THEN Number(t[1])
  ELSE IF Len(t) = 2 THEN Called(Phrase(t[2]))
  ELSE IF IsMinus(t) THEN Signed(Held(t[3], 2))
  ELSE LET p == Precedence(t[1])
           right == RightAssoc(t[1]) IN
       Joined(Held(t[2], IF right THEN p + 1 ELSE p), t[1], Held(t[3], IF right THEN p ELSE p + 1))

Plain == {Phrase(t) : t \in SmallTrees} \cup {Number("2")}

(* More signs and parentheses than are needed: +x, (+(x)), 2^+1.           *)
Once    == {Grouped(a) : a \in Plain}
Plusses == {Plussed(a) : a \in Once} \cup {Plussed(a) : a \in {b \in Plain : b.binds > 1}}
Ornate  == Plusses \cup {Grouped(a) : a \in Plusses}
           \cup {Joined(Number("2"), op, Plussed(Number("1"))) : op \in {"-", "*", "^"}}

SmallPhrases == Plain \cup Once \cup Ornate

Meant(d) == [text |-> d.text, tree |-> d.tree]
Broken(s) == {[text |-> RemoveAt(s, i), tree |-> <<>>] : i \in {j \in DOMAIN s : s[j] \in {"(", ")"}}}

SmallInputs ==
  {[text |-> <<>>, tree |-> <<>>]}
  \cup {Meant(d) : d \in Plain \cup Ornate}
  \cup UNION {Broken(Phrase(t).text) : t \in SmallTrees}

(* A minus behind an operator: 2*-1, 2^-1, 2--1, and before each phrase.   *)
SignedInputs ==
  {[text |-> <<"2", op, "-">> \o b.text, tree |-> <<op, <<"2">>, Signed(b).tree>>]
     : op \in Operators, b \in {d \in Plain : d.binds = 4}}

(* A chunk is not nearer than those before it; the outer two are in two bases. *)
SmallCorpora ==
  {c \in [1..3 -> [kb : {"kb1", "kb2"}, close : BOOLEAN, match : BOOLEAN]] :
     /\ \A i \in 1..2 : c[i + 1].close => c[i].close
     /\ c[1].kb = "kb1" /\ c[3].kb = "kb2"}
SmallLimits == <<3, 2, 4>>
=============================================================================
