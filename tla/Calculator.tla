------------------------------- MODULE Calculator -------------------------------
(***************************************************************************)
(* The calculator tool: a tokenizer that puts 0 before a unary minus, a    *)
(* shunting-yard parser and an evaluator of the postfix form.  Numbers are *)
(* not computed with: a value is the expression tree it came from, so that *)
(* two values are equal when they are computed the same way.               *)
(*                                                                         *)
(* A character stands for a token of the input: a digit for any number,    *)
(* "f" for any function, "-", "*" and "^" for the operators, one for each  *)
(* precedence.  Values are <<number>>, <<function, value>> and             *)
(* <<operator, value, value>>.                                             *)
(***************************************************************************)
EXTENDS Naturals, SequencesExt

CONSTANTS
  Inputs,    \* records of a text and the tree it means, <<>> for none
  Phrases    \* what the texts are put together from, see IsPhrase

VARIABLES
  expr,         \* the input, and what it means
  rest,         \* characters not yet read
  prevIsValue,  \* the last token was a value
  tokens,       \* tokens not yet parsed
  rpn,          \* postfix form: output of the parser, input of the evaluator
  opStack,      \* of the parser
  values,       \* of the evaluator
  calc          \* where evalExpression is

calcVars == <<expr, rest, prevIsValue, tokens, rpn, opStack, values, calc>>

-----------------------------------------------------------------------------
Numbers   == {"0", "1", "2"}
Operators == {"+", "-", "*", "^"}
Alphabet  == Numbers \cup Operators \cup {"f", "(", ")"}

Precedence(op) == CASE op \in {"+", "-"} -> 1 [] op = "*" -> 2 [] op = "^" -> 3
RightAssoc(op) == op = "^"

(* Mutant of GoesFirst: every operator is taken for left associative.       *)
GoesFirstLeft(top, op) == top \in Operators /\ Precedence(top) >= Precedence(op)

(* The operator on the stack is applied before the one just read.          *)
GoesFirst(top, op) ==
  /\ top \in Operators
  /\ \/ Precedence(top) > Precedence(op)
     \/ Precedence(top) = Precedence(op) /\ ~RightAssoc(op)

Top(s) == s[Len(s)]
Upper(s, n) == SubSeq(s, n + 1, Len(s))    \* all but the first n

Refuse == calc' = "error" /\ UNCHANGED <<expr, rest, prevIsValue, tokens, rpn, opStack, values>>

-----------------------------------------------------------------------------
(* tokenize                                                                *)

(* The tokens of one character: a minus that follows no value is preceded  *)
(* by 0, a plus that follows none is dropped.                              *)
TokensOf(c, behindValue) ==
  IF c = "-" /\ ~behindValue THEN <<"0", "-">>
  ELSE IF c = "+" /\ ~behindValue THEN <<>>
  ELSE <<c>>

IsValue(c) == c \in Numbers \cup {"f", ")"}

Tokenize ==
  /\ calc = "tokenize" /\ rest # <<>>
  /\ rest' = Tail(rest)
  /\ tokens' = tokens \o TokensOf(Head(rest), prevIsValue)
  /\ prevIsValue' = IsValue(Head(rest))
  /\ UNCHANGED <<expr, rpn, opStack, values, calc>>

Tokenized ==
  /\ calc = "tokenize" /\ rest = <<>> /\ calc' = "parse"
  /\ UNCHANGED <<expr, rest, prevIsValue, tokens, rpn, opStack, values>>

-----------------------------------------------------------------------------
(* evalExpression                                                          *)

Next1(t) == calc = "parse" /\ tokens # <<>> /\ Head(tokens) = t

ParseNumber(t) ==
  /\ Next1(t) /\ t \in Numbers
  /\ tokens' = Tail(tokens)
  /\ rpn' = Append(rpn, t)
  /\ UNCHANGED <<expr, rest, prevIsValue, opStack, values, calc>>

(* Functions and opening parentheses go onto the stack.                    *)
ParseOpening(t) ==
  /\ Next1(t) /\ t \in {"f", "("}
  /\ tokens' = Tail(tokens)
  /\ opStack' = Append(opStack, t)
  /\ UNCHANGED <<expr, rest, prevIsValue, rpn, values, calc>>

ParseOperator(t) ==
  LET stay == {n \in 0..Len(opStack) : n = 0 \/ ~GoesFirst(opStack[n], t)}
      keep == CHOOSE n \in stay : \A m \in stay : m <= n IN
  /\ Next1(t) /\ t \in Operators
  /\ tokens' = Tail(tokens)
  /\ rpn' = rpn \o Reverse(Upper(opStack, keep))
  /\ opStack' = Append(SubSeq(opStack, 1, keep), t)
  /\ UNCHANGED <<expr, rest, prevIsValue, values, calc>>

(* All down to the opening parenthesis, and the function in front of it.   *)
ParseClosing(t) ==
  LET open == {n \in DOMAIN opStack : opStack[n] = "("}
      at   == CHOOSE n \in open : \A m \in open : m <= n
      call == at > 1 /\ opStack[at - 1] = "f" IN
  /\ Next1(t) /\ t = ")"
  /\ IF open = {} THEN Refuse
     ELSE /\ tokens' = Tail(tokens)
          /\ rpn' = rpn \o Reverse(Upper(opStack, at)) \o (IF call THEN <<"f">> ELSE <<>>)
          /\ opStack' = SubSeq(opStack, 1, IF call THEN at - 2 ELSE at - 1)
          /\ UNCHANGED <<expr, rest, prevIsValue, values, calc>>

(* What is left on the stack, unless a parenthesis was never closed.       *)
Parsed ==
  /\ calc = "parse" /\ tokens = <<>>
  /\ IF "(" \in {opStack[n] : n \in DOMAIN opStack} THEN Refuse
     ELSE /\ rpn' = rpn \o Reverse(opStack)
          /\ opStack' = <<>>
          /\ calc' = "eval"
          /\ UNCHANGED <<expr, rest, prevIsValue, tokens, values>>

-----------------------------------------------------------------------------
(* evalRPN                                                                 *)

Arguments(n) == Upper(values, Len(values) - n)

Arity(t) == IF t \in Numbers THEN 0 ELSE IF t = "f" THEN 1 ELSE 2

Eval ==
  /\ calc = "eval" /\ rpn # <<>>
  /\ LET t == Head(rpn)
         n == Arity(t) IN
     IF Len(values) < n THEN Refuse
     ELSE /\ rpn' = Tail(rpn)
          /\ values' = Append(SubSeq(values, 1, Len(values) - n), <<t>> \o Arguments(n))
          /\ UNCHANGED <<expr, rest, prevIsValue, tokens, opStack, calc>>

(* An operand the operator or function has no value for: division by 0,    *)
(* the root of a negative number, an unknown name; or no finite result.    *)
Undefined ==
  /\ calc = "eval" /\ rpn # <<>> /\ Head(rpn) \notin Numbers
  /\ Len(values) >= Arity(Head(rpn))
  /\ calc' = "undefined"
  /\ UNCHANGED <<expr, rest, prevIsValue, tokens, rpn, opStack, values>>

Evaluated ==
  /\ calc = "eval" /\ rpn = <<>>
  /\ calc' = IF Len(values) = 1 THEN "done" ELSE "error"
  /\ UNCHANGED <<expr, rest, prevIsValue, tokens, rpn, opStack, values>>

-----------------------------------------------------------------------------
CalcStart(e) ==
  /\ expr = e /\ rest = e.text
  /\ prevIsValue = FALSE
  /\ tokens = <<>> /\ rpn = <<>> /\ opStack = <<>> /\ values = <<>>
  /\ calc = "tokenize"

CalcInit == \E e \in Inputs : CalcStart(e)

Parse(t) == ParseNumber(t) \/ ParseOpening(t) \/ ParseOperator(t) \/ ParseClosing(t)

CalcNext ==
  \/ Tokenize \/ Tokenized
  \/ \E t \in Alphabet : Parse(t)
  \/ Parsed \/ Eval \/ Undefined \/ Evaluated

-----------------------------------------------------------------------------
(* What a text means.  A phrase is a text with its tree; for the proof it  *)
(* also says which tokens and which postfix form are to come of the text   *)
(* and how strongly it binds.                                              *)

Number(c) == [text |-> <<c>>, tokens |-> <<c>>, tree |-> <<c>>, postfix |-> <<c>>, binds |-> 4]

Grouped(a) == [text |-> <<"(">> \o a.text \o <<")">>, tokens |-> <<"(">> \o a.tokens \o <<")">>,
               tree |-> a.tree, postfix |-> a.postfix, binds |-> 4]

Called(a) == [text |-> <<"f", "(">> \o a.text \o <<")">>, tokens |-> <<"f", "(">> \o a.tokens \o <<")">>,
              tree |-> <<"f", a.tree>>, postfix |-> a.postfix \o <<"f">>, binds |-> 4]

Joined(a, op, b) == [text |-> a.text \o <<op>> \o b.text, tokens |-> a.tokens \o <<op>> \o b.tokens,
                     tree |-> <<op, a.tree, b.tree>>,
                     postfix |-> a.postfix \o b.postfix \o <<op>>, binds |-> Precedence(op)]

(* A sign in front; minus x is the tree of 0 - x.                          *)
Signed(a) == [text |-> <<"-">> \o a.text, tokens |-> <<"0", "-">> \o a.tokens,
              tree |-> <<"-", <<"0">>, a.tree>>,
              postfix |-> <<"0">> \o a.postfix \o <<"-">>, binds |-> 1]

Plussed(a) == [text |-> <<"+">> \o a.text, tokens |-> a.tokens, tree |-> a.tree,
               postfix |-> a.postfix, binds |-> a.binds]

(* Operands bind more strongly than the operator; one of the two, on the   *)
(* side the operator associates to, as strongly.                           *)
Joins(a, op, b) ==
  /\ a.binds > Precedence(op) \/ (a.binds = Precedence(op) /\ ~RightAssoc(op))
  /\ b.binds > Precedence(op) \/ (b.binds = Precedence(op) /\ RightAssoc(op))

(* A minus binds as weakly as the operator, so that it stands at the start *)
(* or behind a parenthesis; a plus also stands behind an operator.         *)
IsPhrase(d) ==
  \/ \E c \in Numbers : d = Number(c)
  \/ \E a \in Phrases : d \in {Grouped(a), Called(a)}
  \/ \E a \in Phrases : a.binds > 1 /\ d \in {Signed(a), Plussed(a)}
  \/ \E a \in Phrases : /\ IsPrefix(a.text, d.text)
                       /\ \E op \in Operators, b \in Phrases : Joins(a, op, b) /\ d = Joined(a, op, b)

(* A minus behind an operator belongs to the operand it stands before:     *)
(* 2*-1 is 2*(-1).                                                         *)
SignBehind(text) == \E i \in 2..Len(text) : text[i] = "-" /\ text[i - 1] \in Operators

MeansSigned(text, tree) ==
  \E a \in Phrases : /\ IsPrefix(a.text, text)
                     /\ \E op \in Operators, b \in Phrases :
                          /\ Joins(a, op, b)
                          /\ text = a.text \o <<op, "-">> \o b.text
                          /\ tree = <<op, a.tree, Signed(b).tree>>

(* Closing parentheses have their opening ones in front of them.           *)
Count(s, n, c) == Cardinality({i \in 1..n : s[i] = c})

Matched(s) ==
  /\ \A n \in 0..Len(s) : Count(s, n, ")") <= Count(s, n, "(")
  /\ Count(s, Len(s), ")") = Count(s, Len(s), "(")

(* A text that means nothing is empty or has unmatched parentheses.        *)
Means(text, tree) ==
  IF tree = <<>> THEN text = <<>> \/ ~Matched(text)
  ELSE IF SignBehind(text) THEN MeansSigned(text, tree)
  ELSE \E d \in Phrases : d.text = text /\ d.tree = tree

ASSUME CalculatorAssumption ==
  /\ \A d \in Phrases : {d.text, d.tokens} \subseteq Seq(Alphabet) /\ IsPhrase(d)
  /\ \A e \in Inputs : e.text \in Seq(Alphabet) /\ Means(e.text, e.tree)

-----------------------------------------------------------------------------
(* What is written with the usual precedences and associativity is         *)
(* computed that way, signs at the start, behind a parenthesis and a plus  *)
(* behind an operator included, and what has an unmatched parenthesis is   *)
(* refused.  A minus behind an operator is left to the next property       *)
(* (calculator.go:152-165, 177-256).                                       *)
EvaluatesAsMeant ==
  ~SignBehind(expr.text) =>
    /\ calc = "done" => values = <<expr.tree>>
    /\ calc = "error" => expr.tree = <<>>

(* Wherever a minus stands that is no operator, it negates the operand     *)
(* behind it: the calculator's comments say that it supports the unary     *)
(* minus (calculator.go:14, 100).                                          *)
MinusNegatesItsOperand ==
  SignBehind(expr.text) /\ calc = "done" => values = <<expr.tree>>
=============================================================================
