----------------------------- MODULE ContextValidator -----------------------------
(***************************************************************************)
(* The predicate evaluator (xair/core/context_validator.py).  A predicate  *)
(* "Path Op Literal" is what _parse makes of it: [path, op, literal], the  *)
(* literal a scalar and "=" read as "==".                                  *)
(***************************************************************************)
EXTENDS Versioning

Predicate(path, op, literal) == [path |-> path, op |-> op, literal |-> literal]

\* a string operand is read with the type of the other one, if it spells such a
\* value; a number is never read as a Boolean, nor a Boolean as a number
Aligned(operand, other) ==
  IF /\ operand.type = "str" /\ other.type \in {"num", "bool"}
     /\ operand.spells = other.type
  THEN [operand EXCEPT !.type = other.type] ELSE operand

\* only the context's side is read as a Boolean
AlignedLiteral(literal, left) ==
  IF left.type = "num" THEN Aligned(literal, left) ELSE literal

Compare(op, a, b) ==
  CASE op = "==" -> a = b
    [] op = "!=" -> a # b
    [] op = "<"  -> a.val < b.val
    [] op = "<=" -> a.val <= b.val
    [] op = ">"  -> a.val > b.val
    [] op = ">=" -> a.val >= b.val

\* check_expression: a missing path, an object and operands of different types
\* fail, as does an ordering of anything but numbers
check_expression(expr, context) ==
  \E l \in get_path(context, expr.path) :
    LET left == Aligned(l.value, expr.literal)
        right == AlignedLiteral(expr.literal, l.value)
    IN /\ l.path = expr.path /\ l.value # EmptyObject
       /\ left.type = right.type
       /\ expr.op \in {"==", "!="} \/ left.type = "num"
       /\ Compare(expr.op, left, right)

\* evaluate_predicates, when it ends within its time bound
evaluate_predicates(exprs, context) == \A e \in exprs : check_expression(e, context)
=============================================================================
