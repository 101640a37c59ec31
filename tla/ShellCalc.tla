----------------------------- MODULE ShellCalc -----------------------------
(* The calc command at the prompt of the shell.  The line that asks is       *)
(* abstracted like every other; the expression is one of Calc, written down  *)
(* character by character.                                                   *)
EXTENDS Shell, Calc

VARIABLES
    asked,     \* the expression calc was just given, in a sequence, if any
    answer     \* what eval made of it

calcVars == <<asked, answer>>

CalcInit == Init /\ asked = <<>> /\ answer = Err

\* Bound: calc is tried as the first command, on a line of one key; it keeps
\* nothing from one call to the next.
FirstCommand == items = <<>> /\ Len(line) = 1 /\ plain

cmd_calc(e) ==
    /\ mode = "prompt" /\ Trim(line) # <<>>
    /\ push(Trim(line))
    /\ NewPrompt
    /\ asked' = <<e>> /\ answer' = eval(e.chars)
    /\ UNCHANGED <<files, edVars, mode>>

CalcNext ==
    \/ Next /\ asked' = <<>> /\ answer' = Err
    \/ FirstCommand /\ \E n \in 0 .. MaxOps : \E e \in Expressions[n] : cmd_calc(e)

CalcSpec == CalcInit /\ [][CalcNext]_<<vars, calcVars>>

-----------------------------------------------------------------------------
\* eval gives every expression the value it means, and an error exactly
\* when a literal, an intermediate result or a division is out of range: the
\* usual precedence, operators of one strength from left to right, unary minus
\* on a number after an operator or "(".
CalcAgrees == \A i \in DOMAIN asked : answer = asked[i].value
=============================================================================
