------------------------------- MODULE Parse -------------------------------
(***************************************************************************)
(* http/parse.rs: the request body becomes commands while it is read, with *)
(* one budget for all its JSON nodes and a cap on the commands.            *)
(*                                                                         *)
(* A JSON value is a tree: a kind and its items.  The items of an object   *)
(* are its values; each has a key.  A value of kind "garbage" is where the *)
(* text stops being JSON.  The parser reads in document order, so it is a  *)
(* fold whose state is what is left of the budget and the verdict so far.  *)
(***************************************************************************)
EXTENDS Integers, Sequences, SequencesExt

CONSTANT JsonDepth   \* serde_json's recursion limit

Start(budget) == [left |-> budget, verdict |-> "ok"]
Fails(st, verdict) == [st EXCEPT !.verdict = verdict]

\* Every seed charges before it looks at what follows.
Charge(st) ==
    IF st.left = 0 THEN Fails(st, "RequestTooComplex") ELSE [st EXCEPT !.left = @ - 1]

Then(st, Step(_)) == IF st.verdict = "ok" THEN Step(st) ELSE st

\* Mutant: the keys of an object are free.
KeyFree(kind, st) == st

Key(kind, st) == IF kind = "object" THEN Charge(st) ELSE st

\* ArgumentSeed and ValueSeed: the same nodes are charged in the same order.
RECURSIVE Value(_, _, _)
Value(v, depth, st) ==
    Then(Charge(st), LAMBDA s :
        IF v.kind = "garbage" THEN Fails(s, "Invalid")
        ELSE IF v.kind \notin {"array", "object"} THEN s
        ELSE IF depth = 0 THEN Fails(s, "Invalid")
        ELSE FoldLeft(LAMBDA t, item :
                          Then(t, LAMBDA u : Then(Key(v.kind, u), LAMBDA w :
                                                  Value(item, depth - 1, w))),
                      s, v.items))

Name(v, st) ==
    Then(Charge(st), LAMBDA s : IF v.kind = "string" THEN s ELSE Fails(s, "Invalid"))

Command(v, depth, st) ==
    Then(Charge(st), LAMBDA s :
        IF v.kind # "array" \/ depth = 0 \/ v.items = <<>> THEN Fails(s, "Invalid")
        ELSE FoldLeft(LAMBDA t, arg : Then(t, LAMBDA u : Value(arg, depth - 1, u)),
                      Name(Head(v.items), s), Tail(v.items)))

\* IgnoredAny reads any JSON, however deep.
RECURSIVE Proper(_)
Proper(v) == v.kind # "garbage" /\ \A i \in DOMAIN v.items : Proper(v.items[i])

\* Only the first element beyond the cap is looked at, and not charged.
OverCap(v, maxCommands, st) ==
    IF Len(v.items) <= maxCommands THEN st
    ELSE Fails(st, IF Proper(v.items[maxCommands + 1]) THEN "PipelineTooLarge" ELSE "Invalid")

Pipeline(v, maxCommands, st) ==
    Then(Charge(st), LAMBDA s :
        IF v.kind # "array" THEN Fails(s, "Invalid")
        ELSE Then(FoldLeft(LAMBDA t, c : Then(t, LAMBDA u : Command(c, JsonDepth - 1, u)),
                           s, SubSeq(v.items, 1, IF Len(v.items) < maxCommands
                                                 THEN Len(v.items) ELSE maxCommands)),
                  LAMBDA t : OverCap(v, maxCommands, t)))

\* parse::command and parse::pipeline; the body must end where the value does.
ParseBody(endpoint, body, maxCommands, budget) ==
    Then(IF endpoint = "command" THEN Command(body.value, JsonDepth, Start(budget))
         ELSE Pipeline(body.value, maxCommands, Start(budget)),
         LAMBDA s : IF body.trailing THEN Fails(s, "Invalid") ELSE s)
=============================================================================
