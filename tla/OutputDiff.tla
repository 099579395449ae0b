----------------------------- MODULE OutputDiff -----------------------------
(***************************************************************************)
(* How a case of a run is judged and explained: compareOutputs             *)
(* (code-runner/src/input-parser.ts) says whether the program's output is  *)
(* the expected one, and diffOutputs (diff.ts) where it is not.            *)
(*                                                                         *)
(* An output is a text that is not JSON, or a JSON value: a type with its  *)
(* number, its characters or its items.  Numbers are counted in halves of  *)
(* the tolerance; no problem returns an object.  Paths count from one.     *)
(* The runner asks for the difference of failing cases; here it is shown   *)
(* for all.                                                                *)
(***************************************************************************)
EXTENDS Integers, Sequences, FiniteSets

CONSTANTS
    Outputs,        \* the outputs compared, and the items of arrays among them
    MaxItems        \* MAX_ITEMS

Nothing == [type |-> "null", number |-> 0, chars |-> <<>>, items |-> <<>>]
Number(n) == [Nothing EXCEPT !.type = "number", !.number = n]
Boolean(b) == [Nothing EXCEPT !.type = "boolean", !.number = b]
String(s) == [Nothing EXCEPT !.type = "string", !.chars = s]
Array(s) == [Nothing EXCEPT !.type = "array", !.items = s]
Text(s) == [Nothing EXCEPT !.type = "text", !.chars = s]

ASSUME DiffAssumption ==
    /\ MaxItems \in Nat \ {0}
    /\ \A v \in Outputs :
        /\ v.number \in Int /\ v.chars \in Seq(STRING) /\ v.items \in Seq(Outputs)
        /\ v \in {Nothing, Number(v.number), Boolean(v.number), String(v.chars),
                  Array(v.items), Text(v.chars)}

VARIABLES
    comparison,     \* a failing or passing case, its flags, its verdict and its difference
    frames          \* the calls of walk under way, the outermost first

diffVars == <<comparison, frames>>

IsArray(v) == v.type = "array"
IsJson(v) == v.type # "text"

\* Math.abs(actual - expected) < 1e-4
Near(m, n) == m - n < 2 /\ n - m < 2

\* How often each item occurs.
Multiset(s) ==
    [v \in {s[i] : i \in DOMAIN s} |-> Cardinality({i \in DOMAIN s : s[i] = v})]

\* canonicalize: an item's own items may be in any order too.
SameCanonical(v, w, unorderedInner) ==
    IF unorderedInner /\ IsArray(v) /\ IsArray(w) THEN Multiset(v.items) = Multiset(w.items)
    ELSE v = w

Places(s, v, unorderedInner) == {i \in DOMAIN s : SameCanonical(s[i], v, unorderedInner)}

Occurrences(s, v, unorderedInner) == Cardinality(Places(s, v, unorderedInner))

SameItems(s, t, unorderedInner) ==
    /\ Len(s) = Len(t)
    /\ \A i \in DOMAIN s :
          Occurrences(s, s[i], unorderedInner) = Occurrences(t, s[i], unorderedInner)

------------------------------------------------------------------------------
(* compareOutputs *)

CompareOutputs(actual, expected, unordered, unorderedInner) ==
    \/ actual = expected
    \/ /\ actual.type = "number" /\ expected.type = "number"
       /\ Near(actual.number, expected.number)
    \/ /\ unordered /\ IsArray(actual) /\ IsArray(expected)
       /\ SameItems(actual.items, expected.items, unorderedInner)

------------------------------------------------------------------------------
(* diffOutputs *)

NoDiff == [kind |-> "none"]

\* multisetDiff.  How many of the items up to this place are like the one at it.
Nth(s, i, unorderedInner) == Cardinality({j \in Places(s, s[i], unorderedInner) : j <= i})

\* The places of s whose item, counted from the first, is not beyond how many more of it
\* s has than t.
Surplus(s, t, unorderedInner) ==
    {i \in DOMAIN s : Nth(s, i, unorderedInner)
                      <= Occurrences(s, s[i], unorderedInner) - Occurrences(t, s[i], unorderedInner)}

\* The places of s whose item t has not so often.
Beyond(s, t, unorderedInner) ==
    {i \in DOMAIN s : Nth(s, i, unorderedInner) > Occurrences(t, s[i], unorderedInner)}

\* Of these places, the first MaxItems.
Listed(places) == {i \in places : Cardinality({j \in places : j < i}) < MaxItems}

MultisetDiff(expected, actual, unorderedInner) ==
    LET missing == Surplus(expected, actual, unorderedInner)
        unexpected == Beyond(actual, expected, unorderedInner)
    IN IF missing = {} /\ unexpected = {} THEN NoDiff
       ELSE [kind |-> "items", missing |-> Listed(missing), unexpected |-> Listed(unexpected)]

\* walk compares two values; its path is where its callers are in their items.
Call(e, a) == [expected |-> e, actual |-> a, next |-> 1]
Innermost == frames[Len(frames)]
Path == [k \in 1 .. Len(frames) - 1 |-> frames[k].next]

HasNext(f) ==
    /\ IsArray(f.expected) /\ IsArray(f.actual)
    /\ f.next \in DOMAIN f.expected.items \cap DOMAIN f.actual.items

FirstDifference(s, t) ==
    CHOOSE i \in 1 .. Len(s) + 1 :
        /\ \A j \in 1 .. i - 1 : j <= Len(t) /\ s[j] = t[j]
        /\ i > Len(s) \/ i > Len(t) \/ s[i] # t[i]

ScalarDiff(e, a, path) ==
    IF e = a THEN NoDiff
    ELSE [kind |-> "value", path |-> path,
          charIndex |-> IF e.type = "string" THEN FirstDifference(e.chars, a.chars) ELSE 0]

\* Mutant: the tolerance is applied at every depth.
MutantWithinTolerance(e, a, topLevel) == Near(e.number, a.number)

\* The tolerance is for a result that is a number, not for one inside an array.
WithinTolerance(e, a, topLevel) == topLevel /\ Near(e.number, a.number)

\* What walk returns once it has found no difference among the items.
Difference(e, a, path, topLevel) ==
    CASE e.type # a.type -> [kind |-> "type", path |-> path]
      [] IsArray(e) /\ IsArray(a) ->
            IF Len(e.items) = Len(a.items) THEN NoDiff ELSE [kind |-> "length", path |-> path]
      [] e.type = "number" /\ a.type = "number" /\ WithinTolerance(e, a, topLevel) -> NoDiff
      [] OTHER -> ScalarDiff(e, a, path)

\* diffOutputs leaves these to walk.
Walked(actual, expected, unordered) ==
    /\ IsJson(actual) /\ IsJson(expected)
    /\ ~(unordered /\ IsArray(expected) /\ IsArray(actual))

DiffAtOnce(actual, expected, unorderedInner) ==
    IF IsJson(actual) /\ IsJson(expected)
    THEN MultisetDiff(expected.items, actual.items, unorderedInner)
    ELSE IF actual = expected THEN NoDiff ELSE [kind |-> "format"]

------------------------------------------------------------------------------
(* executeInSandbox, for one case *)

DiffInit == comparison = [at |-> "none"] /\ frames = <<>>

JudgeCase ==
    /\ comparison.at = "none"
    /\ \E actual, expected \in Outputs, unordered, unorderedInner \in BOOLEAN :
          LET walked == Walked(actual, expected, unordered)
          IN /\ comparison' =
                [at |-> IF walked THEN "walking" ELSE "judged",
                 actual |-> actual, expected |-> expected,
                 unordered |-> unordered, unorderedInner |-> unorderedInner,
                 passed |-> CompareOutputs(actual, expected, unordered, unorderedInner),
                 diff |-> IF walked THEN NoDiff ELSE DiffAtOnce(actual, expected, unorderedInner)]
             /\ frames' = IF walked THEN <<Call(expected, actual)>> ELSE <<>>

WalkItem ==
    /\ comparison.at = "walking"
    /\ HasNext(Innermost)
    /\ frames' = Append(frames, Call(Innermost.expected.items[Innermost.next],
                                     Innermost.actual.items[Innermost.next]))
    /\ UNCHANGED comparison

\* A difference ends every call; without one the caller goes on to its next item.
Return ==
    /\ comparison.at = "walking"
    /\ ~HasNext(Innermost)
    /\ LET topLevel == Len(frames) = 1
           diff == Difference(Innermost.expected, Innermost.actual, Path, topLevel)
       IN IF diff # NoDiff \/ topLevel
          THEN /\ comparison' = [comparison EXCEPT !.at = "judged", !.diff = diff]
               /\ frames' = <<>>
          ELSE /\ frames' = [SubSeq(frames, 1, Len(frames) - 1)
                              EXCEPT ![Len(frames) - 1].next = @ + 1]
               /\ UNCHANGED comparison

DiffNext == JudgeCase \/ WalkItem \/ Return

DiffSpec == DiffInit /\ [][DiffNext]_diffVars

------------------------------------------------------------------------------

\* The value at a path.
ValueAt(v, path) ==
    LET at[n \in 0 .. Len(path)] == IF n = 0 THEN v ELSE at[n - 1].items[path[n]]
    IN at[Len(path)]

\* The two agree on their first n parts and no further.
AgreeUpTo(s, t, n) ==
    /\ \A i \in 1 .. n : i \in DOMAIN s \cap DOMAIN t /\ s[i] = t[i]
    /\ n + 1 \in DOMAIN s \cap DOMAIN t => s[n + 1] # t[n + 1]

\* What a difference of this kind says of the two values it points at.
TellsApart(diff, e, a) ==
    CASE diff.kind = "type" -> e.type # a.type
      [] diff.kind = "length" -> /\ IsArray(e) /\ IsArray(a) /\ Len(e.items) # Len(a.items)
                                 /\ \A i \in DOMAIN e.items \cap DOMAIN a.items :
                                        e.items[i] = a.items[i]
      [] diff.kind = "value" -> /\ e.type = a.type /\ e # a
                                /\ e.type = "string" =>
                                     AgreeUpTo(e.chars, a.chars, diff.charIndex - 1)

\* "a diff exists precisely when compareOutputs says the case failed" (diff.ts), and what
\* it points at is different: the values at its path, while everything before them is the
\* same; or, whatever the order of the items, some that one of the outputs has more often.
DiffExplainsFailure ==
    comparison.at = "judged" =>
        LET diff == comparison.diff
            e == comparison.expected
            a == comparison.actual
            More(s, t, v) == Occurrences(s, v, comparison.unorderedInner)
                             > Occurrences(t, v, comparison.unorderedInner)
        IN /\ comparison.passed <=> diff = NoDiff
           /\ diff.kind \in {"type", "value", "length"} =>
                /\ TellsApart(diff, ValueAt(e, diff.path), ValueAt(a, diff.path))
                /\ \A n \in 1 .. Len(diff.path) : \A i \in 1 .. diff.path[n] - 1 :
                      LET before == Append(SubSeq(diff.path, 1, n - 1), i)
                      IN ValueAt(e, before) = ValueAt(a, before)
           /\ diff.kind = "items" =>
                /\ diff.missing \cup diff.unexpected # {}
                /\ \A i \in diff.missing : More(e.items, a.items, e.items[i])
                /\ \A i \in diff.unexpected : More(a.items, e.items, a.items[i])
=============================================================================
