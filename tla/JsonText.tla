------------------------------ MODULE JsonText ------------------------------
(***************************************************************************)
(* The parser and the printer of the JSON library (uct_json.c).  A text is *)
(* a sequence of symbols: brackets, comma, colon, the blank, the NUL that  *)
(* counts as one, two strings, another literal, and "x", which begins no   *)
(* value.  An item is the record of its kind, name and children.           *)
(*                                                                         *)
(* A parse is carried along as [pos, ok, tried, held, over]: the position, *)
(* false once it failed, the allocations tried, of which the one numbered  *)
(* failAt fails, the items and strings allocated and not freed, and how    *)
(* far behind the buffer it has read.                                      *)
(***************************************************************************)
EXTENDS Integers, Sequences, FiniteSets

LOCAL INSTANCE SequencesExt

CONSTANTS NestingLimit,   \* CJSON_NESTING_LIMIT
          Beginnings,     \* texts to start from
          MaxMore         \* bound: symbols put behind them

VARIABLE text             \* the text so far

textVars == text

Strings  == {"s", "t"}
Literals == Strings \cup {"v"}
Symbols  == {"[", "]", "{", "}", ",", ":", " ", "x"} \cup Literals
Blank    == {" ", "NUL"}

InitText == text \in Beginnings

Item(kind, name, kids) == [kind |-> kind, name |-> name, kids |-> kids]

\* Items and strings of a tree, names and string values.
RECURSIVE Holds(_), HoldsAll(_)
Holds(i) == 1 + (IF i.name # "" THEN 1 ELSE 0) + (IF i.kind \in Strings THEN 1 ELSE 0) + HoldsAll(i.kids)
HoldsAll(kids) == FoldLeft(LAMBDA n, k : n + Holds(k), 0, kids)

-----------------------------------------------------------------------------
(* The parser *)

At(t, p, S) == p <= Len(t) /\ t[p] \in S      \* can_access_at_index and the symbol

\* buffer_skip_whitespace: at the end of the buffer it steps back to a blank.
Skip(t, p) ==
    LET k == SelectInSubSeq(t, p, Len(t), LAMBDA c : c \notin Blank)
    IN  IF p > Len(t) THEN p ELSE IF k = 0 THEN Len(t) ELSE k

\* An allocation.
Allocate(st, failAt) ==
    [st EXCEPT !.tried = @ + 1, !.ok = st.tried + 1 # failAt, !.held = IF st.tried + 1 # failAt THEN @ + 1 ELSE @]

Failed(st, freed) == [st EXCEPT !.ok = FALSE, !.held = @ - freed]

\* parse_string, for which the closing quote is part of the symbol.  It does not
\* ask whether there is a first byte to look at, and parse_object does not either;
\* whatever is found behind the buffer, it fails.
ParseString(t, st, failAt) ==
    IF At(t, st.pos, Strings) THEN [Allocate(st, failAt) EXCEPT !.pos = @ + 1]
    ELSE Failed([st EXCEPT !.pos = @ + 1, !.over = IF st.pos > Len(t) THEN st.pos - Len(t) ELSE @], 0)

\* Mutant of Abandon: the item being parsed keeps its name.
AbandonName(st, kids, name) == Failed(st, 1 + HoldsAll(kids))

\* cJSON_Delete(head) of the children parsed, and one more that was begun.
Abandon(st, kids, name) == Failed(st, (IF name # "" THEN 2 ELSE 1) + HoldsAll(kids))

RECURSIVE ParseValue(_, _, _, _), ParseArray(_, _, _, _, _), ParseKids(_, _, _, _, _, _)

\* parse_value: the state after it and the item, whose name is put in later.
ParseValue(t, st, depth, failAt) ==
    CASE At(t, st.pos, Strings) -> [st |-> ParseString(t, st, failAt), item |-> Item(t[st.pos], "", <<>>)]
      [] At(t, st.pos, {"v"}) -> [st |-> [st EXCEPT !.pos = @ + 1], item |-> Item("v", "", <<>>)]
      [] At(t, st.pos, {"[", "{"}) -> ParseArray(t, st, depth, failAt, IF t[st.pos] = "[" THEN "]" ELSE "}")
      [] OTHER -> [st |-> Failed(st, 0)]

\* parse_array, and parse_object up to its loop, by the closing bracket.
ParseArray(t, st, depth, failAt, close) ==
    LET start == Skip(t, st.pos + 1)
    IN  IF depth >= NestingLimit THEN [st |-> Failed(st, 0)]
        ELSE IF At(t, start, {close}) THEN [st |-> [st EXCEPT !.pos = start + 1], item |-> Item(close, "", <<>>)]
        ELSE IF start > Len(t) THEN [st |-> Failed([st EXCEPT !.pos = start - 1], 0)]
        ELSE ParseKids(t, [st EXCEPT !.pos = start - 1], depth + 1, failAt, close, <<>>)

\* Of parse_object, the colon behind the name that was parsed.
Colon(t, st, name) ==
    IF ~st.ok THEN [st |-> st, name |-> ""]
    ELSE IF ~At(t, Skip(t, st.pos), {":"}) THEN [st |-> Failed([st EXCEPT !.pos = Skip(t, @)], 0), name |-> name]
    ELSE [st |-> [st EXCEPT !.pos = Skip(t, Skip(t, @) + 1)], name |-> name]

\* The child is complete, and there are more, or the end, or it is missing.
ParseNext(t, st, depth, failAt, close, kids) ==
    IF At(t, st.pos, {","}) THEN ParseKids(t, st, depth, failAt, close, kids)
    ELSE IF ~At(t, st.pos, {close}) THEN [st |-> Failed(st, HoldsAll(kids))]
    ELSE [st |-> [st EXCEPT !.pos = @ + 1], item |-> Item(close, "", kids)]

\* The value of a child has been parsed.
ParseKid(t, value, name, depth, failAt, close, kids) ==
    IF ~value.st.ok THEN [st |-> Abandon(value.st, kids, name)]
    ELSE ParseNext(t, [value.st EXCEPT !.pos = Skip(t, @)], depth, failAt, close,
                   Append(kids, [value.item EXCEPT !.name = name]))

\* The name of a child, if it has one, has been parsed.
ParseNamed(t, begun, depth, failAt, close, kids) ==
    IF ~begun.st.ok THEN [st |-> Abandon(begun.st, kids, begun.name)]
    ELSE ParseKid(t, ParseValue(t, begun.st, depth, failAt), begun.name, depth, failAt, close, kids)

\* A child has been allocated, and the blanks in front of it are skipped.
ParseBegun(t, st, depth, failAt, close, kids) ==
    IF ~st.ok THEN [st |-> Failed(st, HoldsAll(kids))]
    ELSE ParseNamed(t, IF close = "]" THEN [st |-> st, name |-> ""] ELSE Colon(t, ParseString(t, st, failAt), t[st.pos]),
                    depth, failAt, close, kids)

\* The loops of parse_array and parse_object.  st.pos is in front of the child.
ParseKids(t, st, depth, failAt, close, kids) ==
    ParseBegun(t, [Allocate(st, failAt) EXCEPT !.pos = Skip(t, @ + 1)], depth, failAt, close, kids)

\* What cJSON_ParseWithLengthOpts does after parse_value.
ParseEnd(t, value, require_null_terminated) ==
    IF ~value.st.ok THEN [st |-> Failed(value.st, 1)]
    ELSE IF require_null_terminated /\ ~At(t, Skip(t, value.st.pos), {"NUL"})
    THEN [st |-> Failed([value.st EXCEPT !.pos = Skip(t, @)], Holds(value.item))]
    ELSE value

\* cJSON_ParseWithLengthOpts
Parse(t, require_null_terminated, failAt) ==
    LET root == [pos |-> 1, ok |-> t # <<>>, tried |-> 0, held |-> 0, over |-> 0]
    IN  IF ~root.ok THEN [st |-> root]
        ELSE IF ~Allocate(root, failAt).ok THEN [st |-> Allocate(root, failAt)]
        ELSE ParseEnd(t, ParseValue(t, [Allocate(root, failAt) EXCEPT !.pos = Skip(t, 1)], 0, failAt),
                      require_null_terminated)

-----------------------------------------------------------------------------
(* The printer *)

\* A call of ensure and what is then written: need is its argument, put what is
\* written, and nul whether a NUL is written behind it.
Step(need, put, nul) == <<[need |-> need, put |-> put, nul |-> nul]>>

Tabs(n) == [k \in 1 .. n |-> " "]
When(b, s) == IF b THEN s ELSE <<>>

RECURSIVE PrintValue(_, _, _), PrintArray(_, _, _), PrintObject(_, _, _)

\* print_value, for which a literal is one symbol.
PrintValue(i, format, depth) ==
    CASE i.kind \in Literals -> Step(2, <<i.kind>>, TRUE)
      [] i.kind = "]" -> PrintArray(i, format, depth + 1)
      [] i.kind = "}" -> PrintObject(i, format, depth + 1)

PrintArray(i, format, depth) ==
    LET comma == Step(IF format THEN 3 ELSE 2, <<",">> \o When(format, <<" ">>), TRUE)
        element(k) == PrintValue(i.kids[k], format, depth) \o When(k < Len(i.kids), comma)
    IN  Step(1, <<"[">>, FALSE) \o FlattenSeq([k \in DOMAIN i.kids |-> element(k)]) \o Step(2, <<"]">>, TRUE)

PrintObject(i, format, depth) ==
    LET end(k) == When(k < Len(i.kids), <<",">>) \o When(format, <<" ">>)
        member(k) == When(format, Step(depth, Tabs(depth), FALSE))
                       \o Step(2, <<i.kids[k].name>>, TRUE)
                       \o Step(IF format THEN 2 ELSE 1, <<":">> \o When(format, <<" ">>), FALSE)
                       \o PrintValue(i.kids[k], format, depth)
                       \o Step(Len(end(k)) + 1, end(k), TRUE)
    IN  Step(IF format THEN 3 ELSE 2, <<"{">> \o When(format, <<" ">>), FALSE)
          \o FlattenSeq([k \in DOMAIN i.kids |-> member(k)])
          \o Step(IF format THEN depth + 1 ELSE 2, When(format, Tabs(depth - 1)) \o <<"}">>, TRUE)

\* Mutant of Ensure: the text in front is forgotten.
EnsureHere(offset, need, length) == need + 1 <= length

\* ensure with noalloc: offset, and all that is needed, fit in the buffer.
Ensure(offset, need, length) == offset < length /\ need + offset + 1 <= length

\* cJSON_PrintPreallocated: what was written, whether all of it, and whether
\* something was written behind the buffer.
PrintPreallocated(i, format, length) ==
    FoldLeft(LAMBDA r, s :
               IF ~r.ok THEN r
               ELSE IF ~Ensure(Len(r.out), s.need, length) THEN [r EXCEPT !.ok = FALSE]
               ELSE [r EXCEPT !.out = @ \o s.put,
                              !.over = @ \/ Len(r.out) + Len(s.put) + (IF s.nul THEN 1 ELSE 0) > length],
             [out |-> <<>>, ok |-> TRUE, over |-> FALSE], PrintValue(i, format, 0))

\* print: the buffer grows, so that all is written.
PrintText(i, format) == FlattenSeq([k \in DOMAIN PrintValue(i, format, 0) |-> PrintValue(i, format, 0)[k].put])

-----------------------------------------------------------------------------
(* cJSON_Compare *)

\* get_object_item
Member(i, name) == SelectSeq(i.kids, LAMBDA k : k.name = name)

RECURSIVE Compare(_, _)
Compare(a, b) ==
    /\ a.kind = b.kind
    /\ a.kind = "]" => /\ Len(a.kids) = Len(b.kids)
                       /\ \A k \in DOMAIN a.kids : Compare(a.kids[k], b.kids[k])
    /\ a.kind = "}" => /\ \A k \in DOMAIN a.kids : LET m == Member(b, a.kids[k].name)
                                                   IN  m # <<>> /\ Compare(a.kids[k], m[1])
                       /\ \A k \in DOMAIN b.kids : LET m == Member(a, b.kids[k].name)
                                                   IN  m # <<>> /\ Compare(b.kids[k], m[1])

-----------------------------------------------------------------------------
(* The texts: one symbol more as long as the parser reads to the end. *)

TextNext ==
    /\ \E b \in Beginnings : IsPrefix(b, text) /\ Len(text) < Len(b) + MaxMore
    /\ Parse(Append(text, "NUL"), FALSE, 0).st.pos > Len(text)
    /\ \E c \in Symbols : text' = Append(text, c)

(* Properties *)

\* The grammar, for a text without blanks.
RECURSIVE IsValue(_, _)
IsValue(t, depth) ==
    LET n == Len(t)
        cuts == {k \in 2 .. n - 1 : t[k] = ","}
        pieces(C) == {<<a + 1, b - 1>> : <<a, b>> \in {q \in (C \cup {1}) \X (C \cup {n}) :
                                                         q[1] < q[2] /\ \A c \in C : ~(q[1] < c /\ c < q[2])}}
    IN  \/ n = 1 /\ t[1] \in Literals
        \/ n = 2 /\ t \in {<<"[", "]">>, <<"{", "}">>} /\ depth > 0
        \/ /\ n > 2 /\ depth > 0 /\ <<t[1], t[n]>> \in {<<"[", "]">>, <<"{", "}">>}
           /\ \E C \in SUBSET cuts : \A q \in pieces(C) :
                IF t[1] = "[" THEN IsValue(SubSeq(t, q[1], q[2]), depth - 1)
                ELSE q[2] > q[1] + 1 /\ t[q[1]] \in Strings /\ t[q[1] + 1] = ":"
                     /\ IsValue(SubSeq(t, q[1] + 2, q[2]), depth - 1)

RECURSIVE Ambiguous(_)
Ambiguous(i) == \/ \E k \in DOMAIN i.kids : Ambiguous(i.kids[k])
                \/ i.kind = "}" /\ \E j, k \in DOMAIN i.kids : j < k /\ i.kids[j].name = i.kids[k].name

\* cJSON_Parse accepts exactly the texts of which a prefix is a value nested no
\* deeper than the limit, and with require_null_terminated those that are one
\* up to blanks, without and with a NUL at the end of the buffer; and whichever
\* allocation fails and wherever the text breaks off, what was allocated is
\* freed, and otherwise is what the items returned hold.  A text that ends in a NUL
\* is not read beyond it, and one that does not is, by one byte, exactly when it
\* ends right behind a comma where an object goes on with a name.
ParseSound ==
    LET dense == SelectSeq(text, LAMBDA c : c # " ")
        whole == Append(text, "NUL")
        good(t, full) == \E n \in 1 .. Len(t) : IsValue(SubSeq(t, 1, n), NestingLimit) /\ (full => n = Len(t))
        endsBeforeName ==
            /\ text # <<>> /\ Last(text) = ","
            /\ \E ends \in SeqOf({"]", "}"}, NestingLimit - 1) :
                 IsValue(dense \o <<"s", ":", "v", "}">> \o ends, NestingLimit)
    IN  /\ Parse(whole, FALSE, 0).st.ok = good(dense, FALSE)
        /\ Parse(text, FALSE, 0).st.ok = good(dense, FALSE)
        /\ Parse(whole, TRUE, 0).st.ok = good(dense, TRUE)
        /\ \A failAt \in 0 .. Len(text) + 2, full \in BOOLEAN :
             LET r == Parse(whole, full, failAt)
             IN  r.st.held = (IF r.st.ok THEN Holds(r.item) ELSE 0) /\ r.st.over = 0
        /\ Parse(text, FALSE, 0).st.over = IF endsBeforeName THEN 1 ELSE 0

\* What is printed, formatted or not, parses to the same items, which compare
\* equal to the first unless some object has a name twice, when the later item
\* is never looked at; and a buffer given to cJSON_PrintPreallocated is never
\* overrun, whatever its length, while five spare bytes always suffice.
PrintSound ==
    LET r == Parse(Append(text, "NUL"), TRUE, 0)
    IN  r.st.ok => \A format \in BOOLEAN :
          LET printed == PrintText(r.item, format)
              again == Parse(Append(printed, "NUL"), TRUE, 0)
          IN  /\ again.st.ok /\ again.item = r.item
              /\ ~Ambiguous(r.item) => Compare(r.item, again.item)
              /\ \A length \in 0 .. Len(printed) + 5 :
                   LET b == PrintPreallocated(r.item, format, length)
                   IN  ~b.over /\ (b.ok => b.out = printed) /\ (length >= Len(printed) + 5 => b.ok)
=============================================================================
