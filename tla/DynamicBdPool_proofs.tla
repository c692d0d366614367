------------------------- MODULE DynamicBdPool_proofs -------------------------
(***************************************************************************)
(* The free list and the starts of a sequence that takes its ids at run    *)
(* time, for any pool, any sequence and any number of trips. The free list *)
(* has exactly the ids that no unfreed task has, while no task is freed    *)
(* twice: a name that a sequence uses has been given a task on every path  *)
(* that leads to the use (Assigned), and the id carried beside it is that  *)
(* task's (Own). A start finds its own id, while each task goes by one     *)
(* name at a time: a freed task whose name is still to be used was freed   *)
(* where verifyNoStartAfterFree finds it (FreesAreFound).                  *)
(***************************************************************************)
EXTENDS DynamicBdPool, FiniteSetTheorems, SequenceTheorems,
        WellFoundedInduction, TLAPS

-----------------------------------------------------------------------------
(* The invariant: what is written, and what runs.                          *)

Ops == {"configure", "start", "free", "for", "next", "if", "else", "fi"}

Stacks ==
  {<<>>, <<"loop">>, <<"then">>, <<"else">>, <<"loop", "then">>,
   <<"loop", "else">>, <<"then", "loop">>, <<"else", "loop">>}

Operations ==
  [op : Ops, task : Names \cup {None}, def : Names \cup {None}, in : Stacks]

\* An operation op stands before position p.
Before(p, op) == \E i \in DOMAIN text : i < p /\ text[i].op = op

\* Block b is open at position p.
Inside(b, p) ==
  \/ b = "loop" /\ Before(p, "for") /\ ~Before(p, "next")
  \/ b = "then" /\ Before(p, "if") /\ ~Before(p, "else")
  \/ b = "else" /\ Before(p, "else") /\ ~Before(p, "fi")

\* The operation that ends a block.
Ends(op, b) ==
  (op = "next" /\ b = "loop") \/ (op = "else" /\ b = "then") \/ (op = "fi" /\ b = "else")

\* What operation j defines can be used at position p.
Live(j, p) ==
  /\ j < p
  /\ \A b \in ToSet(Scope(text[j])) :
       \A i \in DOMAIN text : i < p => ~Ends(text[i].op, b)

TextType == text \in Seq(Operations) /\ open \in Stacks

\* One loop and one conditional at the most.
Once ==
  \A i, j \in DOMAIN text :
    text[i].op = text[j].op /\ text[i].op \in {"for", "next", "if", "else", "fi"} => i = j

\* The blocks that are open are those that were begun and not ended.
OpenBlocks ==
  \A b \in {"loop", "then", "else"} :
    b \in ToSet(open) <=> Inside(b, Len(text) + 1)

\* An operation stands in the blocks that are open at its place but the one
\* it ends itself.
InBlocks ==
  \A i \in DOMAIN text, b \in {"loop", "then", "else"} :
    b \in ToSet(text[i].in) <=> Inside(b, i) /\ ~Ends(text[i].op, b)

Begun ==
  \A i \in DOMAIN text :
    /\ text[i].op = "next" => Before(i, "for")
    /\ text[i].op = "else" => Before(i, "if")
    /\ text[i].op = "fi" => Before(i, "else")

\* An arm that ends inside the loop began there.
Nested ==
  \A f, i \in DOMAIN text :
    text[f].op = "for" /\ f < i /\ ~Before(i, "next") =>
      /\ text[i].op = "else" => \E j \in DOMAIN text : f < j /\ j < i /\ text[j].op = "if"
      /\ text[i].op = "fi" => \E j \in DOMAIN text : f < j /\ j < i /\ text[j].op = "else"

\* The same of an arm that is still open.
NestedOpen ==
  \A f \in DOMAIN text :
    text[f].op = "for" =>
      /\ open = <<"loop", "then">> => \E j \in DOMAIN text : f < j /\ text[j].op = "if"
      /\ open = <<"loop", "else">> => \E j \in DOMAIN text : f < j /\ text[j].op = "else"

\* What an operation uses is defined where it stands.
UsesDefined ==
  \A i \in DOMAIN text :
    text[i].task # None =>
      \E j \in DOMAIN text : text[j].def = text[i].task /\ Live(j, i)

\* What defines a name, and which.
Defines ==
  \A i \in DOMAIN text :
    /\ text[i].op \in {"start", "free"} => text[i].task # None
    /\ text[i].op = "configure" => text[i].def # None
    /\ text[i].def # None =>
         \/ text[i].op = "configure"
         \/ text[i].op = "for" /\ text[i].def = "arg" /\ text[i].task # None
         \/ text[i].op = "next" /\ text[i].def = "result" /\ text[i].task # None
         \/ text[i].op = "fi" /\ text[i].def = "phi" /\ text[i].task # None

\* A loop has a result only for its operand.
Carries ==
  \A i, f \in DOMAIN text :
    text[i].op = "next" /\ text[i].def # None /\ text[f].op = "for" =>
      text[f].task # None

TextInv ==
  /\ TextType /\ Once /\ OpenBlocks /\ InBlocks /\ Begun /\ Nested /\ NestedOpen
  /\ UsesDefined /\ Defines /\ Carries

RunType ==
  /\ phase \in {"write", "run", "over", "rejected", "refused"}
  /\ pc \in 1 .. Len(text) + 1
  /\ pool \in Seq(PoolIds) /\ popped \in Seq(PoolIds)
  /\ ids \in [Names -> PoolIds \cup {None}] /\ task \in [Names -> Nat]
  /\ freed \subseteq DOMAIN popped
  /\ twice \in BOOLEAN

Lowered ==
  /\ phase = "write" => pc = 1
  /\ phase # "write" => open = <<>>
  /\ phase = "run" => ~DivergentYield

\* A name that can be used where control is has been given a task.
Assigned ==
  \A j \in DOMAIN text :
    text[j].def # None /\ Live(j, pc) => task[text[j].def] # 0

\* The id beside a task is the one it was given.
Own ==
  \A n \in Names :
    task[n] # 0 => task[n] \in DOMAIN popped /\ ids[n] = popped[task[n]]

Unfreed == DOMAIN popped \ freed

PoolParts ==
  ~twice =>
    /\ IsInjective(pool)
    /\ \A s, t \in Unfreed : popped[s] = popped[t] => s = t
    /\ \A id \in PoolIds : id \in ToSet(pool) <=> \A t \in Unfreed : popped[t] # id

IndInv == TextInv /\ RunType /\ Lowered /\ Assigned /\ Own /\ PoolParts

-----------------------------------------------------------------------------
(* Sequences and stacks of blocks.                                         *)

LEMMA ToSetAppend ==
  ASSUME NEW S, NEW s \in Seq(S), NEW e \in S
  PROVE  ToSet(Append(s, e)) = ToSet(s) \cup {e}
<1>1. /\ DOMAIN Append(s, e) = 1 .. Len(s) + 1 /\ DOMAIN s = 1 .. Len(s)
      /\ Len(s) \in Nat
      /\ \A i \in 1 .. Len(s) : Append(s, e)[i] = s[i]
      /\ Append(s, e)[Len(s) + 1] = e
  OBVIOUS
<1>2. ASSUME NEW x \in ToSet(Append(s, e))  PROVE x \in ToSet(s) \cup {e}
  <2>1. PICK i \in 1 .. Len(s) + 1 : x = Append(s, e)[i]
    BY <1>1 DEF ToSet
  <2>2. i \in 1 .. Len(s) \/ i = Len(s) + 1
    BY <1>1
  <2> QED
    BY <1>1, <2>1, <2>2 DEF ToSet
<1>3. ASSUME NEW x \in ToSet(s)  PROVE x \in ToSet(Append(s, e))
  <2>1. PICK i \in 1 .. Len(s) : x = s[i]
    BY <1>1 DEF ToSet
  <2>2. i \in 1 .. Len(s) + 1
    BY <1>1
  <2> QED
    BY <1>1, <2>1, <2>2 DEF ToSet
<1>4. e \in ToSet(Append(s, e))
  <2>1. Len(s) + 1 \in 1 .. Len(s) + 1
    BY <1>1
  <2> QED
    BY <1>1, <2>1 DEF ToSet
<1> QED
  BY <1>2, <1>3, <1>4

LEMMA FrontLast ==
  ASSUME NEW S, NEW s \in Seq(S), s # <<>>
  PROVE  /\ Front(s) \in Seq(S) /\ Last(s) \in S
         /\ Len(Front(s)) = Len(s) - 1 /\ Len(s) \in Nat \ {0}
         /\ \A i \in 1 .. Len(s) - 1 : Front(s)[i] = s[i]
<1>1. Len(s) \in Nat \ {0}
  OBVIOUS
<1>2. 1 \in 1 .. Len(s) + 1 /\ Len(s) - 1 \in 0 .. Len(s)
  BY <1>1
<1>3. Len(s) \in 1 .. Len(s)
  BY <1>1
<1>4. Last(s) \in S
  BY <1>3 DEF Last
<1>5. Front(s) = [i \in 1 .. Len(s) - 1 |-> s[i]]
  BY <1>1 DEF Front
<1>6. \A i \in 1 .. Len(s) - 1 : s[i] \in S
  BY <1>1
<1>7. Front(s) \in [1 .. Len(s) - 1 -> S] /\ Len(s) - 1 \in Nat
  BY <1>1, <1>5, <1>6
<1>8. Front(s) \in Seq(S) /\ Len(Front(s)) = Len(s) - 1
  BY <1>7
<1> QED
  BY <1>1, <1>4, <1>5, <1>8

LEMMA FrontOfTwo ==
  ASSUME NEW S, NEW s \in Seq(S), Len(s) = 2
  PROVE  Front(s) = <<s[1]>>
<1>1. /\ Front(s) \in Seq(S) /\ Len(Front(s)) = 1 /\ s[1] \in S
      /\ \A i \in 1 .. 1 : Front(s)[i] = s[i]
  <2>1. s # <<>> /\ s[1] \in S /\ 2 - 1 = 1
    OBVIOUS
  <2> QED
    BY <2>1, FrontLast
<1>2. <<s[1]>> \in Seq(S) /\ Len(<<s[1]>>) = 1 /\ <<s[1]>>[1] = s[1]
  BY <1>1
<1>3. \A i \in 1 .. 1 : i = 1
  OBVIOUS
<1> QED
  BY <1>1, <1>2, <1>3, SeqEqual

LEMMA ToSetFront ==
  ASSUME NEW S, NEW s \in Seq(S), s # <<>>
  PROVE  ToSet(s) = ToSet(Front(s)) \cup {Last(s)}
<1>1. /\ Len(s) \in Nat \ {0} /\ Front(s) \in Seq(S)
      /\ Len(Front(s)) = Len(s) - 1
      /\ \A i \in 1 .. Len(s) - 1 : Front(s)[i] = s[i]
  BY FrontLast
<1>2. DOMAIN s = 1 .. Len(s) /\ DOMAIN Front(s) = 1 .. Len(s) - 1
  BY <1>1
<1>3. ASSUME NEW x \in ToSet(s)  PROVE x \in ToSet(Front(s)) \cup {Last(s)}
  <2>1. PICK i \in 1 .. Len(s) : x = s[i]
    BY <1>2 DEF ToSet
  <2>2. i \in 1 .. Len(s) - 1 \/ i = Len(s)
    BY <1>1
  <2> QED
    BY <1>1, <1>2, <2>1, <2>2 DEF ToSet, Last
<1>4. ASSUME NEW x \in ToSet(Front(s))  PROVE x \in ToSet(s)
  <2>1. PICK i \in 1 .. Len(s) - 1 : x = s[i]
    BY <1>1, <1>2 DEF ToSet
  <2>2. i \in 1 .. Len(s)
    BY <1>1
  <2> QED
    BY <1>2, <2>1, <2>2 DEF ToSet
<1>5. Last(s) \in ToSet(s)
  <2>1. Len(s) \in 1 .. Len(s)
    BY <1>1
  <2> QED
    BY <1>2, <2>1 DEF ToSet, Last
<1> QED
  BY <1>3, <1>4, <1>5

Blocks == {"loop", "then", "else"}

LEMMA StacksAreSequences == Stacks \subseteq Seq(Blocks)
  BY DEF Stacks, Blocks

LEMMA StackSets ==
  /\ ToSet(<<>>) = {}
  /\ ToSet(<<"loop">>) = {"loop"} /\ ToSet(<<"then">>) = {"then"}
  /\ ToSet(<<"else">>) = {"else"}
  /\ ToSet(<<"loop", "then">>) = {"loop", "then"}
  /\ ToSet(<<"loop", "else">>) = {"loop", "else"}
  /\ ToSet(<<"then", "loop">>) = {"loop", "then"}
  /\ ToSet(<<"else", "loop">>) = {"loop", "else"}
<1>1. ASSUME NEW a, NEW b  PROVE ToSet(<<a, b>>) = {a, b}
  <2>1. DOMAIN <<a, b>> = {1, 2} /\ <<a, b>>[1] = a /\ <<a, b>>[2] = b
    OBVIOUS
  <2> HIDE DEF ToSet
  <2>2. ToSet(<<a, b>>) = {<<a, b>>[i] : i \in {1, 2}}
    BY <2>1 DEF ToSet
  <2> QED
    BY <2>1, <2>2
<1>2. ASSUME NEW a  PROVE ToSet(<<a>>) = {a}
  <2>1. DOMAIN <<a>> = {1} /\ <<a>>[1] = a
    OBVIOUS
  <2>2. ToSet(<<a>>) = {<<a>>[i] : i \in {1}}
    BY <2>1 DEF ToSet
  <2> QED
    BY <2>1, <2>2
<1>3. ToSet(<<>>) = {}
  BY DEF ToSet
<1> QED
  BY <1>1, <1>2, <1>3

\* A block that is opened on a stack that has none of its kind.
LEMMA StackPush ==
  ASSUME NEW s \in Stacks, NEW b \in Blocks,
         b = "loop" => "loop" \notin ToSet(s),
         b # "loop" => "then" \notin ToSet(s) /\ "else" \notin ToSet(s)
  PROVE  /\ Append(s, b) \in Stacks
         /\ ToSet(Append(s, b)) = ToSet(s) \cup {b}
<1>1. ToSet(Append(s, b)) = ToSet(s) \cup {b}
  BY StacksAreSequences, ToSetAppend
<1>2. /\ Append(<<>>, b) = <<b>>
      /\ \A a : Append(<<a>>, b) = <<a, b>>
  <2>1. ASSUME NEW a  PROVE Append(<<a>>, b) = <<a, b>>
    <3>1. <<a>> \in Seq({a, b}) /\ Len(<<a>>) = 1 /\ <<a>>[1] = a
      OBVIOUS
    <3>2. /\ Append(<<a>>, b) \in Seq({a, b}) /\ Len(Append(<<a>>, b)) = 2
          /\ Append(<<a>>, b)[1] = a /\ Append(<<a>>, b)[2] = b
      BY <3>1
    <3>3. /\ <<a, b>> \in Seq({a, b}) /\ Len(<<a, b>>) = 2
          /\ <<a, b>>[1] = a /\ <<a, b>>[2] = b
      OBVIOUS
    <3>4. \A i \in 1 .. 2 : i = 1 \/ i = 2
      OBVIOUS
    <3> QED
      BY <3>2, <3>3, <3>4, SeqEqual
  <2>2. Append(<<>>, b) = <<b>>
    OBVIOUS
  <2> QED
    BY <2>1, <2>2
<1>3. Append(s, b) \in Stacks
  <2>1. CASE s = <<>>
    BY <1>2, <2>1 DEF Stacks, Blocks
  <2>2. CASE s = <<"loop">>
    <3>1. b = "then" \/ b = "else"
      BY <2>2, StackSets DEF Blocks
    <3> QED
      BY <1>2, <2>2, <3>1 DEF Stacks
  <2>3. CASE s = <<"then">>
    <3>1. b = "loop"
      BY <2>3, StackSets DEF Blocks
    <3> QED
      BY <1>2, <2>3, <3>1 DEF Stacks
  <2>4. CASE s = <<"else">>
    <3>1. b = "loop"
      BY <2>4, StackSets DEF Blocks
    <3> QED
      BY <1>2, <2>4, <3>1 DEF Stacks
  <2>5. CASE s \in {<<"loop", "then">>, <<"loop", "else">>, <<"then", "loop">>,
                    <<"else", "loop">>}
    BY <2>5, StackSets DEF Blocks
  <2> QED
    BY <2>1, <2>2, <2>3, <2>4, <2>5 DEF Stacks
<1> QED
  BY <1>1, <1>3

LEMMA StackPop ==
  ASSUME NEW s \in Stacks, s # <<>>
  PROVE  /\ Front(s) \in Stacks /\ Last(s) \in Blocks
         /\ ToSet(Front(s)) = ToSet(s) \ {Last(s)}
         /\ Last(s) \in ToSet(s)
         /\ Last(s) # "loop" =>
                 "then" \notin ToSet(Front(s)) /\ "else" \notin ToSet(Front(s))
<1>1. /\ Front(<<"loop">>) = <<>> /\ Last(<<"loop">>) = "loop"
      /\ Front(<<"then">>) = <<>> /\ Last(<<"then">>) = "then"
      /\ Front(<<"else">>) = <<>> /\ Last(<<"else">>) = "else"
  BY DEF Front, Last
<1>2. /\ Front(<<"loop", "then">>) = <<"loop">> /\ Last(<<"loop", "then">>) = "then"
      /\ Front(<<"loop", "else">>) = <<"loop">> /\ Last(<<"loop", "else">>) = "else"
      /\ Front(<<"then", "loop">>) = <<"then">> /\ Last(<<"then", "loop">>) = "loop"
      /\ Front(<<"else", "loop">>) = <<"else">> /\ Last(<<"else", "loop">>) = "loop"
  <2>1. ASSUME NEW a, NEW b  PROVE Front(<<a, b>>) = <<a>> /\ Last(<<a, b>>) = b
    <3>1. <<a, b>> \in Seq({a, b}) /\ Len(<<a, b>>) = 2 /\ <<a, b>>[1] = a
      OBVIOUS
    <3> QED
      BY <3>1, FrontOfTwo DEF Last
  <2> QED
    BY <2>1
<1> QED
  BY <1>1, <1>2, StackSets DEF Stacks, Blocks

LEMMA PrefixSet ==
  ASSUME NEW S, NEW s \in Seq(S), NEW t \in Seq(S), IsPrefix(s, t)
  PROVE  ToSet(s) \subseteq ToSet(t)
<1>1. Len(s) <= Len(t) /\ SubSeq(s, 1, Len(s)) = SubSeq(t, 1, Len(s))
  BY DEF IsPrefix
<1>2. ASSUME NEW x \in ToSet(s)  PROVE x \in ToSet(t)
  <2>1. PICK i \in 1 .. Len(s) : x = s[i]
    BY <1>2 DEF ToSet
  <2>2. SubSeq(s, 1, Len(s))[i] = s[i] /\ SubSeq(t, 1, Len(s))[i] = t[i]
    BY <1>1, <2>1
  <2>3. i \in DOMAIN t
    BY <1>1, <2>1
  <2> QED
    BY <1>1, <2>1, <2>2, <2>3 DEF ToSet
<1> QED
  BY <1>2

-----------------------------------------------------------------------------
(* One more operation is written.                                          *)

\* The blocks an operation opens.
Begins(op, b) ==
  (op = "for" /\ b = "loop") \/ (op = "if" /\ b = "then") \/ (op = "else" /\ b = "else")

\* What was written stays, and o comes after it.
LEMMA Appended ==
  ASSUME TextType, NEW o \in Operations, text' = Append(text, o)
  PROVE  /\ Len(text) \in Nat /\ DOMAIN text = 1 .. Len(text)
         /\ text' \in Seq(Operations) /\ Len(text') = Len(text) + 1
         /\ DOMAIN text' = 1 .. Len(text) + 1
         /\ \A i \in 1 .. Len(text) : text'[i] = text[i] /\ i \in DOMAIN text'
         /\ text'[Len(text) + 1] = o
         /\ \A i \in DOMAIN text' : i \in DOMAIN text \/ i = Len(text) + 1
         /\ \A i \in DOMAIN text : i < Len(text) + 1
  BY DEF TextType

LEMMA BeforeAppended ==
  ASSUME TextType, NEW o \in Operations, text' = Append(text, o), NEW op
  PROVE  /\ \A p \in 1 .. Len(text) + 1 : Before(p, op)' <=> Before(p, op)
         /\ Before(Len(text) + 2, op)' <=> Before(Len(text) + 1, op) \/ o.op = op
<1>1. ASSUME NEW p \in 1 .. Len(text) + 1  PROVE Before(p, op)' <=> Before(p, op)
  <2>1. ~(Len(text) + 1 < p)
    BY Appended
  <2> QED
    BY <2>1, Appended DEF Before
<1>2. Before(Len(text) + 2, op)' <=> Before(Len(text) + 1, op) \/ o.op = op
  <2>1. Len(text') + 1 = Len(text) + 2
    BY Appended
  <2>2. \A i \in DOMAIN text' : i < Len(text) + 2
    BY Appended
  <2>3. Before(Len(text) + 1, op) <=> \E i \in DOMAIN text : text[i].op = op
    BY Appended DEF Before
  <2> QED
    BY <2>2, <2>3, Appended DEF Before
<1> QED
  BY <1>1, <1>2

Fresh(op) ==
  op \in {"for", "next", "if", "else", "fi"} => ~Before(Len(text) + 1, op)

LEMMA InsideAppended ==
  ASSUME TextType, NEW o \in Operations, text' = Append(text, o), NEW b \in Blocks
  PROVE  /\ \A p \in 1 .. Len(text) + 1 : Inside(b, p)' <=> Inside(b, p)
         /\ Begun /\ Fresh(o.op) =>
              (Inside(b, Len(text) + 2)' <=>
                 (Inside(b, Len(text) + 1) /\ ~Ends(o.op, b)) \/ Begins(o.op, b))
<1>1. \A p \in 1 .. Len(text) + 1 : Inside(b, p)' <=> Inside(b, p)
  BY BeforeAppended DEF Inside
<1>2. ASSUME Begun, Fresh(o.op)
      PROVE  Inside(b, Len(text) + 2)' <=>
               (Inside(b, Len(text) + 1) /\ ~Ends(o.op, b)) \/ Begins(o.op, b)
  <2> DEFINE m == Len(text) + 1
             B(op) == Before(m, op)
             A(op) == Before(Len(text) + 2, op)'
  <2>1. \A op : A(op) <=> B(op) \/ o.op = op
    BY BeforeAppended
  <2>2. /\ B("next") => B("for")
        /\ B("else") => B("if")
        /\ B("fi") => B("else")
    <3>1. ASSUME NEW i \in DOMAIN text, NEW op, Before(i, op)  PROVE B(op)
      <4>1. i \in Nat /\ i < m /\ m \in Nat /\ DOMAIN text \subseteq Nat
        BY DEF TextType
      <4> QED
        BY <3>1, <4>1 DEF Before
    <3> QED
      BY <1>2, <3>1 DEF Begun, Before
  <2>3. /\ o.op = "for" => ~B("for")
        /\ o.op = "next" => ~B("next")
        /\ o.op = "if" => ~B("if")
        /\ o.op = "else" => ~B("else")
        /\ o.op = "fi" => ~B("fi")
    BY <1>2 DEF Fresh
  <2>4. Inside(b, m) <=>
          \/ b = "loop" /\ B("for") /\ ~B("next")
          \/ b = "then" /\ B("if") /\ ~B("else")
          \/ b = "else" /\ B("else") /\ ~B("fi")
    BY DEF Inside
  <2>5. Inside(b, Len(text) + 2)' <=>
          \/ b = "loop" /\ A("for") /\ ~A("next")
          \/ b = "then" /\ A("if") /\ ~A("else")
          \/ b = "else" /\ A("else") /\ ~A("fi")
    BY DEF Inside
  <2> HIDE DEF A, B
  <2>6. CASE b = "loop"
    BY <2>1, <2>2, <2>3, <2>4, <2>5, <2>6 DEF Ends, Begins
  <2>7. CASE b = "then"
    BY <2>1, <2>2, <2>3, <2>4, <2>5, <2>7 DEF Ends, Begins
  <2>8. CASE b = "else"
    BY <2>1, <2>2, <2>3, <2>4, <2>5, <2>8 DEF Ends, Begins
  <2> QED
    BY <2>6, <2>7, <2>8 DEF Blocks
<1> QED
  BY <1>1, <1>2

LEMMA LiveAppended ==
  ASSUME TextType, NEW o \in Operations, text' = Append(text, o)
  PROVE  \A j \in DOMAIN text, p \in 1 .. Len(text) + 1 : Live(j, p)' <=> Live(j, p)
<1> SUFFICES ASSUME NEW j \in DOMAIN text, NEW p \in 1 .. Len(text) + 1
             PROVE  Live(j, p)' <=> Live(j, p)
  OBVIOUS
<1>1. Scope(text'[j]) = Scope(text[j])
  BY Appended DEF Scope
<1>2. ~(Len(text) + 1 < p)
  BY Appended
<1>3. ASSUME NEW b
      PROVE  (\A i \in DOMAIN text' : i < p => ~Ends(text'[i].op, b))
             <=> (\A i \in DOMAIN text : i < p => ~Ends(text[i].op, b))
  BY <1>2, Appended
<1> QED
  BY <1>1, <1>3 DEF Live

\* Scopes are made of blocks.
LEMMA ScopeBlocks ==
  ASSUME TextType, NEW j \in DOMAIN text
  PROVE  /\ Scope(text[j]) \in Seq(Blocks) /\ ToSet(Scope(text[j])) \subseteq Blocks
         /\ text[j].in \in Stacks
         /\ ToSet(text[j].in) \subseteq ToSet(Scope(text[j]))
<1>1. text[j].in \in Stacks
  <2>1. text[j] \in Operations
    BY DEF TextType
  <2> HIDE DEF Stacks
  <2> QED
    BY <2>1 DEF Operations
<1>2. text[j].in \in Seq(Blocks) /\ "loop" \in Blocks
  BY <1>1, StacksAreSequences DEF Blocks
<1>3. Scope(text[j]) \in Seq(Blocks)
  BY <1>2 DEF Scope
<1>4. ToSet(text[j].in) \subseteq ToSet(Scope(text[j]))
  BY <1>2, ToSetAppend DEF Scope
<1>5. ToSet(Scope(text[j])) \subseteq Blocks
  BY <1>3 DEF ToSet
<1> QED
  BY <1>1, <1>3, <1>4, <1>5

\* A name in scope is live where the next operation is written.
LEMMA InScopeIsLive ==
  ASSUME TextInv, NEW n \in InScope
  PROVE  n \in Names /\ n # None /\ \E j \in DOMAIN text : text[j].def = n /\ Live(j, Len(text) + 1)
<1>1. PICK j \in DOMAIN text : n = text[j].def /\ n # None /\ IsPrefix(Scope(text[j]), open)
  BY DEF InScope
<1>2. open \in Seq(Blocks) /\ TextType
  BY StacksAreSequences DEF TextInv, TextType
<1>3. ToSet(Scope(text[j])) \subseteq ToSet(open) /\ ToSet(Scope(text[j])) \subseteq Blocks
  BY <1>1, <1>2, ScopeBlocks, PrefixSet
<1>4. \A b \in ToSet(Scope(text[j])) : Inside(b, Len(text) + 1)
  BY <1>3 DEF TextInv, OpenBlocks, Blocks
<1>5. ASSUME NEW b \in ToSet(Scope(text[j])), NEW i \in DOMAIN text, i < Len(text) + 1
      PROVE  ~Ends(text[i].op, b)
  BY <1>4, <1>5 DEF Inside, Before, Ends
<1>6. j < Len(text) + 1 /\ text[j] \in Operations
  BY <1>2 DEF TextType
<1> QED
  BY <1>1, <1>5, <1>6 DEF Live, Operations

\* Operation o may come next, and leaves the blocks of s open.
Fits(o, s) ==
  /\ Fresh(o.op)
  /\ \A b \in Blocks :
       b \in ToSet(s) <=> (b \in ToSet(open) /\ ~Ends(o.op, b)) \/ Begins(o.op, b)
  /\ \A b \in Blocks : b \in ToSet(o.in) <=> b \in ToSet(open) /\ ~Ends(o.op, b)
  /\ o.op = "next" => "loop" \in ToSet(open)
  /\ o.op = "else" => "then" \in ToSet(open)
  /\ o.op = "fi" => "else" \in ToSet(open)

\* What o uses and defines is in order.
NamesFit(o) ==
  /\ o.task # None =>
          \E j \in DOMAIN text : text[j].def = o.task /\ Live(j, Len(text) + 1)
  /\ o.op \in {"start", "free"} => o.task # None
  /\ o.op = "configure" => o.def # None
  /\ o.def # None =>
       \/ o.op = "configure"
       \/ o.op = "for" /\ o.def = "arg" /\ o.task # None
       \/ o.op = "next" /\ o.def = "result" /\ o.task # None
       \/ o.op = "fi" /\ o.def = "phi" /\ o.task # None
  /\ o.op = "next" /\ o.def # None =>
       \A f \in DOMAIN text : text[f].op = "for" => text[f].task # None

\* An arm that is still open in the loop began there.
LEMMA ArmOfLoop ==
  ASSUME TextInv, NEW f \in DOMAIN text, text[f].op = "for",
         ~Before(Len(text) + 1, "next")
  PROVE  /\ open # <<>> /\ Last(open) = "then" =>
              \E j \in DOMAIN text : f < j /\ text[j].op = "if"
         /\ open # <<>> /\ Last(open) = "else" =>
              \E j \in DOMAIN text : f < j /\ text[j].op = "else"
<1>1. Before(Len(text) + 1, "for")
  <2>1. f < Len(text) + 1
    BY DEF TextInv, TextType
  <2> QED
    BY <2>1 DEF Before
<1>2. "loop" \in ToSet(open)
  BY <1>1 DEF TextInv, OpenBlocks, Inside
<1>3. open \in {<<"loop">>, <<"loop", "then">>, <<"loop", "else">>, <<"then", "loop">>,
                <<"else", "loop">>}
  BY <1>2, StackSets DEF TextInv, TextType, Stacks
<1>4. /\ Last(<<"loop">>) = "loop" /\ Last(<<"then", "loop">>) = "loop"
      /\ Last(<<"else", "loop">>) = "loop" /\ Last(<<"loop", "then">>) = "then"
      /\ Last(<<"loop", "else">>) = "else"
  BY DEF Last
<1> QED
  BY <1>3, <1>4 DEF TextInv, NestedOpen

LEMMA TextStep ==
  ASSUME TextInv, NEW o \in Operations, text' = Append(text, o), open' \in Stacks,
         Fits(o, open'), NamesFit(o),
         o.op \in {"else", "fi"} => open # <<>> /\ Ends(o.op, Last(open)),
         NestedOpen'
  PROVE  TextInv'
<1> DEFINE m == Len(text) + 1
<1>1. TextType
  BY DEF TextInv
<1>2. /\ m \in Nat /\ DOMAIN text = 1 .. Len(text) /\ Len(text') + 1 = Len(text) + 2
      /\ \A i \in DOMAIN text : i \in 1 .. m /\ i < m
  BY <1>1, Appended
<1>3. /\ \A i \in DOMAIN text : text'[i] = text[i] /\ i \in DOMAIN text'
      /\ text'[m] = o /\ m \in DOMAIN text'
      /\ \A i \in DOMAIN text' : i \in DOMAIN text \/ i = m
  BY <1>1, Appended
<1>4. \A op : \A p \in 1 .. m : Before(p, op)' <=> Before(p, op)
  BY <1>1, BeforeAppended
<1>5. \A b \in Blocks, p \in 1 .. m : Inside(b, p)' <=> Inside(b, p)
  BY <1>1, InsideAppended
<1>6. \A j \in DOMAIN text, p \in 1 .. m : Live(j, p)' <=> Live(j, p)
  BY <1>1, LiveAppended
<1>7. m \in 1 .. m
  BY <1>2
<1> HIDE DEF m
<1>8. TextType'
  BY <1>1, Appended DEF TextType
<1>9. Once'
  <2>1. \A i \in DOMAIN text :
          text[i].op = o.op => o.op \notin {"for", "next", "if", "else", "fi"}
    BY <1>2 DEF Fits, Fresh, Before, m
  <2> QED
    BY <1>3, <2>1 DEF TextInv, Once
<1>10. OpenBlocks'
  <2>1. ASSUME NEW b \in Blocks
        PROVE  b \in ToSet(open') <=> Inside(b, Len(text) + 2)'
    <3>1. b \in ToSet(open) <=> Inside(b, m)
      BY DEF TextInv, OpenBlocks, Blocks, m
    <3>2. Inside(b, Len(text) + 2)' <=> (Inside(b, m) /\ ~Ends(o.op, b)) \/ Begins(o.op, b)
      BY <1>1, InsideAppended DEF TextInv, Fits, m
    <3> QED
      BY <3>1, <3>2 DEF Fits
  <2>2. ASSUME NEW b \in Blocks
        PROVE  Inside(b, Len(text) + 1)' <=> Inside(b, Len(text) + 2)'
    BY <1>2 DEF Inside, Before
  <2> QED
    BY <2>1, <2>2 DEF OpenBlocks, Blocks
<1>11. InBlocks'
  <2>1. ASSUME NEW b \in Blocks
        PROVE  b \in ToSet(o.in) <=> Inside(b, m) /\ ~Ends(o.op, b)
    BY <2>1 DEF TextInv, OpenBlocks, Fits, Blocks, m
  <2>2. ASSUME NEW i \in DOMAIN text', NEW b \in Blocks
        PROVE  b \in ToSet(text'[i].in) <=> Inside(b, i)' /\ ~Ends(text'[i].op, b)
    <3>1. CASE i \in DOMAIN text
      BY <1>2, <1>3, <1>5, <3>1 DEF TextInv, InBlocks, Blocks
    <3>2. CASE i = m
      BY <1>3, <1>5, <1>7, <2>1, <3>2
    <3> QED
      BY <1>3, <3>1, <3>2
  <2> QED
    BY <2>2 DEF InBlocks, Blocks
<1>12. Begun'
  <2>1. /\ o.op = "next" => Before(m, "for")
        /\ o.op = "else" => Before(m, "if")
        /\ o.op = "fi" => Before(m, "else")
    <3>1. \A b \in Blocks : b \in ToSet(open) => Inside(b, m)
      BY DEF TextInv, OpenBlocks, Blocks, m
    <3> QED
      BY <3>1 DEF Fits, Inside, Blocks
  <2>2. ASSUME NEW i \in DOMAIN text'
        PROVE  /\ text'[i].op = "next" => Before(i, "for")'
               /\ text'[i].op = "else" => Before(i, "if")'
               /\ text'[i].op = "fi" => Before(i, "else")'
    <3>1. CASE i \in DOMAIN text
      BY <1>2, <1>3, <1>4, <3>1 DEF TextInv, Begun
    <3>2. CASE i = m
      BY <1>3, <1>4, <1>7, <2>1, <3>2
    <3> QED
      BY <1>3, <3>1, <3>2
  <2> QED
    BY <2>2 DEF Begun
<1>13. Nested'
  <2>1. ASSUME NEW f \in DOMAIN text', NEW i \in DOMAIN text',
               text'[f].op = "for", f < i, ~Before(i, "next")'
        PROVE  /\ text'[i].op = "else" =>
                    \E j \in DOMAIN text' : f < j /\ j < i /\ text'[j].op = "if"
               /\ text'[i].op = "fi" =>
                    \E j \in DOMAIN text' : f < j /\ j < i /\ text'[j].op = "else"
    <3>1. f \in DOMAIN text
      BY <1>2, <1>3, <2>1
    <3>2. CASE i \in DOMAIN text
      <4>1. ~Before(i, "next") /\ text[f].op = "for" /\ text'[i] = text[i]
        BY <1>2, <1>3, <1>4, <2>1, <3>1, <3>2
      <4>2. /\ text[i].op = "else" =>
                 \E j \in DOMAIN text : f < j /\ j < i /\ text[j].op = "if"
            /\ text[i].op = "fi" =>
                 \E j \in DOMAIN text : f < j /\ j < i /\ text[j].op = "else"
        BY <2>1, <3>1, <3>2, <4>1 DEF TextInv, Nested
      <4> QED
        BY <1>3, <4>1, <4>2
    <3>3. CASE i = m
      <4>1. ~Before(m, "next") /\ text[f].op = "for" /\ text'[i] = o
        BY <1>3, <1>4, <1>7, <2>1, <3>1, <3>3
      <4>2. /\ open # <<>> /\ Last(open) = "then" =>
                 \E j \in DOMAIN text : f < j /\ text[j].op = "if"
            /\ open # <<>> /\ Last(open) = "else" =>
                 \E j \in DOMAIN text : f < j /\ text[j].op = "else"
        BY <3>1, <4>1, ArmOfLoop DEF m
      <4>3. /\ o.op = "else" => open # <<>> /\ Last(open) = "then"
            /\ o.op = "fi" => open # <<>> /\ Last(open) = "else"
        BY DEF Ends
      <4> QED
        BY <1>2, <1>3, <3>3, <4>1, <4>2, <4>3
    <3> QED
      BY <1>3, <3>2, <3>3
  <2> QED
    BY <2>1 DEF Nested
<1>14. UsesDefined'
  <2>1. ASSUME NEW i \in DOMAIN text', text'[i].task # None
        PROVE  \E j \in DOMAIN text' : text'[j].def = text'[i].task /\ Live(j, i)'
    <3>1. i \in 1 .. m
      BY <1>2, <1>3, <1>7
    <3>2. PICK j \in DOMAIN text : text[j].def = text'[i].task /\ Live(j, i)
      <4>1. CASE i \in DOMAIN text
        BY <1>3, <2>1, <4>1 DEF TextInv, UsesDefined
      <4>2. CASE i = m
        BY <1>3, <2>1, <4>2 DEF NamesFit, m
      <4> QED
        BY <1>3, <4>1, <4>2
    <3> QED
      BY <1>3, <1>6, <3>1, <3>2
  <2> QED
    BY <2>1 DEF UsesDefined
<1>15. Defines'
  BY <1>3 DEF TextInv, Defines, NamesFit
<1>16. Carries'
  <2>1. ASSUME NEW i \in DOMAIN text', NEW f \in DOMAIN text',
               text'[i].op = "next", text'[i].def # None, text'[f].op = "for"
        PROVE  text'[f].task # None
    <3>1. CASE f = m /\ i \in DOMAIN text
      <4>1. text[i].op = "next" /\ o.op = "for"
        BY <1>3, <2>1, <3>1
      <4>2. Before(i, "for") /\ ~Before(m, "for")
        BY <3>1, <4>1 DEF TextInv, Begun, Fits, Fresh, m
      <4> QED
        BY <1>2, <4>2 DEF Before
    <3>2. CASE f \in DOMAIN text
      BY <1>3, <2>1, <3>2 DEF TextInv, Carries, NamesFit
    <3>3. CASE f = m /\ i = m
      BY <1>3, <2>1, <3>3
    <3> QED
      BY <1>3, <3>1, <3>2, <3>3
  <2> QED
    BY <2>1 DEF Carries
<1> QED
  BY <1>8, <1>9, <1>10, <1>11, <1>12, <1>13, <1>14, <1>15, <1>16 DEF TextInv

LEMMA AtIs ==
  ASSUME Once, NEW i \in DOMAIN text,
         text[i].op \in {"for", "next", "if", "else", "fi"}
  PROVE  At(text[i].op) = i
<1>1. \A j \in DOMAIN text : text[j].op = text[i].op <=> j = i
  BY DEF Once
<1> QED
  BY <1>1 DEF At

\* The kinds of operation have names of their own.
LEMMA OpsDiffer ==
  \A b \in Blocks :
    /\ \A op \in {"start", "free", "configure"} : ~Ends(op, b) /\ ~Begins(op, b) /\ Fresh(op)
    /\ Ends("next", b) <=> b = "loop"
    /\ Ends("else", b) <=> b = "then"
    /\ Ends("fi", b) <=> b = "else"
    /\ ~Ends("for", b) /\ ~Ends("if", b)
    /\ Begins("for", b) <=> b = "loop"
    /\ Begins("if", b) <=> b = "then"
    /\ Begins("else", b) <=> b = "else"
    /\ ~Begins("next", b) /\ ~Begins("fi", b)
  BY DEF Ends, Begins, Fresh, Blocks

LEMMA OpenMeans ==
  ASSUME TextInv
  PROVE  /\ "loop" \in ToSet(open) => Has("for") /\ Fresh("next")
         /\ "then" \in ToSet(open) => Has("if") /\ Fresh("else")
         /\ "else" \in ToSet(open) => Has("if") /\ Fresh("fi")
         /\ \A op : ~Has(op) => Fresh(op)
<1>1. \A b \in Blocks : b \in ToSet(open) <=> Inside(b, Len(text) + 1)
  BY DEF TextInv, OpenBlocks, Blocks
<1>2. \A op, p : Before(p, op) => Has(op)
  BY DEF Before, Has
<1>3. Has("else") => Has("if")
  BY <1>2 DEF TextInv, Begun, Has
<1> QED
  BY <1>1, <1>2, <1>3 DEF Inside, Fresh, Blocks

\* The innermost of the open blocks.
LEMMA InnermostIs ==
  ASSUME TextInv, NEW b \in Blocks, Innermost = b
  PROVE  /\ open # <<>> /\ Last(open) = b /\ b \in ToSet(open)
         /\ Front(open) \in Stacks /\ ToSet(Front(open)) = ToSet(open) \ {b}
         /\ b # "loop" =>
                 "then" \notin ToSet(Front(open)) /\ "else" \notin ToSet(Front(open))
<1>1. open # <<>> /\ Last(open) = b
  BY DEF Innermost, Blocks
<1> QED
  BY <1>1, StackPop DEF TextInv, TextType

\* An operation in the innermost block.
LEMMA PlainStep ==
  ASSUME TextInv, NEW o \in Operations, text' = Append(text, o), open' = open,
         o.in = open, o.op \in {"start", "free", "configure"}, NamesFit(o)
  PROVE  TextInv'
<1>1. open' \in Stacks
  BY DEF TextInv, TextType
<1>2. Fits(o, open')
  <2>1. o.op # "next" /\ o.op # "else" /\ o.op # "fi"
    OBVIOUS
  <2>2. Fresh(o.op) /\ \A b \in Blocks : ~Ends(o.op, b) /\ ~Begins(o.op, b)
    BY DEF Ends, Begins, Fresh
  <2> QED
    BY <2>1, <2>2 DEF Fits
<1>3. NestedOpen'
  <2>1. \A f \in DOMAIN text' : text'[f].op = "for" =>
          f \in DOMAIN text /\ text[f].op = "for"
    BY Appended DEF TextInv
  <2>2. \A j \in DOMAIN text : j \in DOMAIN text' /\ text'[j] = text[j]
    BY Appended DEF TextInv
  <2>3. NestedOpen
    BY DEF TextInv
  <2> QED
    BY <2>1, <2>2, <2>3 DEF NestedOpen
<1> QED
  BY <1>1, <1>2, <1>3, TextStep

LEMMA TextWriteUse ==
  ASSUME TextInv, WriteUse
  PROVE  TextInv'
<1>1. PICK op \in {"start", "free"}, n \in InScope : Write(op, n, None, open)
  BY DEF WriteUse
<1> DEFINE o == [op |-> op, task |-> n, def |-> None, in |-> open]
<1>2. n \in Names /\ n # None /\ \E j \in DOMAIN text : text[j].def = n /\ Live(j, Len(text) + 1)
  BY InScopeIsLive
<1>3. o \in Operations
  BY <1>1, <1>2 DEF TextInv, TextType, Operations, Ops
<1>4. NamesFit(o)
  BY <1>1, <1>2 DEF NamesFit
<1>5. o.in = open /\ o.op \in {"start", "free", "configure"}
  OBVIOUS
<1>6. text' = Append(text, o) /\ open' = open
  BY <1>1 DEF Write, WriteUse
<1> HIDE DEF o
<1> QED
  BY <1>3, <1>4, <1>5, <1>6, PlainStep

LEMMA TextWriteConfigure ==
  ASSUME TextInv, WriteConfigure
  PROVE  TextInv'
<1> DEFINE def == IF open = <<>> /\ Has("for") THEN "late" ELSE Innermost
           o == [op |-> "configure", task |-> None, def |-> def, in |-> open]
<1>1. def \in Names
  <2>1. open # <<>> => Last(open) \in Blocks
    BY StackPop DEF TextInv, TextType
  <2> QED
    BY <2>1 DEF Names, Innermost, Blocks
<1>2. text' = Append(text, o) /\ open' = open
  BY DEF Write, WriteConfigure
<1>3. o \in Operations
  BY <1>1 DEF TextInv, TextType, Operations, Ops
<1>4. NamesFit(o)
  <2>1. def # None
    BY <1>1, NoneAssumption
  <2> HIDE DEF def
  <2> QED
    BY <2>1 DEF NamesFit
<1>5. o.in = open /\ o.op \in {"start", "free", "configure"}
  OBVIOUS
<1> HIDE DEF o
<1> QED
  BY <1>2, <1>3, <1>4, <1>5, PlainStep

LEMMA NestedOpenIf ==
  ASSUME TextType, NEW o \in Operations, text' = Append(text, o),
         o.op \in {"next", "for", "fi"}
           => open' # <<"loop", "then">> /\ open' # <<"loop", "else">>,
         o.op = "if" => open' # <<"loop", "else">>,
         o.op = "else" => open' # <<"loop", "then">>,
         o.op \in {"next", "for", "fi", "if", "else"}
  PROVE  NestedOpen'
<1>1. \A f \in DOMAIN text' : f = Len(text) + 1 \/ f < Len(text) + 1
  BY Appended
<1>2. Len(text) + 1 \in DOMAIN text' /\ text'[Len(text) + 1] = o
  BY Appended
<1>3. CASE o.op \in {"next", "for", "fi"}
  BY <1>3 DEF NestedOpen
<1>4. CASE o.op = "if"
  <2>1. \A f \in DOMAIN text' : text'[f].op = "for" => f < Len(text) + 1
    BY <1>1, <1>2, <1>4
  <2> QED
    BY <1>2, <1>4, <2>1 DEF NestedOpen
<1>5. CASE o.op = "else"
  <2>1. \A f \in DOMAIN text' : text'[f].op = "for" => f < Len(text) + 1
    BY <1>1, <1>2, <1>5
  <2> QED
    BY <1>2, <1>5, <2>1 DEF NestedOpen
<1> QED
  BY <1>3, <1>4, <1>5

LEMMA TextWriteFor ==
  ASSUME TextInv, WriteFor
  PROVE  TextInv'
<1>1. PICK n \in InScope \cup {None} :
        Write("for", n, IF n = None THEN None ELSE "arg", open)
  BY DEF WriteFor
<1> DEFINE o == [op |-> "for", task |-> n, def |-> IF n = None THEN None ELSE "arg",
                 in |-> open]
<1>2. n # None =>
           n \in Names /\ \E j \in DOMAIN text : text[j].def = n /\ Live(j, Len(text) + 1)
  BY InScopeIsLive
<1>3. o \in Operations
  BY <1>1, <1>2 DEF TextInv, TextType, Operations, Ops, Names
<1>4. NamesFit(o)
  BY <1>1, <1>2 DEF NamesFit
<1>5. text' = Append(text, o) /\ open' = Append(open, "loop") /\ ~Has("for")
  BY <1>1 DEF Write, WriteFor
<1>6. o.op = "for" /\ o.in = open
  OBVIOUS
<1> HIDE DEF o
<1>7. /\ open' \in Stacks /\ ToSet(open') = ToSet(open) \cup {"loop"}
  BY <1>5, OpenMeans, StackPush DEF TextInv, TextType, Blocks
<1>8. Fits(o, open')
  BY <1>5, <1>6, <1>7, OpsDiffer, OpenMeans DEF Fits
<1>9. open' # <<"loop", "then">> /\ open' # <<"loop", "else">>
  <2>1. Last(open') = "loop"
    <3>1. open \in Seq(Blocks)
      BY StacksAreSequences DEF TextInv, TextType
    <3> QED
      BY <1>5, <3>1 DEF Last
  <2> QED
    BY <2>1 DEF Last
<1>10. NestedOpen'
  BY <1>3, <1>5, <1>6, <1>9, NestedOpenIf DEF TextInv
<1> QED
  BY <1>3, <1>4, <1>5, <1>6, <1>7, <1>8, <1>10, TextStep

LEMMA TextWriteNext ==
  ASSUME TextInv, WriteNext
  PROVE  TextInv'
<1>1. PICK o \in Operations :
        /\ text' = Append(text, o) /\ NamesFit(o) /\ o.op = "next" /\ o.in = Front(open)
  <2>1. open' = Front(open)
    BY DEF WriteNext
  <2>2. Front(open) \in Stacks
    BY InnermostIs DEF WriteNext, Blocks
  <2>3. \A f \in DOMAIN text : text[f].op = "for" => At("for") = f
    BY AtIs DEF TextInv
  <2>4. CASE text[At("for")].task = None
    <3> DEFINE o == [op |-> "next", task |-> None, def |-> None, in |-> Front(open)]
    <3>1. text' = Append(text, o)
      BY <2>1, <2>4 DEF WriteNext, Write
    <3>2. o \in Operations
      BY <2>2 DEF Operations, Ops
    <3>3. NamesFit(o)
      BY DEF NamesFit
    <3> QED
      BY <3>1, <3>2, <3>3
  <2>5. CASE text[At("for")].task # None
    <3>1. PICK n \in InScope : Write("next", n, "result", open')
      BY <2>5 DEF WriteNext
    <3> DEFINE o == [op |-> "next", task |-> n, def |-> "result", in |-> Front(open)]
    <3>2. text' = Append(text, o)
      BY <2>1, <3>1 DEF Write
    <3>3. /\ n \in Names /\ n # None
          /\ \E j \in DOMAIN text : text[j].def = n /\ Live(j, Len(text) + 1)
      BY InScopeIsLive
    <3>4. o \in Operations
      BY <2>2, <3>3 DEF Operations, Ops, Names
    <3>5. NamesFit(o)
      BY <2>3, <2>5, <3>3 DEF NamesFit
    <3> QED
      BY <3>2, <3>4, <3>5
  <2> QED
    BY <2>4, <2>5
<1>2. /\ open' = Front(open) /\ open' \in Stacks /\ "loop" \in ToSet(open)
      /\ ToSet(open') = ToSet(open) \ {"loop"} /\ Last(open) = "loop" /\ open # <<>>
  BY InnermostIs DEF WriteNext, Blocks
<1>3. Fits(o, open')
  BY <1>1, <1>2, OpsDiffer, OpenMeans DEF Fits
<1>4. open' # <<"loop", "then">> /\ open' # <<"loop", "else">>
  <2>1. "loop" \notin ToSet(open')
    BY <1>2
  <2> QED
    BY <2>1, StackSets
<1>5. NestedOpen'
  BY <1>1, <1>4, NestedOpenIf DEF TextInv
<1> QED
  BY <1>1, <1>2, <1>3, <1>5, TextStep

LEMMA TextWriteIf ==
  ASSUME TextInv, WriteIf
  PROVE  TextInv'
<1> DEFINE o == [op |-> "if", task |-> None, def |-> None, in |-> open]
<1>1. o \in Operations
  BY DEF TextInv, TextType, Operations, Ops
<1>2. NamesFit(o)
  BY DEF NamesFit
<1>3. text' = Append(text, o) /\ open' = Append(open, "then") /\ ~Has("if")
  BY DEF Write, WriteIf
<1>4. o.op = "if" /\ o.in = open
  OBVIOUS
<1> HIDE DEF o
<1>5. /\ open' \in Stacks /\ ToSet(open') = ToSet(open) \cup {"then"}
  BY <1>3, OpenMeans, StackPush DEF TextInv, TextType, Blocks
<1>6. Fits(o, open')
  BY <1>3, <1>4, <1>5, OpsDiffer, OpenMeans DEF Fits
<1>7. open' # <<"loop", "else">>
  <2>1. "then" \in ToSet(open')
    BY <1>5
  <2> QED
    BY <2>1, StackSets
<1>8. NestedOpen'
  BY <1>1, <1>3, <1>4, <1>7, NestedOpenIf DEF TextInv
<1> QED
  BY <1>1, <1>2, <1>3, <1>4, <1>5, <1>6, <1>8, TextStep

LEMMA TextWriteElse ==
  ASSUME TextInv, WriteElse
  PROVE  TextInv'
<1>1. PICK n \in InScope \cup {None} : Write("else", n, None, Front(open))
  BY DEF WriteElse
<1> DEFINE o == [op |-> "else", task |-> n, def |-> None, in |-> Front(open)]
<1>2. n # None =>
           n \in Names /\ \E j \in DOMAIN text : text[j].def = n /\ Live(j, Len(text) + 1)
  BY InScopeIsLive
<1>3. /\ open # <<>> /\ Last(open) = "then" /\ "then" \in ToSet(open)
      /\ Front(open) \in Stacks /\ ToSet(Front(open)) = ToSet(open) \ {"then"}
      /\ "then" \notin ToSet(Front(open)) /\ "else" \notin ToSet(Front(open))
  BY InnermostIs DEF WriteElse, Blocks
<1>4. o \in Operations
  BY <1>2, <1>3 DEF Operations, Ops
<1>5. NamesFit(o)
  BY <1>2 DEF NamesFit
<1>6. text' = Append(text, o) /\ open' = Append(Front(open), "else")
  BY <1>1 DEF Write, WriteElse
<1>7. o.op = "else" /\ o.in = Front(open)
  OBVIOUS
<1> HIDE DEF o
<1>8. open' \in Stacks /\ ToSet(open') = (ToSet(open) \ {"then"}) \cup {"else"}
  BY <1>3, <1>6, StackPush DEF Blocks
<1>9. Fits(o, open')
  BY <1>3, <1>7, <1>8, OpsDiffer, OpenMeans DEF Fits
<1>10. open' # <<"loop", "then">>
  <2>1. "else" \in ToSet(open')
    BY <1>8
  <2> QED
    BY <2>1, StackSets
<1>11. NestedOpen'
  BY <1>4, <1>6, <1>7, <1>10, NestedOpenIf DEF TextInv
<1>12. Ends(o.op, Last(open))
  BY <1>3, <1>7 DEF Ends
<1> QED
  BY <1>3, <1>4, <1>5, <1>6, <1>8, <1>9, <1>11, <1>12, TextStep

LEMMA TextWriteFi ==
  ASSUME TextInv, WriteFi
  PROVE  TextInv'
<1>1. PICK n \in InScope \cup {None} :
        Write("fi", n, IF n = None THEN None ELSE "phi", open')
  BY DEF WriteFi
<1> DEFINE o == [op |-> "fi", task |-> n, def |-> IF n = None THEN None ELSE "phi",
                 in |-> Front(open)]
<1>2. n # None =>
           n \in Names /\ \E j \in DOMAIN text : text[j].def = n /\ Live(j, Len(text) + 1)
  BY InScopeIsLive
<1>3. /\ open # <<>> /\ Last(open) = "else" /\ "else" \in ToSet(open)
      /\ Front(open) \in Stacks /\ ToSet(Front(open)) = ToSet(open) \ {"else"}
  BY InnermostIs DEF WriteFi, Blocks
<1>4. o \in Operations
  BY <1>2, <1>3 DEF Operations, Ops, Names
<1>5. NamesFit(o)
  BY <1>2 DEF NamesFit
<1>6. text' = Append(text, o) /\ open' = Front(open)
  BY <1>1 DEF Write, WriteFi
<1>7. o.op = "fi" /\ o.in = Front(open)
  OBVIOUS
<1> HIDE DEF o
<1>8. Fits(o, open')
  BY <1>3, <1>6, <1>7, OpsDiffer, OpenMeans DEF Fits
<1>9. open' # <<"loop", "then">> /\ open' # <<"loop", "else">>
  BY <1>3, <1>6, InnermostIs, StackSets DEF WriteFi, Blocks
<1>10. NestedOpen'
  BY <1>4, <1>6, <1>7, <1>9, NestedOpenIf DEF TextInv
<1>11. Ends(o.op, Last(open))
  BY <1>3, <1>7 DEF Ends
<1> QED
  BY <1>3, <1>4, <1>5, <1>6, <1>8, <1>10, <1>11, TextStep

LEMMA TextWrites ==
  ASSUME TextInv, Writes
  PROVE  TextInv'
  BY TextWriteUse, TextWriteConfigure, TextWriteFor, TextWriteNext, TextWriteIf,
     TextWriteElse, TextWriteFi
  DEF Writes

LEMMA TextInit == Init => TextInv
<1> SUFFICES ASSUME Init  PROVE TextInv
  OBVIOUS
<1>1. text = <<>> /\ open = <<>> /\ DOMAIN text = {}
  BY DEF Init
<1>2. \A b : ~Inside(b, Len(text) + 1)
  BY <1>1 DEF Inside, Before
<1>3. OpenBlocks
  BY <1>1, <1>2, StackSets DEF OpenBlocks
<1>4. TextType
  BY <1>1 DEF TextType, Stacks
<1> QED
  BY <1>1, <1>3, <1>4
  DEF TextInv, Once, InBlocks, Begun, Nested, NestedOpen, UsesDefined, Defines, Carries

-----------------------------------------------------------------------------
(* The free list.                                                          *)

LEMMA LeastOf ==
  ASSUME NEW S \in SUBSET Nat, S # {}
  PROVE  \E x \in S : \A y \in S : x <= y
<1> DEFINE R == OpToRel(<, Nat)
<1>1. IsWellFoundedOn(R, Nat)
  BY NatLessThanWellFounded, Zenon
<1>2. R = {ss \in Nat \X Nat : ss[1] < ss[2]}
  BY Zenon DEF OpToRel
<1> HIDE DEF R
<1>3. PICK x \in S : \A y \in S : <<y, x>> \notin R
  BY <1>1, WFMin, Zenon
<1>4. ASSUME NEW y \in S, y < x  PROVE FALSE
  <2>1. <<y, x>> \in Nat \X Nat /\ <<y, x>>[1] < <<y, x>>[2]
    BY <1>4
  <2>2. <<y, x>> \in R
    BY <1>2, <2>1, Zenon
  <2> QED
    BY <1>3, <2>2
<1> QED
  BY <1>4

LEMMA InjectiveAppend ==
  ASSUME NEW S, NEW s \in Seq(S), NEW e \in S, IsInjective(s), e \notin ToSet(s)
  PROVE  IsInjective(Append(s, e))
<1>1. /\ DOMAIN Append(s, e) = 1 .. Len(s) + 1 /\ DOMAIN s = 1 .. Len(s)
      /\ Len(s) \in Nat
      /\ \A i \in 1 .. Len(s) : Append(s, e)[i] = s[i]
      /\ Append(s, e)[Len(s) + 1] = e
  OBVIOUS
<1>2. \A i \in 1 .. Len(s) : s[i] # e
  BY <1>1 DEF ToSet
<1>3. \A i \in 1 .. Len(s) + 1 : i \in 1 .. Len(s) \/ i = Len(s) + 1
  BY <1>1
<1> QED
  BY <1>1, <1>2, <1>3 DEF IsInjective

LEMMA InjectiveFront ==
  ASSUME NEW S, NEW s \in Seq(S), s # <<>>, IsInjective(s)
  PROVE  IsInjective(Front(s)) /\ ToSet(Front(s)) = ToSet(s) \ {Last(s)}
<1>1. /\ Len(s) \in Nat \ {0} /\ Front(s) \in Seq(S)
      /\ Len(Front(s)) = Len(s) - 1
      /\ \A i \in 1 .. Len(s) - 1 : Front(s)[i] = s[i]
  BY FrontLast
<1>2. DOMAIN s = 1 .. Len(s) /\ DOMAIN Front(s) = 1 .. Len(s) - 1
  BY <1>1
<1>3. \A i \in 1 .. Len(s) - 1 : i \in 1 .. Len(s) /\ i # Len(s)
  BY <1>1
<1>4. Len(s) \in 1 .. Len(s)
  BY <1>1
<1>5. IsInjective(Front(s))
  BY <1>1, <1>2, <1>3 DEF IsInjective
<1>6. \A i \in 1 .. Len(s) - 1 : Front(s)[i] # Last(s)
  BY <1>1, <1>2, <1>3, <1>4 DEF IsInjective, Last
<1>7. Last(s) \notin ToSet(Front(s))
  BY <1>2, <1>6 DEF ToSet
<1> QED
  BY <1>5, <1>7, ToSetFront

\* While an id is not on the list there is room for it.
LEMMA PoolHasRoom ==
  ASSUME NEW s \in Seq(PoolIds), IsInjective(s), NEW id \in PoolIds, id \notin ToSet(s)
  PROVE  Len(s) < kMaxBDsPerTile
<1>1. Len(s) \in Nat /\ DOMAIN s = 1 .. Len(s)
  OBVIOUS
<1>2. s \in [1 .. Len(s) -> ToSet(s)]
  BY <1>1 DEF ToSet
<1>3. s \in Bijection(1 .. Len(s), ToSet(s))
  BY <1>1, <1>2 DEF Bijection, Injection, Surjection, IsInjective, ToSet
<1>4. Cardinality(ToSet(s)) = Len(s)
  BY <1>1, <1>3, FS_CountingElements DEF ExistsBijection
<1>5. IsFiniteSet(0 .. BdEnd - 1) /\ Cardinality(0 .. BdEnd - 1) = BdEnd
  BY IdsAssumption, FS_Interval DEF IdsAssumption
<1>6. ToSet(s) \subseteq 0 .. BdEnd - 1 /\ id \in 0 .. BdEnd - 1
  BY <1>1, IdsAssumption DEF ToSet, PoolIds, IdsAssumption
<1>7. Cardinality(ToSet(s)) <= BdEnd /\ Cardinality(ToSet(s)) # BdEnd
  <2>1. ToSet(s) # 0 .. BdEnd - 1
    BY <1>6
  <2> HIDE DEF ToSet
  <2> QED
    BY <1>5, <1>6, <2>1, FS_Subset, Zenon
<1>8. Len(s) <= BdEnd /\ Len(s) # BdEnd
  BY <1>4, <1>7
<1>9. BdEnd \in Nat /\ kMaxBDsPerTile \in Nat /\ BdEnd <= kMaxBDsPerTile
  BY IdsAssumption DEF IdsAssumption
<1>10. PICK n \in Nat : n = Len(s)
  BY <1>1
<1>11. n < kMaxBDsPerTile
  BY <1>8, <1>9, <1>10
<1> QED
  BY <1>10, <1>11

\* One more id on the list, unless a static DMA owns it.
Stacked(f, k) ==
  [n \in 0..k |->
     IF n = 0 THEN <<>>
     ELSE IF BdEnd - n \in StaticIds THEN f[n - 1]
     ELSE Append(f[n - 1], BdEnd - n)]

LEMMA StackExists ==
  ASSUME NEW m \in Nat
  PROVE  \E f : f = Stacked(f, m)
<1> DEFINE Wrong == {k \in 0..m : ~ \E f : f = Stacked(f, k)}
<1>1. SUFFICES ASSUME Wrong # {}  PROVE FALSE
  <2>1. m \in 0..m
    OBVIOUS
  <2> QED
    BY <1>1, <2>1
<1>2. PICK k \in Wrong : \A j \in Wrong : k <= j
  <2>1. Wrong \in SUBSET Nat
    OBVIOUS
  <2> HIDE DEF Wrong
  <2> QED
    BY <1>1, <2>1, LeastOf
<1>3. k # 0
  <2>1. [n \in 0..0 |-> <<>>] = Stacked([n \in 0..0 |-> <<>>], 0)
    BY DEF Stacked
  <2> QED
    BY <2>1
<1>4. k \in 1..m /\ k - 1 \in 0..m /\ k - 1 \notin Wrong
  <2>1. k \in 1..m /\ k - 1 \in 0..m /\ ~(k <= k - 1)
    BY <1>2, <1>3
  <2> HIDE DEF Wrong
  <2> QED
    BY <1>2, <2>1
<1>5. PICK f : f = Stacked(f, k - 1)
  BY <1>4
<1> DEFINE g == [n \in 0..k |->
                   IF n = k
                   THEN IF BdEnd - k \in StaticIds THEN f[k - 1]
                        ELSE Append(f[k - 1], BdEnd - k)
                   ELSE f[n]]
<1>6. g = Stacked(g, k)
  <2>1. ASSUME NEW n \in 0..k
        PROVE  g[n] = IF n = 0 THEN <<>>
                      ELSE IF BdEnd - n \in StaticIds THEN g[n - 1]
                      ELSE Append(g[n - 1], BdEnd - n)
    <3>1. CASE n = k
      <4>1. k - 1 \in 0..k /\ g[k - 1] = f[k - 1] /\ n # 0
        BY <1>4, <3>1
      <4> QED
        BY <3>1, <4>1
    <3>2. CASE n # k
      <4>1. n \in 0..k - 1 /\ g[n] = f[n]
        BY <1>4, <3>2
      <4>2. n # 0 => n - 1 \in 0..k /\ g[n - 1] = f[n - 1]
        BY <1>4, <3>2
      <4>3. f[n] = IF n = 0 THEN <<>>
                   ELSE IF BdEnd - n \in StaticIds THEN f[n - 1]
                   ELSE Append(f[n - 1], BdEnd - n)
        BY <1>5, <4>1 DEF Stacked
      <4> HIDE DEF g
      <4> QED
        BY <4>1, <4>2, <4>3
    <3> QED
      BY <3>1, <3>2
  <2> QED
    BY <2>1 DEF Stacked
<1> HIDE DEF g
<1>7. k \in 0..m
  BY <1>2
<1> QED
  BY <1>2, <1>6, <1>7

\* A fresh pool has each of its ids once.
LEMMA FreshPoolIsWhole ==
  FreshPool \in Seq(PoolIds) /\ IsInjective(FreshPool) /\ ToSet(FreshPool) = PoolIds
<1> DEFINE m == BdEnd - BdBegin
<1>1. /\ m \in Nat /\ BdEnd \in Nat /\ BdBegin \in Nat
      /\ \A n \in 0..m : BdEnd - n \in Nat
  BY IdsAssumption DEF IdsAssumption, PoolIds
<1> DEFINE s == CHOOSE f : f = Stacked(f, m)
<1>2. FreshPool = s[m]
  BY DEF FreshPool, Stacked
<1>3. s = Stacked(s, m)
  <2>1. \E f : f = Stacked(f, m)
    BY <1>1, StackExists
  <2> QED
    BY <2>1, Zenon
<1> HIDE DEF s
<1> DEFINE From(n) == {id \in PoolIds : id >= BdEnd - n}
           Whole(n) == s[n] \in Seq(PoolIds) /\ IsInjective(s[n]) /\ ToSet(s[n]) = From(n)
           Wrong == {n \in 0..m : ~Whole(n)}
<1>4. Wrong = {}
  <2>1. SUFFICES ASSUME Wrong # {}  PROVE FALSE
    OBVIOUS
  <2>2. PICK n \in Wrong : \A j \in Wrong : n <= j
    <3>1. Wrong \in SUBSET Nat
      BY <1>1
    <3> HIDE DEF Wrong
    <3> QED
      BY <2>1, <3>1, LeastOf
  <2>3. n \in 0..m /\ ~Whole(n) /\ n \in Nat
    BY <1>1, <2>2
  <2>4. n # 0
    <3>1. ASSUME n = 0  PROVE Whole(0)
      <4>1. s[0] = <<>>
        BY <1>1, <1>3 DEF Stacked
      <4>2. From(0) = {}
        BY <1>1 DEF PoolIds
      <4> HIDE DEF From
      <4> QED
        BY <4>1, <4>2 DEF ToSet, IsInjective
    <3> QED
      BY <2>3, <3>1
  <2>5. n - 1 \in 0..m /\ Whole(n - 1)
    <3>1. n - 1 \in 0..m /\ ~(n <= n - 1)
      BY <1>1, <2>3, <2>4
    <3> HIDE DEF Whole
    <3> QED
      BY <2>2, <3>1
  <2> DEFINE id == BdEnd - n
  <2>6. s[n] = IF id \in StaticIds THEN s[n - 1] ELSE Append(s[n - 1], id)
    BY <1>3, <2>3, <2>4 DEF Stacked
  <2>7. id \in BdBegin .. BdEnd - 1
    BY <1>1, <2>3, <2>4
  <2>8. CASE id \in StaticIds
    <3>1. From(n) = From(n - 1)
      BY <1>1, <2>3, <2>4, <2>8 DEF PoolIds
    <3> QED
      BY <2>3, <2>5, <2>6, <2>8, <3>1
  <2>9. CASE id \notin StaticIds
    <3>1. id \in PoolIds /\ From(n) = From(n - 1) \cup {id} /\ id \notin From(n - 1)
      BY <1>1, <2>3, <2>4, <2>7, <2>9 DEF PoolIds
    <3>2. s[n] = Append(s[n - 1], id) /\ s[n - 1] \in Seq(PoolIds)
      BY <2>5, <2>6, <2>9
    <3> HIDE DEF id, From
    <3>3. ToSet(s[n]) = From(n) /\ s[n] \in Seq(PoolIds)
      BY <2>5, <3>1, <3>2, ToSetAppend
    <3>4. IsInjective(s[n])
      BY <2>5, <3>1, <3>2, InjectiveAppend
    <3> QED
      BY <2>3, <3>3, <3>4
  <2> QED
    BY <2>8, <2>9
<1>5. Whole(m)
  <2>1. m \in 0..m
    BY <1>1
  <2> QED
    BY <1>4, <2>1
<1>6. From(m) = PoolIds
  BY <1>1 DEF PoolIds
<1> QED
  BY <1>2, <1>5, <1>6

-----------------------------------------------------------------------------
(* Where control goes.                                                     *)

\* The operation control is at, and the one a jump looks for.
LEMMA TheOperation ==
  ASSUME TextInv, NEW i \in DOMAIN text
  PROVE  /\ text[i] \in Operations /\ i \in 1 .. Len(text) /\ Len(text) \in Nat
         /\ text[i].op \in {"for", "next", "if", "else", "fi"} => At(text[i].op) = i
<1>1. text[i].op \in {"for", "next", "if", "else", "fi"} => At(text[i].op) = i
  BY AtIs DEF TextInv
<1>2. i \in 1 .. Len(text) /\ Len(text) \in Nat /\ text[i] \in Operations
  BY DEF TextInv, TextType
<1> QED
  BY <1>1, <1>2

\* A finished sequence has an end for its loop and both ends for its arms.
LEMMA Finished ==
  ASSUME TextInv, open = <<>>
  PROVE  /\ \A i \in DOMAIN text : text[i].op = "for" =>
              \E x \in DOMAIN text : i < x /\ text[x].op = "next" /\ At("next") = x
         /\ \A i \in DOMAIN text : text[i].op = "if" =>
              \E e \in DOMAIN text : i < e /\ text[e].op = "else" /\ At("else") = e
         /\ \A i \in DOMAIN text : text[i].op = "else" =>
              \E h \in DOMAIN text : i < h /\ text[h].op = "fi" /\ At("fi") = h
<1>1. \A b \in Blocks : ~Inside(b, Len(text) + 1)
  BY StackSets DEF TextInv, OpenBlocks, Blocks
<1>2. \A i \in DOMAIN text : Before(Len(text) + 1, text[i].op)
  BY TheOperation DEF Before
<1>3. \A op : Before(Len(text) + 1, op) => \E i \in DOMAIN text : text[i].op = op
  BY DEF Before
<1>4. ASSUME NEW i \in DOMAIN text, text[i].op = "for"
      PROVE  \E x \in DOMAIN text : i < x /\ text[x].op = "next" /\ At("next") = x
  <2>1. PICK x \in DOMAIN text : text[x].op = "next"
    BY <1>1, <1>2, <1>3, <1>4 DEF Inside, Blocks
  <2>2. i < x
    BY <1>4, <2>1 DEF TextInv, Begun, Before, Once
  <2> QED
    BY <2>1, <2>2, TheOperation
<1>5. ASSUME NEW i \in DOMAIN text, text[i].op = "if"
      PROVE  \E e \in DOMAIN text : i < e /\ text[e].op = "else" /\ At("else") = e
  <2>1. PICK e \in DOMAIN text : text[e].op = "else"
    BY <1>1, <1>2, <1>3, <1>5 DEF Inside, Blocks
  <2>2. i < e
    BY <1>5, <2>1 DEF TextInv, Begun, Before, Once
  <2> QED
    BY <2>1, <2>2, TheOperation
<1>6. ASSUME NEW i \in DOMAIN text, text[i].op = "else"
      PROVE  \E h \in DOMAIN text : i < h /\ text[h].op = "fi" /\ At("fi") = h
  <2>1. PICK h \in DOMAIN text : text[h].op = "fi"
    BY <1>1, <1>2, <1>3, <1>6 DEF Inside, Blocks
  <2>2. i < h
    BY <1>6, <2>1 DEF TextInv, Begun, Before, Once
  <2> QED
    BY <2>1, <2>2, TheOperation
<1> QED
  BY <1>4, <1>5, <1>6

\* What can be used at a place could be used at every place before it that
\* follows the definition.
LEMMA LiveEarlier ==
  ASSUME TextInv, NEW j \in DOMAIN text, NEW p \in Nat, NEW q \in Nat,
         Live(j, q), j < p, p <= q
  PROVE  Live(j, p)
<1>1. \A i \in DOMAIN text : i \in Nat
  BY TheOperation
<1>2. \A i \in DOMAIN text : i < p => i < q
  BY <1>1
<1> QED
  BY <1>2 DEF Live

\* Nothing that is defined in a block can be used after the block's end.
LEMMA NotAfterBlock ==
  ASSUME TextInv, NEW j \in DOMAIN text, NEW x \in DOMAIN text, NEW b \in Blocks,
         Ends(text[x].op, b), Inside(b, j) \/ (text[j].op = "for" /\ b = "loop"), j < x
  PROVE  ~Live(j, x + 1)
<1>1. j \in Nat /\ x \in Nat
  BY TheOperation
<1>2. text[j].op # text[x].op
  <2>1. text[x].op \in {"for", "next", "if", "else", "fi"}
    BY DEF Ends
  <2> QED
    BY <1>1, <2>1 DEF TextInv, Once
<1>3. text[j].in \in Seq(Blocks)
  BY ScopeBlocks, StacksAreSequences DEF TextInv
<1>4. CASE Inside(b, j)
  <2>1. ~Ends(text[j].op, b)
    BY <1>2 DEF Ends, Blocks
  <2>2. b \in ToSet(text[j].in)
    BY <1>4, <2>1 DEF TextInv, InBlocks, Blocks
  <2>3. b \in ToSet(Scope(text[j]))
    BY <2>2, ScopeBlocks DEF TextInv
  <2> QED
    BY <1>1, <2>3 DEF Live
<1>5. CASE text[j].op = "for" /\ b = "loop"
  <2>1. Scope(text[j]) = Append(text[j].in, "loop")
    BY <1>5 DEF Scope
  <2>2. b \in ToSet(Scope(text[j]))
    BY <1>3, <1>5, <2>1, ToSetAppend
  <2> QED
    BY <1>1, <2>2 DEF Live
<1> QED
  BY <1>4, <1>5

\* Control steps on.
LEMMA LiveOn ==
  ASSUME TextInv, NEW p \in DOMAIN text, NEW j \in DOMAIN text, Live(j, p + 1)
  PROVE  j = p \/ Live(j, p)
<1>1. p \in Nat /\ j \in Nat /\ j < p + 1
  BY TheOperation DEF Live
<1>2. CASE j # p
  <2>1. j < p /\ p <= p + 1 /\ p + 1 \in Nat
    BY <1>1, <1>2
  <2> QED
    BY <1>1, <2>1, LiveEarlier
<1> QED
  BY <1>2

\* Control leaves out a loop or an arm, or goes from one arm to the end of both.
LEMMA LiveOver ==
  ASSUME TextInv, NEW p \in DOMAIN text, NEW x \in DOMAIN text, p < x,
         \/ text[p].op = "for" /\ text[x].op = "next"
         \/ text[p].op = "if" /\ text[x].op = "else"
         \/ text[p].op = "else" /\ text[x].op = "fi",
         NEW j \in DOMAIN text, text[j].def # None, Live(j, x + 1)
  PROVE  Live(j, p) \/ (j = x /\ text[p].op # "if")
<1>1. p \in Nat /\ j \in Nat /\ x \in Nat /\ j < x + 1
  BY TheOperation DEF Live
<1>2. text[p].op \in {"if", "else"} => text[p].def = None
  BY DEF TextInv, Defines
<1>3. text[x].op = "else" => text[x].def = None
  BY DEF TextInv, Defines
<1>4. PICK b \in Blocks : Ends(text[x].op, b) /\ (b = "loop" <=> text[p].op = "for")
                        /\ Begins(text[p].op, b)
  BY DEF Ends, Begins, Blocks
<1>5. ASSUME p < j, j < x  PROVE FALSE
  <2>1. Inside(b, j)
    <3>1. Before(j, text[p].op)
      BY <1>5 DEF Before
    <3>2. ~Before(j, text[x].op)
      <4>1. \A i \in DOMAIN text : text[i].op = text[x].op => i = x
        BY <1>4 DEF TextInv, Once, Ends
      <4> QED
        BY <1>1, <1>5, <4>1 DEF Before
    <3> QED
      BY <1>4, <3>1, <3>2 DEF Inside, Ends, Begins
  <2> QED
    BY <1>4, <1>5, <2>1, NotAfterBlock
<1>6. ASSUME j = p  PROVE FALSE
  <2>1. text[p].op = "for" /\ b = "loop"
    BY <1>2, <1>4, <1>6
  <2> QED
    BY <1>4, <1>6, <2>1, NotAfterBlock
<1>7. CASE j = x
  BY <1>3, <1>7
<1>8. CASE j < p
  <2>1. p <= x + 1 /\ x + 1 \in Nat
    BY <1>1
  <2> QED
    BY <1>1, <1>8, <2>1, LiveEarlier
<1> QED
  BY <1>1, <1>5, <1>6, <1>7, <1>8

\* Control goes back for the next trip.
LEMMA LiveBack ==
  ASSUME TextInv, NEW f \in DOMAIN text, NEW x \in DOMAIN text, f < x,
         text[f].op = "for", text[x].op = "next",
         NEW j \in DOMAIN text, Live(j, f + 1)
  PROVE  Live(j, x)
<1>1. f \in Nat /\ j \in Nat /\ x \in Nat /\ j < f + 1
  BY TheOperation DEF Live
<1>2. \A i \in DOMAIN text : i \in Nat
  BY TheOperation
<1>3. \A i \in DOMAIN text : text[i].op = "next" => i = x
  BY DEF TextInv, Once
<1>4. ~Before(x, "next")
  BY <1>1, <1>3 DEF Before
<1>5. ASSUME NEW b \in ToSet(Scope(text[j])), NEW i \in DOMAIN text, i < x,
             Ends(text[i].op, b)
      PROVE  FALSE
  <2>1. ~(i < f + 1)
    BY <1>5 DEF Live
  <2>2. f < i /\ text[i].op # "next"
    BY <1>1, <1>2, <1>3, <1>5, <2>1
  <2>3. ~Before(i, "next")
    BY <1>1, <1>2, <1>3, <1>5 DEF Before
  <2>4. b \in Blocks /\ b # "loop"
    BY <1>5, <2>2, ScopeBlocks DEF TextInv, Ends
  <2>5. b \in ToSet(text[j].in)
    <3>1. text[j].in \in Seq(Blocks) /\ "loop" \in Blocks
      BY ScopeBlocks, StacksAreSequences DEF TextInv, Blocks
    <3>2. ToSet(Append(text[j].in, "loop")) = ToSet(text[j].in) \cup {"loop"}
      BY <3>1, ToSetAppend
    <3> QED
      BY <1>5, <2>4, <3>2 DEF Scope
  <2>6. Inside(b, j)
    BY <2>4, <2>5 DEF TextInv, InBlocks, Blocks
  <2>7. CASE b = "then"
    <3>1. text[i].op = "else"
      BY <1>5, <2>7 DEF Ends
    <3>2. PICK k \in DOMAIN text : f < k /\ text[k].op = "if"
      BY <2>2, <2>3, <3>1 DEF TextInv, Nested
    <3>3. PICK l \in DOMAIN text : l < j /\ text[l].op = "if"
      BY <2>6, <2>7 DEF Inside, Before
    <3>4. k = l
      BY <3>2, <3>3 DEF TextInv, Once
    <3> QED
      BY <1>1, <1>2, <3>2, <3>3, <3>4
  <2>8. CASE b = "else"
    <3>1. text[i].op = "fi"
      BY <1>5, <2>8 DEF Ends
    <3>2. PICK k \in DOMAIN text : f < k /\ text[k].op = "else"
      BY <2>2, <2>3, <3>1 DEF TextInv, Nested
    <3>3. PICK l \in DOMAIN text : l < j /\ text[l].op = "else"
      BY <2>6, <2>8 DEF Inside, Before
    <3>4. k = l
      BY <3>2, <3>3 DEF TextInv, Once
    <3> QED
      BY <1>1, <1>2, <3>2, <3>3, <3>4
  <2> QED
    BY <2>4, <2>7, <2>8 DEF Blocks
<1> QED
  BY <1>1, <1>5 DEF Live

-----------------------------------------------------------------------------
(* IndInv is inductive.                                                    *)

\* Control is at an operation of kind op, and what it uses has been given a task.
LEMMA AtOperation ==
  ASSUME IndInv, NEW op \in Ops, Op(op)
  PROVE  /\ pc \in DOMAIN text /\ text[pc] \in Operations /\ text[pc].op = op
         /\ pc \in 1 .. Len(text) /\ Len(text) \in Nat /\ phase = "run" /\ open = <<>>
         /\ text[pc].task # None => text[pc].task \in Names /\ task[text[pc].task] # 0
         /\ text[pc].def # None => text[pc].def \in Names
<1>1. /\ pc \in DOMAIN text /\ text[pc].op = op /\ phase = "run" /\ open = <<>>
  BY DEF Op, IndInv, Lowered
<1>2. text[pc] \in Operations /\ pc \in 1 .. Len(text) /\ Len(text) \in Nat
  BY <1>1, TheOperation DEF IndInv
<1>3. ASSUME text[pc].task # None  PROVE task[text[pc].task] # 0
  <2>1. PICK j \in DOMAIN text : text[j].def = text[pc].task /\ Live(j, pc)
    BY <1>1, <1>3 DEF IndInv, TextInv, UsesDefined
  <2> QED
    BY <1>3, <2>1 DEF IndInv, Assigned
<1> QED
  BY <1>1, <1>2, <1>3 DEF Operations

\* While a sequence runs it is not written any more.
LEMMA SameText ==
  ASSUME TextInv, UNCHANGED written
  PROVE  /\ TextInv' /\ Len(text') = Len(text) /\ DOMAIN text' = DOMAIN text
         /\ \A j : text'[j] = text[j]
         /\ \A j, p : Live(j, p)' <=> Live(j, p)
         /\ DivergentYield' <=> DivergentYield
<1>1. text' = text /\ open' = open
  BY DEF written
<1>2. TextInv'
  BY <1>1 DEF TextInv, TextType, Once, OpenBlocks, InBlocks, Begun, Nested, NestedOpen,
    UsesDefined, Defines, Carries, Inside, Before, Live
<1> QED
  BY <1>1, <1>2 DEF Live, DivergentYield, Has, At

\* Control moves where all that can be used has been given a task.
LEMMA MoveKeeps ==
  ASSUME IndInv, UNCHANGED written, phase' = "run", phase = "run",
         pc' \in 1 .. Len(text) + 1, RunType',
         NEW names,
         \A j \in DOMAIN text :
           text[j].def # None /\ Live(j, pc') => Live(j, pc) \/ text[j].def \in names,
         \A n \in Names : task[n] # 0 \/ n \in names => task'[n] # 0,
         Own', PoolParts'
  PROVE  IndInv'
<1>1. TextInv' /\ Lowered'
  BY SameText DEF IndInv, Lowered, written
<1>2. Assigned'
  <2>1. text' = text
    BY DEF written
  <2>2. ASSUME NEW j \in DOMAIN text, text[j].def # None, Live(j, pc)'
        PROVE  task'[text[j].def] # 0
    <3>1. text[j].def \in Names
      BY <2>2, TheOperation DEF IndInv, Operations
    <3>2. Live(j, pc')
      BY <2>1, <2>2 DEF Live
    <3> QED
      BY <2>2, <3>1, <3>2 DEF IndInv, Assigned
  <2> QED
    BY <2>1, <2>2 DEF Assigned
<1> QED
  BY <1>1, <1>2 DEF IndInv

\* Control moves where nothing more can be used, and no name is given a task.
LEMMA MoveOnly ==
  ASSUME IndInv, UNCHANGED <<written, task>>, phase' = "run", phase = "run",
         pc' \in 1 .. Len(text) + 1, RunType',
         \A j \in DOMAIN text : text[j].def # None /\ Live(j, pc') => Live(j, pc),
         Own', PoolParts'
  PROVE  IndInv'
<1> DEFINE names == {}
<1>1. \A j \in DOMAIN text :
        text[j].def # None /\ Live(j, pc') => Live(j, pc) \/ text[j].def \in names
  OBVIOUS
<1>2. \A n \in Names : task[n] # 0 \/ n \in names => task'[n] # 0
  OBVIOUS
<1>3. UNCHANGED written
  OBVIOUS
<1> HIDE DEF names
<1> QED
  BY <1>1, <1>2, <1>3, MoveKeeps

\* A name is given the task and the id of another.
LEMMA HandOnKeeps ==
  ASSUME IndInv, NEW n \in Names \cup {None}, n # None => task[n] # 0,
         NEW to \in Names, HandOn(to, n), UNCHANGED popped
  PROVE  /\ ids' \in [Names -> PoolIds \cup {None}] /\ task' \in [Names -> Nat]
         /\ Own'
         /\ \A m \in Names : task[m] # 0 => task'[m] # 0
         /\ n # None => task'[to] # 0
<1>1. ids \in [Names -> PoolIds \cup {None}] /\ task \in [Names -> Nat] /\ Own
  BY DEF IndInv, RunType
<1>2. CASE n = None
  BY <1>1, <1>2 DEF HandOn, Own
<1>3. CASE n # None
  <2>1. /\ n \in Names /\ task[n] # 0
        /\ ids' = [ids EXCEPT ![to] = ids[n]] /\ task' = [task EXCEPT ![to] = task[n]]
    BY <1>3 DEF HandOn, Carried
  <2>2. \A m \in Names : /\ ids'[m] = (IF m = to THEN ids[n] ELSE ids[m])
                         /\ task'[m] = (IF m = to THEN task[n] ELSE task[m])
    BY <1>1, <2>1
  <2>3. ids' \in [Names -> PoolIds \cup {None}] /\ task' \in [Names -> Nat]
    BY <1>1, <2>1
  <2>4. Own'
    BY <1>1, <2>1, <2>2 DEF Own
  <2> QED
    BY <2>1, <2>2, <2>3, <2>4
<1> QED
  BY <1>2, <1>3

LEMMA PoolPartsSame ==
  ASSUME PoolParts, UNCHANGED <<pool, popped, freed, twice>>
  PROVE  PoolParts'
  BY DEF PoolParts, Unfreed

LEMMA IndConfigure ==
  ASSUME IndInv, Configure
  PROVE  IndInv'
<1>1. "configure" \in Ops /\ Op("configure")
  BY DEF Ops, Configure
<1>2. /\ pc \in DOMAIN text /\ pc \in 1 .. Len(text) /\ Len(text) \in Nat
      /\ phase = "run" /\ open = <<>> /\ text[pc].op = "configure"
      /\ text[pc].def # None => text[pc].def \in Names
  BY <1>1, AtOperation
<1> DEFINE d == text[pc].def
<1>3. d \in Names
  BY <1>2 DEF IndInv, TextInv, Defines
<1>4. CASE pool = <<>>
  <2>1. /\ phase' = "refused" /\ UNCHANGED <<written, pc, pool, ids, task, popped>>
        /\ UNCHANGED <<freed, twice>>
    BY <1>4 DEF Configure
  <2>2. /\ TextInv' /\ Len(text') = Len(text) /\ DOMAIN text' = DOMAIN text /\ text' = text
        /\ \A j, p : Live(j, p)' <=> Live(j, p)
    BY <2>1, SameText DEF IndInv, written
  <2>3. RunType' /\ Lowered'
    BY <1>2, <2>1, <2>2 DEF IndInv, RunType, Lowered, written
  <2>4. Assigned'
    BY <2>1, <2>2 DEF IndInv, Assigned, Live
  <2>5. Own' /\ PoolParts'
    BY <2>1, PoolPartsSame DEF IndInv, Own
  <2> QED
    BY <2>2, <2>3, <2>4, <2>5 DEF IndInv
<1>5. CASE pool # <<>>
  <2> DEFINE T == Len(popped) + 1
             id == Last(pool)
  <2>1. /\ pc' = pc + 1 /\ UNCHANGED <<written, phase>> /\ pool' = Front(pool)
        /\ ids' = [ids EXCEPT ![d] = id] /\ task' = [task EXCEPT ![d] = T]
        /\ popped' = Append(popped, id) /\ UNCHANGED <<trips, freed, twice, strayed>>
    BY <1>5 DEF Configure, Goto
  <2>2. /\ pool \in Seq(PoolIds) /\ popped \in Seq(PoolIds)
        /\ ids \in [Names -> PoolIds \cup {None}] /\ task \in [Names -> Nat]
        /\ freed \subseteq DOMAIN popped /\ Own /\ PoolParts
    BY DEF IndInv, RunType
  <2>3. Front(pool) \in Seq(PoolIds) /\ id \in PoolIds
    BY <1>5, <2>2, FrontLast
  <2>4. /\ T \in Nat /\ T # 0 /\ popped' \in Seq(PoolIds) /\ T \notin DOMAIN popped
        /\ DOMAIN popped' = DOMAIN popped \cup {T} /\ popped'[T] = id
        /\ \A t \in DOMAIN popped : popped'[t] = popped[t]
    BY <2>1, <2>2, <2>3
  <2> HIDE DEF T, id, d
  <2>5. /\ \A n \in Names : ids'[n] = IF n = d THEN id ELSE ids[n]
        /\ \A n \in Names : task'[n] = IF n = d THEN T ELSE task[n]
    BY <1>3, <2>1, <2>2
  <2>6. ids' \in [Names -> PoolIds \cup {None}] /\ task' \in [Names -> Nat]
    BY <1>3, <2>1, <2>2, <2>3, <2>4
  <2>7. pc' \in 1 .. Len(text) + 1
    BY <1>2, <2>1
  <2>8. RunType'
    <3>1. text' = text /\ pool' \in Seq(PoolIds) /\ freed' \subseteq DOMAIN popped'
      BY <2>1, <2>2, <2>3, <2>4 DEF written
    <3> QED
      BY <2>1, <2>4, <2>6, <2>7, <3>1 DEF IndInv, RunType
  <2>9. Own'
    BY <2>2, <2>4, <2>5 DEF Own
  <2>10. PoolParts'
    <3>1. Unfreed' = Unfreed \cup {T}
      BY <2>1, <2>2, <2>4 DEF Unfreed
    <3>2. SUFFICES ASSUME ~twice
                   PROVE  /\ IsInjective(pool')
                          /\ \A s, t \in Unfreed' : popped'[s] = popped'[t] => s = t
                          /\ \A i \in PoolIds :
                               i \in ToSet(pool') <=> \A t \in Unfreed' : popped'[t] # i
      BY <2>1 DEF PoolParts
    <3>3. /\ IsInjective(pool)
          /\ \A s, t \in Unfreed : popped[s] = popped[t] => s = t
          /\ \A i \in PoolIds : i \in ToSet(pool) <=> \A t \in Unfreed : popped[t] # i
      BY <2>2, <3>2 DEF PoolParts
    <3>4. /\ IsInjective(pool') /\ ToSet(pool') = ToSet(pool) \ {id}
          /\ id \in ToSet(pool)
      BY <1>5, <2>1, <2>2, <3>3, InjectiveFront, ToSetFront DEF id
    <3>5. \A t \in Unfreed : popped'[t] = popped[t] /\ popped[t] # id
      BY <2>3, <2>4, <3>3, <3>4 DEF Unfreed
    <3>6. \A s, t \in Unfreed' : popped'[s] = popped'[t] => s = t
      BY <2>4, <3>1, <3>3, <3>5
    <3>7. \A i \in PoolIds : i \in ToSet(pool') <=> \A t \in Unfreed' : popped'[t] # i
      BY <2>4, <3>1, <3>3, <3>4, <3>5
    <3> QED
      BY <3>4, <3>6, <3>7
  <2>11. \A j \in DOMAIN text :
           text[j].def # None /\ Live(j, pc') => Live(j, pc) \/ text[j].def \in {d}
    BY <1>2, <2>1, LiveOn DEF IndInv, d
  <2>12. \A n \in Names : task[n] # 0 \/ n \in {d} => task'[n] # 0
    BY <2>4, <2>5
  <2>13. UNCHANGED written /\ phase' = "run"
    BY <1>2, <2>1
  <2> QED
    BY <1>2, <2>7, <2>8, <2>9, <2>10, <2>11, <2>12, <2>13, MoveKeeps
<1> QED
  BY <1>4, <1>5

LEMMA IndStart ==
  ASSUME IndInv, Start
  PROVE  IndInv'
<1>1. "start" \in Ops /\ Op("start")
  BY DEF Ops, Start
<1>2. /\ pc \in DOMAIN text /\ pc \in 1 .. Len(text) /\ Len(text) \in Nat
      /\ phase = "run" /\ text[pc].op = "start"
  BY <1>1, AtOperation
<1>3. /\ pc' = pc + 1 /\ UNCHANGED <<written, phase>>
      /\ UNCHANGED <<trips, pool, ids, task, popped, freed, twice>>
  BY DEF Start, Goto
<1>4. pc' \in 1 .. Len(text) + 1 /\ text' = text
  BY <1>2, <1>3 DEF written
<1>5. RunType' /\ Own' /\ PoolParts'
  BY <1>3, <1>4, PoolPartsSame DEF IndInv, RunType, Own
<1>6. \A j \in DOMAIN text :
        text[j].def # None /\ Live(j, pc') => Live(j, pc)
  <2>1. text[pc].def = None
    BY <1>2 DEF IndInv, TextInv, Defines
  <2> QED
    BY <1>2, <1>3, <2>1, LiveOn DEF IndInv
<1>7. UNCHANGED <<written, task>> /\ phase' = "run"
  BY <1>2, <1>3
<1> QED
  BY <1>2, <1>4, <1>5, <1>6, <1>7, MoveOnly

LEMMA IndFree ==
  ASSUME IndInv, Free
  PROVE  IndInv'
<1>1. "free" \in Ops /\ Op("free")
  BY DEF Ops, Free
<1>2. /\ pc \in DOMAIN text /\ pc \in 1 .. Len(text) /\ Len(text) \in Nat
      /\ phase = "run" /\ text[pc].op = "free"
      /\ text[pc].task # None => text[pc].task \in Names /\ task[text[pc].task] # 0
  BY <1>1, AtOperation
<1> DEFINE n == text[pc].task
           t == task[n]
           id == ids[n]
<1>3. n \in Names /\ t # 0
  BY <1>2 DEF IndInv, TextInv, Defines
<1>4. /\ pc' = pc + 1 /\ UNCHANGED <<written, phase>>
      /\ pool' = IF Len(pool) < kMaxBDsPerTile THEN Append(pool, id) ELSE pool
      /\ freed' = freed \cup {t} /\ twice' = (twice \/ t \in freed)
      /\ UNCHANGED <<trips, ids, task, popped, strayed>>
  BY DEF Free, Goto
<1>5. /\ pool \in Seq(PoolIds) /\ popped \in Seq(PoolIds)
      /\ freed \subseteq DOMAIN popped /\ Own /\ PoolParts
  BY DEF IndInv, RunType
<1>6. t \in DOMAIN popped /\ id = popped[t] /\ id \in PoolIds
  BY <1>3, <1>5 DEF Own
<1> HIDE DEF n, t, id
<1>7. pc' \in 1 .. Len(text) + 1 /\ text' = text
  BY <1>2, <1>4 DEF written
<1>8. RunType'
  <2>1. pool' \in Seq(PoolIds)
    BY <1>4, <1>5, <1>6
  <2>2. freed' \subseteq DOMAIN popped' /\ twice' \in BOOLEAN
    BY <1>4, <1>5, <1>6
  <2> QED
    BY <1>4, <1>7, <2>1, <2>2 DEF IndInv, RunType
<1>9. Own'
  BY <1>4, <1>5 DEF Own
<1>10. PoolParts'
  <2>1. SUFFICES ASSUME ~twice, t \notin freed
                 PROVE  /\ IsInjective(pool')
                        /\ \A s, u \in Unfreed' : popped[s] = popped[u] => s = u
                        /\ \A i \in PoolIds :
                             i \in ToSet(pool') <=> \A u \in Unfreed' : popped[u] # i
    BY <1>4 DEF PoolParts
  <2>2. /\ IsInjective(pool)
        /\ \A s, u \in Unfreed : popped[s] = popped[u] => s = u
        /\ \A i \in PoolIds : i \in ToSet(pool) <=> \A u \in Unfreed : popped[u] # i
    BY <1>5, <2>1 DEF PoolParts
  <2>3. Unfreed' = Unfreed \ {t} /\ t \in Unfreed
    BY <1>4, <1>6, <2>1 DEF Unfreed
  <2>4. id \notin ToSet(pool)
    BY <1>6, <2>2, <2>3
  <2>5. pool' = Append(pool, id)
    BY <1>4, <1>5, <1>6, <2>2, <2>4, PoolHasRoom
  <2>6. IsInjective(pool') /\ ToSet(pool') = ToSet(pool) \cup {id}
    BY <1>5, <1>6, <2>2, <2>4, <2>5, InjectiveAppend, ToSetAppend
  <2>7. \A i \in PoolIds : i \in ToSet(pool') <=> \A u \in Unfreed' : popped[u] # i
    BY <1>6, <2>2, <2>3, <2>6
  <2> QED
    BY <2>2, <2>3, <2>6, <2>7
<1>11. \A j \in DOMAIN text :
         text[j].def # None /\ Live(j, pc') => Live(j, pc)
  <2>1. text[pc].def = None
    BY <1>2 DEF IndInv, TextInv, Defines
  <2> QED
    BY <1>2, <1>4, <2>1, LiveOn DEF IndInv
<1>12. UNCHANGED <<written, task>> /\ phase' = "run"
  BY <1>2, <1>4
<1> QED
  BY <1>2, <1>7, <1>8, <1>9, <1>10, <1>11, <1>12, MoveOnly

\* Control moves, and what was in use at pc is handed on to name to.
LEMMA HandOnMoves ==
  ASSUME IndInv, phase = "run", pc \in DOMAIN text, UNCHANGED <<written, phase>>,
         pc' \in 1 .. Len(text) + 1,
         NEW to \in Names, HandOn(to, text[pc].task),
         UNCHANGED <<pool, popped, freed, twice>>,
         text[pc].task # None => text[pc].task \in Names /\ task[text[pc].task] # 0,
         \A j \in DOMAIN text :
           text[j].def # None /\ Live(j, pc') =>
             Live(j, pc) \/ (text[j].def = to /\ text[pc].task # None)
  PROVE  IndInv'
<1> DEFINE n == text[pc].task
           names == {m \in {to} : n # None}
<1>1. n \in Names \cup {None}
  OBVIOUS
<1>2. /\ ids' \in [Names -> PoolIds \cup {None}] /\ task' \in [Names -> Nat] /\ Own'
      /\ \A m \in Names : task[m] # 0 => task'[m] # 0
      /\ n # None => task'[to] # 0
  BY <1>1, HandOnKeeps
<1>3. RunType'
  BY <1>2 DEF IndInv, RunType, written
<1>4. PoolParts'
  BY PoolPartsSame DEF IndInv
<1>5. \A j \in DOMAIN text :
        text[j].def # None /\ Live(j, pc') => Live(j, pc) \/ text[j].def \in names
  OBVIOUS
<1>6. \A m \in Names : task[m] # 0 \/ m \in names => task'[m] # 0
  BY <1>2
<1>7. UNCHANGED written /\ phase' = "run"
  OBVIOUS
<1>8. phase = "run" /\ pc' \in 1 .. Len(text) + 1 /\ Own'
  BY <1>2
<1> HIDE DEF names
<1> QED
  BY <1>3, <1>4, <1>5, <1>6, <1>7, <1>8, MoveKeeps

LEMMA IndFor ==
  ASSUME IndInv, For
  PROVE  IndInv'
<1>1. "for" \in Ops /\ Op("for")
  BY DEF Ops, For
<1>2. /\ pc \in DOMAIN text /\ pc \in 1 .. Len(text) /\ Len(text) \in Nat
      /\ phase = "run" /\ open = <<>> /\ text[pc].op = "for"
      /\ text[pc].task # None => text[pc].task \in Names /\ task[text[pc].task] # 0
  BY <1>1, AtOperation
<1>3. UNCHANGED <<pool, popped, freed, twice>> /\ TextInv
  BY DEF For, history, IndInv
<1>4. "arg" \in Names /\ "result" \in Names
  BY DEF Names
<1>5. CASE Goto(pc + 1) /\ HandOn("arg", text[pc].task)
  <2>1. pc + 1 \in 1 .. Len(text) + 1
    BY <1>2
  <2>2. \A j \in DOMAIN text :
          text[j].def # None /\ Live(j, pc + 1) =>
            Live(j, pc) \/ (text[j].def = "arg" /\ text[pc].task # None)
    BY <1>2, <1>3, LiveOn DEF TextInv, Defines
  <2> QED
    BY <1>2, <1>3, <1>4, <1>5, <2>1, <2>2, HandOnMoves DEF Goto
<1>6. CASE Goto(At("next") + 1) /\ HandOn("result", text[pc].task)
  <2>1. PICK x \in DOMAIN text : pc < x /\ text[x].op = "next" /\ At("next") = x
    BY <1>2, <1>3, Finished
  <2>2. x + 1 \in 1 .. Len(text) + 1
    BY <1>3, <2>1, TheOperation
  <2>3. \A j \in DOMAIN text :
          text[j].def # None /\ Live(j, x + 1) =>
            Live(j, pc) \/ (text[j].def = "result" /\ text[pc].task # None)
    <3>1. text[x].def # None => text[x].def = "result" /\ text[pc].task # None
      BY <1>2, <1>3, <2>1 DEF TextInv, Defines, Carries
    <3> QED
      BY <1>2, <1>3, <2>1, <3>1, LiveOver
  <2> QED
    BY <1>2, <1>3, <1>4, <1>6, <2>1, <2>2, <2>3, HandOnMoves DEF Goto
<1> QED
  BY <1>5, <1>6 DEF For

LEMMA IndNext ==
  ASSUME IndInv, NextTripOrOut
  PROVE  IndInv'
<1>1. "next" \in Ops /\ Op("next")
  BY DEF Ops, NextTripOrOut
<1>2. /\ pc \in DOMAIN text /\ pc \in 1 .. Len(text) /\ Len(text) \in Nat
      /\ phase = "run" /\ open = <<>> /\ text[pc].op = "next"
      /\ text[pc].task # None => text[pc].task \in Names /\ task[text[pc].task] # 0
  BY <1>1, AtOperation
<1>3. UNCHANGED <<pool, popped, freed, twice>> /\ TextInv
  BY DEF NextTripOrOut, history, IndInv
<1>4. "arg" \in Names /\ "result" \in Names
  BY DEF Names
<1>5. CASE Goto(At("for") + 1) /\ HandOn("arg", text[pc].task)
  <2>1. PICK f \in DOMAIN text : f < pc /\ text[f].op = "for"
    BY <1>2, <1>3 DEF TextInv, Begun, Before
  <2>2. At("for") = f /\ f + 1 \in 1 .. Len(text) + 1
    BY <1>3, <2>1, TheOperation
  <2>3. \A j \in DOMAIN text :
          text[j].def # None /\ Live(j, f + 1) =>
            Live(j, pc) \/ (text[j].def = "arg" /\ text[pc].task # None)
    BY <1>2, <1>3, <2>1, LiveBack
  <2> QED
    BY <1>2, <1>3, <1>4, <1>5, <2>1, <2>2, <2>3, HandOnMoves DEF Goto
<1>6. CASE Goto(pc + 1) /\ HandOn("result", text[pc].task)
  <2>1. pc + 1 \in 1 .. Len(text) + 1
    BY <1>2
  <2>2. \A j \in DOMAIN text :
          text[j].def # None /\ Live(j, pc + 1) =>
            Live(j, pc) \/ (text[j].def = "result" /\ text[pc].task # None)
    BY <1>2, <1>3, LiveOn DEF TextInv, Defines
  <2> QED
    BY <1>2, <1>3, <1>4, <1>6, <2>1, <2>2, HandOnMoves DEF Goto
<1> QED
  BY <1>5, <1>6 DEF NextTripOrOut

LEMMA IndIf ==
  ASSUME IndInv, If
  PROVE  IndInv'
<1>1. "if" \in Ops /\ Op("if")
  BY DEF Ops, If
<1>2. /\ pc \in DOMAIN text /\ pc \in 1 .. Len(text) /\ Len(text) \in Nat
      /\ phase = "run" /\ open = <<>> /\ text[pc].op = "if"
  BY <1>1, AtOperation
<1>3. UNCHANGED <<pool, ids, task, popped, freed, twice>> /\ TextInv
  BY DEF If, history, IndInv
<1>4. /\ pc' \in 1 .. Len(text) + 1
      /\ \A j \in DOMAIN text : text[j].def # None /\ Live(j, pc') => Live(j, pc)
  <2>1. CASE Goto(pc + 1)
    <3>1. pc + 1 \in 1 .. Len(text) + 1 /\ text[pc].def = None /\ pc' = pc + 1
      BY <1>2, <1>3, <2>1 DEF TextInv, Defines, Goto
    <3> QED
      BY <1>2, <1>3, <3>1, LiveOn
  <2>2. CASE Goto(At("else") + 1)
    <3>1. PICK e \in DOMAIN text : pc < e /\ text[e].op = "else" /\ At("else") = e
      BY <1>2, <1>3, Finished
    <3>2. e + 1 \in 1 .. Len(text) + 1 /\ pc' = e + 1
      BY <1>3, <2>2, <3>1, TheOperation DEF Goto
    <3>3. \A j \in DOMAIN text : text[j].def # None /\ Live(j, e + 1) => Live(j, pc)
      BY <1>2, <1>3, <3>1, LiveOver
    <3> QED
      BY <3>2, <3>3
  <2> QED
    BY <2>1, <2>2 DEF If
<1>5. UNCHANGED <<written, phase>> /\ text' = text
  BY DEF If, Goto, written
<1>6. RunType'
  BY <1>3, <1>4, <1>5 DEF IndInv, RunType
<1>7. Own' /\ PoolParts'
  BY <1>3, PoolPartsSame DEF IndInv, Own
<1>8. UNCHANGED <<written, task>> /\ phase' = "run" /\ phase = "run"
  BY <1>2, <1>3, <1>5
<1> QED
  BY <1>4, <1>6, <1>7, <1>8, MoveOnly

LEMMA IndEndArm ==
  ASSUME IndInv, EndArm
  PROVE  IndInv'
<1>1. PICK op \in {"else", "fi"} : Op(op)
  BY DEF EndArm
<1>2. /\ pc \in DOMAIN text /\ pc \in 1 .. Len(text) /\ Len(text) \in Nat
      /\ phase = "run" /\ open = <<>> /\ text[pc].op = op
      /\ text[pc].task # None => text[pc].task \in Names /\ task[text[pc].task] # 0
  <2>1. op \in Ops
    BY DEF Ops
  <2> QED
    BY <1>1, <2>1, AtOperation
<1>3. /\ UNCHANGED <<pool, popped, freed, twice>> /\ TextInv
      /\ Goto(At("fi") + 1) /\ HandOn("phi", text[pc].task)
  BY DEF EndArm, history, IndInv
<1>4. "phi" \in Names
  BY DEF Names
<1>5. PICK h \in DOMAIN text : text[h].op = "fi" /\ At("fi") = h /\ (h = pc \/ pc < h)
  <2>1. CASE op = "fi"
    BY <1>2, <1>3, <2>1, TheOperation
  <2>2. CASE op = "else"
    BY <1>2, <1>3, <2>2, Finished
  <2> QED
    BY <2>1, <2>2
<1>6. h + 1 \in 1 .. Len(text) + 1
  BY <1>3, <1>5, TheOperation
<1>7. text[h].def # None => text[h].def = "phi" /\ text[h].task # None
  BY <1>3, <1>5 DEF TextInv, Defines
\* Both arms yield a task, or none does.
<1>8. text[h].task # None => text[pc].task # None
  <2>1. CASE h = pc
    BY <2>1
  <2>2. CASE h # pc
    <3>1. op = "else"
      BY <1>2, <1>3, <1>5, <2>2 DEF TextInv, Once
    <3>2. At("else") = pc
      BY <1>2, <1>3, <3>1, TheOperation
    <3>3. Has("if")
      BY <1>2, <1>3, <3>1 DEF TextInv, Begun, Before, Has
    <3>4. ~DivergentYield
      BY <1>2 DEF IndInv, Lowered
    <3> QED
      BY <1>5, <3>2, <3>3, <3>4 DEF DivergentYield
  <2> QED
    BY <2>1, <2>2
<1>9. \A j \in DOMAIN text :
        text[j].def # None /\ Live(j, h + 1) =>
          Live(j, pc) \/ (text[j].def = "phi" /\ text[pc].task # None)
  <2>1. CASE h = pc
    BY <1>2, <1>3, <1>7, <1>8, <2>1, LiveOn
  <2>2. CASE pc < h
    <3>1. text[pc].op = "else"
      BY <1>2, <1>3, <1>5, <2>2 DEF TextInv, Once
    <3> QED
      BY <1>2, <1>3, <1>5, <1>7, <1>8, <2>2, <3>1, LiveOver
  <2> QED
    BY <1>5, <2>1, <2>2
<1> QED
  BY <1>2, <1>3, <1>4, <1>5, <1>6, <1>9, HandOnMoves DEF Goto

LEMMA IndEnd ==
  ASSUME IndInv, End
  PROVE  IndInv'
<1>1. /\ phase = "run" /\ phase' = "over"
      /\ UNCHANGED <<written, pc, pool, ids, task, popped, freed, twice>>
  BY DEF End, history
<1>2. TextInv' /\ text' = text /\ open' = open
  BY <1>1, SameText DEF IndInv, written
<1>3. RunType' /\ Lowered' /\ Assigned' /\ Own' /\ PoolParts'
  BY <1>1, <1>2, PoolPartsSame DEF IndInv, RunType, Lowered, Assigned, Live, Own
<1> QED
  BY <1>2, <1>3 DEF IndInv

LEMMA IndLower ==
  ASSUME IndInv, Lower
  PROVE  IndInv'
<1>1. /\ phase' \in {"run", "rejected"} /\ open = <<>>
      /\ phase' = "run" => ~DivergentYield
      /\ UNCHANGED <<written, pc, pool, ids, task, popped, freed, twice>>
  BY DEF Lower, history, Accepted
<1>2. TextInv' /\ text' = text /\ open' = open /\ (DivergentYield' <=> DivergentYield)
  BY <1>1, SameText DEF IndInv, written
<1>3. RunType' /\ Assigned' /\ Own' /\ PoolParts'
  BY <1>1, <1>2, PoolPartsSame DEF IndInv, RunType, Assigned, Live, Own
<1>4. Lowered'
  BY <1>1, <1>2 DEF Lowered
<1> QED
  BY <1>2, <1>3, <1>4 DEF IndInv

LEMMA IndWrites ==
  ASSUME IndInv, Writes
  PROVE  IndInv'
<1>1. /\ phase = "write" /\ pc = 1
      /\ UNCHANGED <<phase, pc, pool, ids, task, popped, freed, twice>>
  BY DEF Writes, history, IndInv, Lowered
<1>2. TextInv'
  BY TextWrites DEF IndInv
<1>3. Len(text') \in Nat /\ DOMAIN text' = 1 .. Len(text')
  BY <1>2 DEF TextInv, TextType
<1>4. RunType' /\ Own' /\ PoolParts'
  BY <1>1, <1>3, PoolPartsSame DEF IndInv, RunType, Own
<1>5. Lowered'
  BY <1>1 DEF Lowered
<1>6. Assigned'
  <2>1. \A j \in DOMAIN text' : ~(j < 1)
    BY <1>3
  <2> QED
    BY <1>1, <2>1 DEF Assigned, Live
<1> QED
  BY <1>2, <1>4, <1>5, <1>6 DEF IndInv

LEMMA IndInit == Init => IndInv
<1> SUFFICES ASSUME Init  PROVE IndInv
  OBVIOUS
<1>1. /\ text = <<>> /\ phase = "write" /\ pc = 1 /\ open = <<>>
      /\ pool = FreshPool /\ popped = <<>> /\ freed = {} /\ twice = FALSE
      /\ ids = [n \in Names |-> None] /\ task = [n \in Names |-> 0]
  BY DEF Init
<1>2. RunType
  <2>1. <<>> \in Seq(PoolIds) /\ Len(text) = 0 /\ pc \in 1 .. 0 + 1
    BY <1>1
  <2>2. pool \in Seq(PoolIds) /\ popped \in Seq(PoolIds)
    BY <1>1, <2>1, FreshPoolIsWhole
  <2>3. ids \in [Names -> PoolIds \cup {None}] /\ task \in [Names -> Nat]
    BY <1>1
  <2> QED
    BY <1>1, <2>1, <2>2, <2>3 DEF RunType
<1>3. Lowered /\ Assigned /\ Own
  BY <1>1 DEF Lowered, Assigned, Own
<1>4. Unfreed = {}
  BY <1>1 DEF Unfreed
<1>5. PoolParts
  BY <1>1, <1>4, FreshPoolIsWhole DEF PoolParts
<1> QED
  BY <1>2, <1>3, <1>5, TextInit DEF IndInv

\* Whatever sequence is written and whatever path it takes, its names have tasks
\* where they are used, and each task's id beside them.
THEOREM Invariance == Spec => []IndInv
<1>1. IndInv /\ [Next]_vars => IndInv'
  <2> SUFFICES ASSUME IndInv, [Next]_vars  PROVE IndInv'
    OBVIOUS
  <2>1. CASE UNCHANGED vars
    <3>1. UNCHANGED <<written, phase, pc, pool, ids, task, popped, freed, twice>>
      BY <2>1 DEF vars, history
    <3>2. TextInv' /\ text' = text /\ open' = open /\ (DivergentYield' <=> DivergentYield)
      BY <3>1, SameText DEF IndInv, written
    <3>3. RunType' /\ Lowered' /\ Assigned' /\ Own' /\ PoolParts'
      BY <3>1, <3>2, PoolPartsSame DEF IndInv, RunType, Lowered, Assigned, Live, Own
    <3> QED
      BY <3>2, <3>3 DEF IndInv
  <2> QED
    BY <2>1, IndWrites, IndLower, IndConfigure, IndStart, IndFree, IndFor, IndNext,
       IndIf, IndEndArm, IndEnd
    DEF Next
<1> QED
  BY <1>1, IndInit, PTL DEF Spec

\* While no task is freed twice, the free list has exactly the ids that no
\* unfreed task has, each once: dma_bd_pool_pop and dma_bd_pool_push neither lose
\* an id nor hand one to two tasks, and never find the list too short.
THEOREM PoolExact == Spec => []PoolIsExact
<1>1. IndInv => PoolIsExact
  <2> SUFFICES ASSUME IndInv, ~twice
               PROVE  /\ IsInjective(pool)
                      /\ ToSet(pool) = PoolIds \ {popped[t] : t \in DOMAIN popped \ freed}
    BY DEF PoolIsExact
  <2>1. /\ IsInjective(pool) /\ pool \in Seq(PoolIds)
        /\ \A id \in PoolIds : id \in ToSet(pool) <=> \A t \in Unfreed : popped[t] # id
    BY DEF IndInv, PoolParts, RunType
  <2>2. ToSet(pool) \subseteq PoolIds
    BY <2>1 DEF ToSet
  <2> QED
    BY <2>1, <2>2 DEF Unfreed
<1> QED
  BY <1>1, Invariance, PTL

-----------------------------------------------------------------------------
(* Starts and frees. While each task goes by one name at a time, a name    *)
(* that is still to be used has a freed task only if some free is found by *)
(* verifyNoStartAfterFree for every start of that name ahead.              *)

\* No name is defined twice.
OneDefinition ==
  \A i \in DOMAIN text :
    /\ text[i].op = "configure" => text[i].def \notin {"arg", "result", "phi"}
    /\ \A j \in DOMAIN text : text[i].def # None /\ text[i].def = text[j].def => i = j

\* A loop that ends in an arm began there, and so did one that is still open.
LoopInArm ==
  \A f \in DOMAIN text, b \in {"then", "else"} :
    text[f].op = "for" =>
      /\ \A x \in DOMAIN text : text[x].op = "next" /\ Inside(b, x) => Inside(b, f)
      /\ open = <<b, "loop">> => Inside(b, f)

\* A loop with an argument hands a task on to it at the end of each trip.
ArgumentGoesOn ==
  \A f, x \in DOMAIN text :
    text[f].op = "for" /\ text[x].op = "next" /\ text[f].task # None =>
      text[x].task # None

\* From position p control may come to i before n is defined anew.
Ahead(n, p, i) ==
  \/ p <= i /\ ~(Inside("then", p) /\ Inside("else", i))
  \/ Inside("loop", p) /\ Inside("loop", i) /\ ~DefinedInLoop(n)

\* At position p name n has a task and is still to be used.
Held(n, p) ==
  /\ \E j \in DOMAIN text : text[j].def = n /\ Live(j, p)
  /\ \E i \in DOMAIN text : text[i].task = n /\ Ahead(n, p, i)

\* The free at f is found for every start of n from position p on.
Behind(f, n, p) ==
  \/ f < p /\ ~(Inside("then", f) /\ Inside("else", p))
  \/ /\ Inside("loop", f) /\ Inside("loop", p)
     /\ \/ ~DefinedInLoop(n)
        \/ n = "arg" /\ text[At("next")].task \in AliasesAfter(text[f].task)

OneHolder ==
  \A m, n \in Names : Held(m, pc) /\ Held(n, pc) /\ task[m] = task[n] => m = n

FreesAreFound ==
  \A n \in Names :
    Held(n, pc) /\ task[n] \in freed =>
      \E f \in DOMAIN text :
        text[f].op = "free" /\ n \in AliasesAfter(text[f].task) /\ Behind(f, n, pc)

StartInv ==
  /\ OneDefinition /\ LoopInArm /\ ArgumentGoesOn
  /\ phase = "write" => ~strayed
  /\ phase = "run" => Accepted /\ (OneNameEach => OneHolder /\ FreesAreFound)
  /\ OneNameEach => ~strayed

-----------------------------------------------------------------------------
(* Where the blocks of a finished sequence lie.                            *)

\* Its loop is from f to x, or there is none.
LoopAt(f, x) ==
  /\ f \in 0 .. Len(text) /\ x \in 0 .. Len(text)
  /\ (f = 0 /\ x = 0) \/ (0 < f /\ f < x)
  /\ \A p \in DOMAIN text :
       (text[p].op = "for" <=> p = f) /\ (text[p].op = "next" <=> p = x)

\* Its arms are from i to e and from e to h, or there are none.
ArmsAt(i, e, h) ==
  /\ i \in 0 .. Len(text) /\ e \in 0 .. Len(text) /\ h \in 0 .. Len(text)
  /\ (i = 0 /\ e = 0 /\ h = 0) \/ (0 < i /\ i < e /\ e < h)
  /\ \A p \in DOMAIN text :
       /\ text[p].op = "if" <=> p = i
       /\ text[p].op = "else" <=> p = e
       /\ text[p].op = "fi" <=> p = h

\* One is in the other, or they are apart.
InOrder(f, x, i, e, h) ==
  \/ f = 0 \/ i = 0 \/ x < i \/ h < f
  \/ f < i /\ h < x
  \/ i < f /\ x < e
  \/ e < f /\ x < h

Shape(f, x, i, e, h) == LoopAt(f, x) /\ ArmsAt(i, e, h) /\ InOrder(f, x, i, e, h)

LEMMA LoopPlaces ==
  ASSUME TextInv, NEW f, NEW x, LoopAt(f, x), NEW p \in 1 .. Len(text) + 1
  PROVE  Inside("loop", p) <=> f < p /\ p <= x
<1>1. /\ f \in Nat /\ x \in Nat /\ p \in Nat /\ Len(text) \in Nat
      /\ DOMAIN text = 1 .. Len(text)
  BY DEF TextInv, TextType, LoopAt
<1>2. Before(p, "for") <=> 0 < f /\ f < p
  BY <1>1 DEF LoopAt, Before
<1>3. Before(p, "next") <=> 0 < x /\ x < p
  BY <1>1 DEF LoopAt, Before
<1> QED
  BY <1>1, <1>2, <1>3 DEF Inside, LoopAt

LEMMA ArmPlaces ==
  ASSUME TextInv, NEW i, NEW e, NEW h, ArmsAt(i, e, h), NEW p \in 1 .. Len(text) + 1
  PROVE  /\ Inside("then", p) <=> i < p /\ p <= e
         /\ Inside("else", p) <=> e < p /\ p <= h
<1>1. /\ i \in Nat /\ e \in Nat /\ h \in Nat /\ p \in Nat /\ Len(text) \in Nat
      /\ DOMAIN text = 1 .. Len(text)
  BY DEF TextInv, TextType, ArmsAt
<1>2. Before(p, "if") <=> 0 < i /\ i < p
  BY <1>1 DEF ArmsAt, Before
<1>3. Before(p, "else") <=> 0 < e /\ e < p
  BY <1>1 DEF ArmsAt, Before
<1>4. Before(p, "fi") <=> 0 < h /\ h < p
  BY <1>1 DEF ArmsAt, Before
<1> QED
  BY <1>1, <1>2, <1>3, <1>4 DEF Inside, ArmsAt

LEMMA Shaped ==
  ASSUME TextInv, LoopInArm, open = <<>>
  PROVE  \E f, x, i, e, h \in Nat : Shape(f, x, i, e, h)
<1>1. Len(text) \in Nat /\ DOMAIN text = 1 .. Len(text)
  BY DEF TextInv, TextType
<1>2. PICK f \in Nat, x \in Nat : LoopAt(f, x)
  <2>1. CASE ~Has("for")
    <3>1. \A p \in DOMAIN text : text[p].op # "for" /\ text[p].op # "next"
      BY <2>1 DEF Has, TextInv, Begun, Before
    <3> QED
      BY <1>1, <3>1 DEF LoopAt
  <2>2. CASE Has("for")
    <3>1. PICK f \in DOMAIN text : text[f].op = "for"
      BY <2>2 DEF Has
    <3>2. PICK x \in DOMAIN text : f < x /\ text[x].op = "next"
      BY <3>1, Finished
    <3>3. \A p \in DOMAIN text :
            (text[p].op = "for" <=> p = f) /\ (text[p].op = "next" <=> p = x)
      BY <3>1, <3>2 DEF TextInv, Once
    <3> QED
      BY <1>1, <3>2, <3>3 DEF LoopAt
  <2> QED
    BY <2>1, <2>2
<1>3. PICK i \in Nat, e \in Nat, h \in Nat : ArmsAt(i, e, h)
  <2>1. CASE ~Has("if")
    <3>1. \A p \in DOMAIN text :
            text[p].op # "if" /\ text[p].op # "else" /\ text[p].op # "fi"
      BY <2>1 DEF Has, TextInv, Begun, Before
    <3> QED
      BY <1>1, <3>1 DEF ArmsAt
  <2>2. CASE Has("if")
    <3>1. PICK i \in DOMAIN text : text[i].op = "if"
      BY <2>2 DEF Has
    <3>2. PICK e \in DOMAIN text : i < e /\ text[e].op = "else"
      BY <3>1, Finished
    <3>3. PICK h \in DOMAIN text : e < h /\ text[h].op = "fi"
      BY <3>2, Finished
    <3>4. \A p \in DOMAIN text :
            /\ text[p].op = "if" <=> p = i
            /\ text[p].op = "else" <=> p = e
            /\ text[p].op = "fi" <=> p = h
      BY <3>1, <3>2, <3>3 DEF TextInv, Once
    <3>5. /\ i \in 0 .. Len(text) /\ e \in 0 .. Len(text) /\ h \in 0 .. Len(text)
          /\ 0 < i /\ i < e /\ e < h /\ i \in Nat /\ e \in Nat /\ h \in Nat
      BY <1>1, <3>2, <3>3
    <3>6. ArmsAt(i, e, h)
      BY <3>4, <3>5 DEF ArmsAt
    <3> QED
      BY <3>5, <3>6
  <2> QED
    BY <2>1, <2>2
<1>4. InOrder(f, x, i, e, h)
  <2>1. SUFFICES ASSUME f # 0, i # 0, ~(x < i), ~(h < f)
                 PROVE  \/ f < i /\ h < x
                        \/ i < f /\ x < e
                        \/ e < f /\ x < h
    BY DEF InOrder
  <2>2. /\ f \in DOMAIN text /\ x \in DOMAIN text /\ i \in DOMAIN text
        /\ e \in DOMAIN text /\ h \in DOMAIN text
        /\ f < x /\ i < e /\ e < h
    BY <1>1, <1>2, <1>3, <2>1 DEF LoopAt, ArmsAt
  <2>3. /\ text[f].op = "for" /\ text[x].op = "next" /\ text[i].op = "if"
        /\ text[e].op = "else" /\ text[h].op = "fi"
        /\ \A p \in DOMAIN text : text[p].op = "next" => p = x
        /\ \A p \in DOMAIN text : text[p].op = "if" => p = i
        /\ \A p \in DOMAIN text : text[p].op = "else" => p = e
    BY <1>2, <1>3, <2>2 DEF LoopAt, ArmsAt
  <2>4. /\ x # i /\ x # e /\ x # h /\ f # i /\ f # e /\ f # h
    BY <2>3
  \* A loop does not end in an arm that it did not begin in.
  <2>5. /\ i < x /\ x < e => i < f
        /\ e < x /\ x < h => e < f
    <3>1. x \in 1 .. Len(text) + 1 /\ f \in 1 .. Len(text) + 1
      BY <1>1, <2>2
    <3>2. /\ Inside("then", x) => Inside("then", f)
          /\ Inside("else", x) => Inside("else", f)
      BY <2>2, <2>3 DEF LoopInArm
    <3> QED
      BY <1>3, <3>1, <3>2, ArmPlaces
  \* Nor does an arm that began outside the loop end in it.
  <2>6. /\ f < e /\ e < x => f < i
        /\ f < h /\ h < x => f < e
    <3>1. \A p \in DOMAIN text : p < x => ~Before(p, "next")
      BY <1>1, <2>2, <2>3 DEF Before
    <3> QED
      BY <2>2, <2>3, <3>1 DEF TextInv, Nested
  <2> QED
    BY <2>1, <2>2, <2>4, <2>5, <2>6, <1>1
<1> QED
  BY <1>2, <1>3, <1>4 DEF Shape

LEMMA ShapeNumbers ==
  ASSUME TextInv, NEW f, NEW x, NEW i, NEW e, NEW h, Shape(f, x, i, e, h)
  PROVE  /\ f \in Nat /\ x \in Nat /\ i \in Nat /\ e \in Nat /\ h \in Nat
         /\ Len(text) \in Nat /\ DOMAIN text = 1 .. Len(text)
         /\ f <= Len(text) /\ x <= Len(text) /\ i <= Len(text) /\ e <= Len(text)
         /\ h <= Len(text)
         /\ (f = 0 /\ x = 0) \/ (0 < f /\ f < x)
         /\ (i = 0 /\ e = 0 /\ h = 0) \/ (0 < i /\ i < e /\ e < h)
         /\ InOrder(f, x, i, e, h)
         /\ \A p \in DOMAIN text :
              /\ p \in Nat /\ 0 < p
              /\ text[p].op = "for" <=> p = f
              /\ text[p].op = "next" <=> p = x
              /\ text[p].op = "if" <=> p = i
              /\ text[p].op = "else" <=> p = e
              /\ text[p].op = "fi" <=> p = h
  BY DEF Shape, LoopAt, ArmsAt, TextInv, TextType

\* The blocks an operation stands in, and those it defines something for.
LEMMA InPlaces ==
  ASSUME TextInv, NEW f, NEW x, NEW i, NEW e, NEW h, Shape(f, x, i, e, h),
         NEW j \in DOMAIN text
  PROVE  /\ "loop" \in ToSet(text[j].in) <=> f < j /\ j < x
         /\ "then" \in ToSet(text[j].in) <=> i < j /\ j < e
         /\ "else" \in ToSet(text[j].in) <=> e < j /\ j < h
         /\ "loop" \in ToSet(Scope(text[j])) <=> f <= j /\ j < x
         /\ "then" \in ToSet(Scope(text[j])) <=> i < j /\ j < e
         /\ "else" \in ToSet(Scope(text[j])) <=> e < j /\ j < h
<1>1. j \in 1 .. Len(text) + 1 /\ j \in Nat
  BY ShapeNumbers
<1>2. \A b \in Blocks : b \in ToSet(text[j].in) <=> Inside(b, j) /\ ~Ends(text[j].op, b)
  BY DEF TextInv, InBlocks, Blocks
<1>3. /\ Inside("loop", j) <=> f < j /\ j <= x
      /\ Inside("then", j) <=> i < j /\ j <= e
      /\ Inside("else", j) <=> e < j /\ j <= h
  BY <1>1, LoopPlaces, ArmPlaces DEF Shape
<1>4. /\ Ends(text[j].op, "loop") <=> j = x
      /\ Ends(text[j].op, "then") <=> j = e
      /\ Ends(text[j].op, "else") <=> j = h
  BY ShapeNumbers DEF Ends
<1>5. /\ "loop" \in ToSet(text[j].in) <=> f < j /\ j < x
      /\ "then" \in ToSet(text[j].in) <=> i < j /\ j < e
      /\ "else" \in ToSet(text[j].in) <=> e < j /\ j < h
  BY <1>1, <1>2, <1>3, <1>4, ShapeNumbers DEF Blocks
<1>6. text[j].in \in Seq(Blocks) /\ "loop" \in Blocks
  BY ScopeBlocks, StacksAreSequences DEF TextInv, Blocks
<1>7. ToSet(Scope(text[j])) = ToSet(text[j].in) \cup {b \in {"loop"} : j = f}
  <2>1. CASE j = f
    <3>1. Scope(text[j]) = Append(text[j].in, "loop")
      BY <2>1, ShapeNumbers DEF Scope
    <3> QED
      BY <1>6, <2>1, <3>1, ToSetAppend
  <2>2. CASE j # f
    <3>1. Scope(text[j]) = text[j].in
      BY <2>2, ShapeNumbers DEF Scope
    <3> QED
      BY <2>2, <3>1
  <2> QED
    BY <2>1, <2>2
<1>8. "loop" \in ToSet(Scope(text[j])) <=> f <= j /\ j < x
  BY <1>1, <1>5, <1>7, ShapeNumbers
<1>9. /\ "then" \in ToSet(Scope(text[j])) <=> "then" \in ToSet(text[j].in)
      /\ "else" \in ToSet(Scope(text[j])) <=> "else" \in ToSet(text[j].in)
  BY <1>7
<1> QED
  BY <1>5, <1>8, <1>9

LEMMA LivePlaces ==
  ASSUME TextInv, NEW f, NEW x, NEW i, NEW e, NEW h, Shape(f, x, i, e, h),
         NEW j \in DOMAIN text, NEW p \in 1 .. Len(text) + 1
  PROVE  Live(j, p) <=>
           /\ j < p
           /\ f <= j /\ j < x => p <= x
           /\ i < j /\ j < e => p <= e
           /\ e < j /\ j < h => p <= h
<1> DEFINE Goes(b) == \A k \in DOMAIN text : k < p => ~Ends(text[k].op, b)
<1>1. p \in Nat /\ p <= Len(text) + 1
  BY ShapeNumbers
<1>2. /\ 0 < x => (Goes("loop") <=> p <= x)
      /\ 0 < e => (Goes("then") <=> p <= e)
      /\ 0 < h => (Goes("else") <=> p <= h)
  <2>1. ASSUME NEW y \in Nat, 0 < y, y <= Len(text), NEW b,
               \A k \in DOMAIN text : Ends(text[k].op, b) <=> k = y
        PROVE  Goes(b) <=> p <= y
    <3>1. y \in DOMAIN text
      BY <2>1, ShapeNumbers
    <3>2. Goes(b) <=> ~(y < p)
      BY <2>1, <3>1
    <3> QED
      BY <1>1, <2>1, <3>2
  <2>2. \A k \in DOMAIN text : /\ Ends(text[k].op, "loop") <=> k = x
                               /\ Ends(text[k].op, "then") <=> k = e
                               /\ Ends(text[k].op, "else") <=> k = h
    BY ShapeNumbers DEF Ends
  <2> HIDE DEF Goes
  <2> QED
    BY <2>1, <2>2, ShapeNumbers
<1>3. Live(j, p) <=> j < p /\ \A b \in ToSet(Scope(text[j])) : Goes(b)
  BY DEF Live
<1> HIDE DEF Goes
<1>4. ToSet(Scope(text[j])) \subseteq Blocks
  BY ScopeBlocks DEF TextInv
<1>5. Live(j, p) <=>
        /\ j < p
        /\ "loop" \in ToSet(Scope(text[j])) => Goes("loop")
        /\ "then" \in ToSet(Scope(text[j])) => Goes("then")
        /\ "else" \in ToSet(Scope(text[j])) => Goes("else")
  BY <1>3, <1>4 DEF Blocks
<1>6. /\ f <= j /\ j < x => 0 < x
      /\ i < j /\ j < e => 0 < e
      /\ e < j /\ j < h => 0 < h
  BY ShapeNumbers
<1> QED
  BY <1>2, <1>5, <1>6, InPlaces

LEMMA DefinedPlaces ==
  ASSUME TextInv, OneDefinition,
         NEW f, NEW x, NEW i, NEW e, NEW h, Shape(f, x, i, e, h),
         NEW j \in DOMAIN text, text[j].def # None
  PROVE  DefinedInLoop(text[j].def) <=> f <= j /\ j < x
<1>1. \A k \in DOMAIN text : text[k].def = text[j].def => k = j
  BY DEF OneDefinition
<1> QED
  BY <1>1, InPlaces DEF DefinedInLoop

LEMMA InsidePlaces ==
  ASSUME TextInv, NEW f, NEW x, NEW i, NEW e, NEW h, Shape(f, x, i, e, h),
         NEW p, p \in DOMAIN text \/ p \in 1 .. Len(text) + 1
  PROVE  /\ Inside("loop", p) <=> f < p /\ p <= x
         /\ Inside("then", p) <=> i < p /\ p <= e
         /\ Inside("else", p) <=> e < p /\ p <= h
<1>1. p \in 1 .. Len(text) + 1
  BY ShapeNumbers
<1> QED
  BY <1>1, LoopPlaces, ArmPlaces DEF Shape

\* Control goes from p to q.
Moves(p, q) ==
  \/ q = p + 1 /\ text[p].op # "else"
  \/ text[p].op = "for" /\ q = At("next") + 1
  \/ text[p].op = "next" /\ q = At("for") + 1
  \/ text[p].op = "if" /\ q = At("else") + 1
  \/ text[p].op = "else" /\ q = At("fi") + 1

LEMMA MovePlaces ==
  ASSUME TextInv, NEW f, NEW x, NEW i, NEW e, NEW h, Shape(f, x, i, e, h),
         NEW p \in DOMAIN text, NEW q, Moves(p, q)
  PROVE  /\ q \in 1 .. Len(text) + 1 /\ q - 1 \in DOMAIN text /\ q \in Nat
         /\ p \in 1 .. Len(text) + 1 /\ p \in Nat
         /\ \/ q = p + 1 /\ p # e
            \/ p = f /\ q = x + 1
            \/ p = x /\ q = f + 1
            \/ p = i /\ q = e + 1
            \/ p = e /\ q = h + 1
<1>1. /\ p = f => x \in DOMAIN text /\ text[x].op = "next"
      /\ p = x => f \in DOMAIN text /\ text[f].op = "for"
      /\ p = i => e \in DOMAIN text /\ text[e].op = "else"
      /\ p = e => h \in DOMAIN text /\ text[h].op = "fi"
  BY ShapeNumbers
<1>2. /\ p = f => At("next") = x
      /\ p = x => At("for") = f
      /\ p = i => At("else") = e
      /\ p = e => At("fi") = h
  BY <1>1, TheOperation
<1>3. \/ q = p + 1 /\ p # e
      \/ p = f /\ q = x + 1
      \/ p = x /\ q = f + 1
      \/ p = i /\ q = e + 1
      \/ p = e /\ q = h + 1
  BY <1>2, ShapeNumbers DEF Moves
<1>4. /\ f \in Nat /\ x \in Nat /\ e \in Nat /\ h \in Nat /\ p \in 1 .. Len(text)
      /\ Len(text) \in Nat /\ DOMAIN text = 1 .. Len(text)
  BY ShapeNumbers
<1>5. p \in Nat /\ p \in 1 .. Len(text) + 1
  BY <1>4
<1>6. \E y \in 1 .. Len(text) : q = y + 1
  BY <1>1, <1>3, <1>4
<1>7. q \in 1 .. Len(text) + 1 /\ q - 1 \in DOMAIN text /\ q \in Nat
  BY <1>4, <1>6
<1> QED
  BY <1>3, <1>5, <1>7

-----------------------------------------------------------------------------
(* What a step of control does to what is held, and to the frees behind.   *)

\* A name that is held after a step and not defined by it was held before.
LEMMA HeldEarlier ==
  ASSUME TextInv, OneDefinition,
         NEW f, NEW x, NEW i, NEW e, NEW h, Shape(f, x, i, e, h),
         NEW p \in DOMAIN text, NEW q, Moves(p, q),
         NEW n, n # None, text[q - 1].def # n, Held(n, q)
  PROVE  Held(n, p)
<1>1. /\ q \in 1 .. Len(text) + 1 /\ q \in Nat /\ p \in 1 .. Len(text) + 1 /\ p \in Nat
      /\ \/ q = p + 1 /\ p # e
         \/ p = f /\ q = x + 1
         \/ p = x /\ q = f + 1
         \/ p = i /\ q = e + 1
         \/ p = e /\ q = h + 1
  BY MovePlaces
<1>2. PICK j \in DOMAIN text : text[j].def = n /\ Live(j, q)
  BY DEF Held
<1>3. PICK k \in DOMAIN text : text[k].task = n /\ Ahead(n, q, k)
  BY DEF Held
<1> DEFINE inLoop == DefinedInLoop(n)
<1>4. inLoop <=> f <= j /\ j < x
  BY <1>2, DefinedPlaces
<1>5. /\ j < q
      /\ f <= j /\ j < x => q <= x
      /\ i < j /\ j < e => q <= e
      /\ e < j /\ j < h => q <= h
  BY <1>1, <1>2, LivePlaces
<1>6. \/ q <= k /\ ~(i < q /\ q <= e /\ e < k /\ k <= h)
      \/ f < q /\ q <= x /\ f < k /\ k <= x /\ ~inLoop
  BY <1>1, <1>3, InsidePlaces DEF Ahead
<1> HIDE DEF inLoop
<1>7. /\ j \in Nat /\ 0 < j /\ j # q - 1 /\ k \in Nat /\ 0 < k
      /\ f \in Nat /\ x \in Nat /\ i \in Nat /\ e \in Nat /\ h \in Nat
      /\ (f = 0 /\ x = 0) \/ (0 < f /\ f < x)
      /\ (i = 0 /\ e = 0 /\ h = 0) \/ (0 < i /\ i < e /\ e < h)
      /\ 0 < p
  BY <1>2, ShapeNumbers
<1>8. \/ f = 0 \/ i = 0 \/ x < i \/ h < f
      \/ f < i /\ h < x
      \/ i < f /\ x < e
      \/ e < f /\ x < h
  BY ShapeNumbers DEF InOrder
<1>9. /\ j < p
      /\ f <= j /\ j < x => p <= x
      /\ i < j /\ j < e => p <= e
      /\ e < j /\ j < h => p <= h
  <2>1. j # i /\ j # e
    BY <1>2, ShapeNumbers DEF TextInv, Defines
  <2> QED
    BY <1>1, <1>5, <1>7, <1>8, <2>1
<1>10. \/ p <= k /\ ~(i < p /\ p <= e /\ e < k /\ k <= h)
       \/ f < p /\ p <= x /\ f < k /\ k <= x /\ ~inLoop
  BY <1>1, <1>4, <1>5, <1>6, <1>7, <1>8
<1>11. Live(j, p)
  BY <1>1, <1>9, LivePlaces
<1>12. Ahead(n, p, k)
  BY <1>1, <1>10, InsidePlaces DEF Ahead, inLoop
<1> QED
  BY <1>2, <1>3, <1>11, <1>12 DEF Held

HandsOn(p) == text[p].op \in {"for", "next", "else", "fi"} /\ text[p].task # None

\* A name that is handed on by a step that does not define it is not held after it.
LEMMA HandedOver ==
  ASSUME TextInv, OneDefinition, OneNameEach,
         NEW f, NEW x, NEW i, NEW e, NEW h, Shape(f, x, i, e, h),
         NEW p \in DOMAIN text, NEW q, Moves(p, q), HandsOn(p),
         text[q - 1].def # text[p].task
  PROVE  ~Held(text[p].task, q)
<1> DEFINE n == text[p].task
<1> SUFFICES ASSUME Held(n, q)  PROVE FALSE
  OBVIOUS
<1>1. /\ q \in 1 .. Len(text) + 1 /\ q \in Nat /\ p \in 1 .. Len(text) + 1 /\ p \in Nat
      /\ \/ q = p + 1 /\ p # e
         \/ p = f /\ q = x + 1
         \/ p = x /\ q = f + 1
         \/ p = i /\ q = e + 1
         \/ p = e /\ q = h + 1
  BY MovePlaces
<1>2. PICK j \in DOMAIN text : text[j].def = n /\ Live(j, q)
  BY DEF Held
<1>3. PICK k \in DOMAIN text : text[k].task = n /\ Ahead(n, q, k)
  BY DEF Held
<1> DEFINE inLoop == DefinedInLoop(n)
<1>4. inLoop <=> f <= j /\ j < x
  BY <1>2, DefinedPlaces DEF HandsOn
<1>5. /\ j < q
      /\ f <= j /\ j < x => q <= x
      /\ i < j /\ j < e => q <= e
      /\ e < j /\ j < h => q <= h
  BY <1>1, <1>2, LivePlaces
<1>6. \/ q <= k /\ ~(i < q /\ q <= e /\ e < k /\ k <= h)
      \/ f < q /\ q <= x /\ f < k /\ k <= x /\ ~inLoop
  BY <1>1, <1>3, InsidePlaces DEF Ahead
<1>7. /\ j \in Nat /\ 0 < j /\ j # q - 1 /\ k \in Nat /\ 0 < k /\ k <= Len(text)
      /\ f \in Nat /\ x \in Nat /\ i \in Nat /\ e \in Nat /\ h \in Nat
      /\ (f = 0 /\ x = 0) \/ (0 < f /\ f < x)
      /\ (i = 0 /\ e = 0 /\ h = 0) \/ (0 < i /\ i < e /\ e < h)
      /\ 0 < p /\ Len(text) \in Nat
  BY <1>2, ShapeNumbers
<1>8. \/ f = 0 \/ i = 0 \/ x < i \/ h < f
      \/ f < i /\ h < x
      \/ i < f /\ x < e
      \/ e < f /\ x < h
  BY ShapeNumbers DEF InOrder
<1>9. p < k => \/ i < p /\ p < e /\ e < k /\ k < h
               \/ p = e /\ (k = h \/ (e < k /\ k < h))
  <2>1. ASSUME p < k  PROVE Opposite(p, k)
    <3>1. k \in p + 1 .. Len(text)
      BY <1>1, <1>7, <2>1
    <3> QED
      BY <1>3, <3>1 DEF OneNameEach, HandsOn
  <2>2. /\ "then" \in ToSet(text[p].in) <=> i < p /\ p < e
        /\ "else" \in ToSet(text[k].in) <=> e < k /\ k < h
        /\ text[p].op = "else" <=> p = e
        /\ text[k].op = "fi" <=> k = h
    BY InPlaces, ShapeNumbers
  <2> QED
    BY <2>1, <2>2 DEF Opposite
<1>10. p = x \/ (p # f /\ f < p /\ p < x) => inLoop
  <2>1. text[p].op = "next" \/ (text[p].op # "for" /\ "loop" \in ToSet(text[p].in)) =>
             inLoop
    BY DEF OneNameEach, HandsOn
  <2>2. /\ text[p].op = "next" <=> p = x
        /\ text[p].op = "for" <=> p = f
        /\ "loop" \in ToSet(text[p].in) <=> f < p /\ p < x
    BY InPlaces, ShapeNumbers
  <2> QED
    BY <2>1, <2>2
<1>11. p = f \/ p = x \/ p = e \/ p = h
  BY ShapeNumbers DEF HandsOn
<1> HIDE DEF n, inLoop
<1>12. CASE p = f
  BY <1>1, <1>4, <1>5, <1>6, <1>7, <1>8, <1>9, <1>12
<1>13. CASE p = x
  BY <1>1, <1>4, <1>5, <1>6, <1>7, <1>8, <1>10, <1>13
<1>14. CASE p = e
  BY <1>1, <1>4, <1>5, <1>6, <1>7, <1>8, <1>9, <1>10, <1>14
<1>15. CASE p = h
  BY <1>1, <1>4, <1>5, <1>6, <1>7, <1>8, <1>9, <1>10, <1>15
<1> QED
  BY <1>11, <1>12, <1>13, <1>14, <1>15

\* A free that is found for a name it held is found for it after a step.
LEMMA BehindOn ==
  ASSUME TextInv, OneDefinition,
         NEW f, NEW x, NEW i, NEW e, NEW h, Shape(f, x, i, e, h),
         NEW p \in DOMAIN text, NEW q, Moves(p, q),
         NEW n, n # None, text[q - 1].def # n, Held(n, q),
         NEW k \in DOMAIN text, text[k].op = "free", Behind(k, n, p)
  PROVE  Behind(k, n, q)
<1>1. /\ q \in 1 .. Len(text) + 1 /\ q \in Nat /\ p \in 1 .. Len(text) + 1 /\ p \in Nat
      /\ \/ q = p + 1 /\ p # e
         \/ p = f /\ q = x + 1
         \/ p = x /\ q = f + 1
         \/ p = i /\ q = e + 1
         \/ p = e /\ q = h + 1
  BY MovePlaces
<1>2. PICK j \in DOMAIN text : text[j].def = n /\ Live(j, q)
  BY DEF Held
<1> DEFINE inLoop == DefinedInLoop(n)
           argument == n = "arg" /\ text[At("next")].task \in AliasesAfter(text[k].task)
<1>3. inLoop <=> f <= j /\ j < x
  BY <1>2, DefinedPlaces
<1>4. /\ j < q
      /\ f <= j /\ j < x => q <= x
  BY <1>1, <1>2, LivePlaces
<1>5. \/ k < p /\ ~(i < k /\ k <= e /\ e < p /\ p <= h)
      \/ f < k /\ k <= x /\ f < p /\ p <= x /\ (~inLoop \/ argument)
  BY <1>1, InsidePlaces DEF Behind
<1> HIDE DEF inLoop, argument
<1>6. /\ j \in Nat /\ 0 < j /\ j # q - 1 /\ k \in Nat /\ 0 < k
      /\ k # f /\ k # x /\ k # i /\ k # e /\ k # h
      /\ f \in Nat /\ x \in Nat /\ i \in Nat /\ e \in Nat /\ h \in Nat
      /\ (f = 0 /\ x = 0) \/ (0 < f /\ f < x)
      /\ (i = 0 /\ e = 0 /\ h = 0) \/ (0 < i /\ i < e /\ e < h)
      /\ 0 < p
  BY <1>2, ShapeNumbers
<1>7. \/ f = 0 \/ i = 0 \/ x < i \/ h < f
      \/ f < i /\ h < x
      \/ i < f /\ x < e
      \/ e < f /\ x < h
  BY ShapeNumbers DEF InOrder
<1>8. \/ k < q /\ ~(i < k /\ k <= e /\ e < q /\ q <= h)
      \/ f < k /\ k <= x /\ f < q /\ q <= x /\ (~inLoop \/ argument)
  BY <1>1, <1>3, <1>4, <1>5, <1>6, <1>7
<1> QED
  BY <1>1, <1>8, InsidePlaces DEF Behind, inLoop, argument

\* It is found for the name that the step hands the task on to.
LEMMA BehindHandOn ==
  ASSUME TextInv, OneNameEach,
         NEW f, NEW x, NEW i, NEW e, NEW h, Shape(f, x, i, e, h),
         NEW p \in DOMAIN text, NEW q, Moves(p, q), HandsOn(p),
         NEW n, p = x /\ q = f + 1 => n = "arg",
         NEW k \in DOMAIN text, text[k].op = "free", Behind(k, text[p].task, p),
         text[p].task \in AliasesAfter(text[k].task)
  PROVE  Behind(k, n, q)
<1> DEFINE m == text[p].task
           inLoop == DefinedInLoop(m)
           argument == m = "arg" /\ text[At("next")].task \in AliasesAfter(text[k].task)
           handed == n = "arg" /\ text[At("next")].task \in AliasesAfter(text[k].task)
<1>1. /\ q \in 1 .. Len(text) + 1 /\ q \in Nat /\ p \in 1 .. Len(text) + 1 /\ p \in Nat
      /\ \/ q = p + 1 /\ p # e
         \/ p = f /\ q = x + 1
         \/ p = x /\ q = f + 1
         \/ p = i /\ q = e + 1
         \/ p = e /\ q = h + 1
  BY MovePlaces
<1>2. \/ k < p /\ ~(i < k /\ k <= e /\ e < p /\ p <= h)
      \/ f < k /\ k <= x /\ f < p /\ p <= x /\ (~inLoop \/ argument)
  BY <1>1, InsidePlaces DEF Behind
<1>3. (p = e \/ p = h) /\ f < p /\ p < x => inLoop /\ ~argument
  <2>1. text[p].op \in {"else", "fi"} /\ "loop" \in ToSet(text[p].in) =>
             inLoop /\ m # "arg"
    BY DEF OneNameEach, HandsOn
  <2> QED
    BY <2>1, InPlaces, ShapeNumbers
<1>4. p = x /\ q = f + 1 => handed
  <2>1. p = x => At("next") = p
    BY ShapeNumbers, TheOperation
  <2> QED
    BY <2>1
<1>5. p = f \/ p = x \/ p = e \/ p = h
  BY ShapeNumbers DEF HandsOn
<1> HIDE DEF m, inLoop, argument, handed
<1>6. /\ k \in Nat /\ 0 < k
      /\ k # f /\ k # x /\ k # i /\ k # e /\ k # h
      /\ f \in Nat /\ x \in Nat /\ i \in Nat /\ e \in Nat /\ h \in Nat
      /\ (f = 0 /\ x = 0) \/ (0 < f /\ f < x)
      /\ (i = 0 /\ e = 0 /\ h = 0) \/ (0 < i /\ i < e /\ e < h)
      /\ 0 < p /\ (0 < x => x # e /\ x # h)
  BY ShapeNumbers
<1>7. \/ f = 0 \/ i = 0 \/ x < i \/ h < f
      \/ f < i /\ h < x
      \/ i < f /\ x < e
      \/ e < f /\ x < h
  BY ShapeNumbers DEF InOrder
<1>8. \/ k < q /\ ~(i < k /\ k <= e /\ e < q /\ q <= h)
      \/ f < k /\ k <= x /\ f < q /\ q <= x /\ handed
  BY <1>1, <1>2, <1>3, <1>4, <1>5, <1>6, <1>7
<1> QED
  BY <1>1, <1>8, InsidePlaces DEF Behind, handed

-----------------------------------------------------------------------------
(* StartInv is inductive.                                                  *)

LEMMA AliasOfItself ==
  ASSUME NEW n
  PROVE  n \in AliasesAfter(n)
  BY DEF AliasesAfter

LEMMA AliasesFlow ==
  ASSUME NEW n, NEW a \in AliasesAfter(n), NEW b \in {"arg", "result", "phi"},
         <<a, b>> \in Flows
  PROVE  b \in AliasesAfter(n)
<1> DEFINE derived == {"arg", "result", "phi"}
           Closed(S) == \A f \in Flows : f[1] \in S \cup {n} => f[2] \in S
<1>1. AliasesAfter(n) = {n} \cup {m \in derived : \A S \in SUBSET derived : Closed(S) => m \in S}
  BY DEF AliasesAfter
<1>2. ASSUME NEW S \in SUBSET derived, Closed(S)  PROVE b \in S
  <2>1. a \in S \cup {n}
    BY <1>1, <1>2
  <2>2. <<a, b>>[1] = a /\ <<a, b>>[2] = b
    OBVIOUS
  <2> QED
    BY <1>2, <2>1, <2>2
<1> HIDE DEF Closed
<1> QED
  BY <1>1, <1>2

LEMMA HandedFlows ==
  ASSUME NEW p \in DOMAIN text
  PROVE  /\ text[p].op \in {"for", "next"} =>
              <<text[p].task, "arg">> \in Flows /\ <<text[p].task, "result">> \in Flows
         /\ text[p].op \in {"else", "fi"} => <<text[p].task, "phi">> \in Flows
  BY DEF Flows

\* What an operation uses is held there.
LEMMA HeldUsed ==
  ASSUME TextInv, NEW p \in DOMAIN text, text[p].task # None
  PROVE  Held(text[p].task, p)
<1>1. Ahead(text[p].task, p, p)
  <2>1. p <= p
    BY TheOperation
  <2> QED
    BY <2>1 DEF Ahead, Inside
<1> QED
  BY <1>1 DEF Held, TextInv, UsesDefined

\* While a sequence runs, what is said of its text stays.
LEMMA SameSequence ==
  ASSUME UNCHANGED written
  PROVE  /\ text' = text
         /\ OneDefinition' <=> OneDefinition
         /\ LoopInArm' <=> LoopInArm
         /\ ArgumentGoesOn' <=> ArgumentGoesOn
         /\ OneNameEach' <=> OneNameEach
         /\ Accepted' <=> Accepted
         /\ OneHolder' <=> \A m, n \in Names :
              Held(m, pc') /\ Held(n, pc') /\ task'[m] = task'[n] => m = n
         /\ FreesAreFound' <=> \A n \in Names :
              Held(n, pc') /\ task'[n] \in freed' =>
                \E k \in DOMAIN text :
                  text[k].op = "free" /\ n \in AliasesAfter(text[k].task) /\ Behind(k, n, pc')
<1>1. text' = text /\ open' = open
  BY DEF written
<1>2. \A op : \A p : Before(p, op)' <=> Before(p, op)
  BY <1>1 DEF Before
<1>3. \A b, p : Inside(b, p)' <=> Inside(b, p)
  BY <1>2 DEF Inside
<1>4. \A n : DefinedInLoop(n)' <=> DefinedInLoop(n)
  BY <1>1 DEF DefinedInLoop
<1>5. Flows' = Flows
  BY <1>1 DEF Flows
<1>6. \A n : AliasesAfter(n)' = AliasesAfter(n)
  BY <1>5 DEF AliasesAfter
<1>7. \A op : At(op)' = At(op) /\ (Has(op)' <=> Has(op))
  BY <1>1 DEF At, Has
<1>8. OneDefinition' <=> OneDefinition
  BY <1>1 DEF OneDefinition
<1>9. LoopInArm' <=> LoopInArm
  BY <1>1, <1>3 DEF LoopInArm
<1>10. ArgumentGoesOn' <=> ArgumentGoesOn
  BY <1>1 DEF ArgumentGoesOn
<1>11. OneNameEach' <=> OneNameEach
  BY <1>1, <1>4 DEF OneNameEach, Opposite
<1>12. Accepted' <=> Accepted
  <2>1. DivergentYield' <=> DivergentYield
    BY <1>1, <1>7 DEF DivergentYield
  <2>2. \A k, s : LaterInBlock(k, s)' <=> LaterInBlock(k, s)
    BY <1>1 DEF LaterInBlock
  <2>3. \A k, s : NextTrip(k, s)' <=> NextTrip(k, s)
    BY <1>1, <1>4, <1>6, <1>7 DEF NextTrip
  <2>4. \A k, s : StartAfterFree(k, s)' <=> StartAfterFree(k, s)
    BY <1>1, <1>6, <2>2, <2>3 DEF StartAfterFree
  <2> QED
    BY <1>1, <2>1, <2>4 DEF Accepted
<1>13. \A n : Held(n, pc)' <=> Held(n, pc')
  <2>1. \A j : Live(j, pc)' <=> Live(j, pc')
    BY <1>1 DEF Live
  <2>2. \A n, k : Ahead(n, pc, k)' <=> Ahead(n, pc', k)
    BY <1>1, <1>3, <1>4 DEF Ahead, Inside, Before
  <2> QED
    BY <1>1, <2>1, <2>2 DEF Held
<1>14. \A k, n : Behind(k, n, pc)' <=> Behind(k, n, pc')
  BY <1>1, <1>3, <1>4, <1>6, <1>7 DEF Behind, Inside, Before
<1>15. OneHolder' <=> \A m, n \in Names :
         Held(m, pc') /\ Held(n, pc') /\ task'[m] = task'[n] => m = n
  BY <1>13 DEF OneHolder
<1>16. FreesAreFound' <=> \A n \in Names :
         Held(n, pc') /\ task'[n] \in freed' =>
           \E k \in DOMAIN text :
             text[k].op = "free" /\ n \in AliasesAfter(text[k].task) /\ Behind(k, n, pc')
  BY <1>1, <1>6, <1>13, <1>14 DEF FreesAreFound
<1> QED
  BY <1>1, <1>8, <1>9, <1>10, <1>11, <1>12, <1>15, <1>16

\* The text stays as it is: what is left to show of a step of control.
LEMMA StartKept ==
  ASSUME StartInv, UNCHANGED written, phase = "run",
         phase' = "run" /\ OneNameEach =>
           /\ \A m, n \in Names :
                Held(m, pc') /\ Held(n, pc') /\ task'[m] = task'[n] => m = n
           /\ \A n \in Names :
                Held(n, pc') /\ task'[n] \in freed' =>
                  \E k \in DOMAIN text :
                    text[k].op = "free" /\ n \in AliasesAfter(text[k].task) /\ Behind(k, n, pc'),
         phase' # "write", OneNameEach => ~strayed'
  PROVE  StartInv'
<1>1. OneDefinition' /\ LoopInArm' /\ ArgumentGoesOn'
  BY SameSequence DEF StartInv
<1>2. phase' = "run" => Accepted' /\ (OneNameEach' => OneHolder' /\ FreesAreFound')
  BY SameSequence DEF StartInv
<1>3. OneNameEach' => ~strayed'
  BY SameSequence
<1> QED
  BY <1>1, <1>2, <1>3 DEF StartInv

\* A step of control that hands nothing on, and may be a free.
LEMMA StartMoves ==
  ASSUME IndInv, StartInv, phase = "run", UNCHANGED <<written, phase, task>>,
         pc \in DOMAIN text, Moves(pc, pc'), text[pc' - 1].def = None,
         \/ UNCHANGED freed
         \/ text[pc].op = "free" /\ freed' = freed \cup {task[text[pc].task]},
         OneNameEach => ~strayed'
  PROVE  StartInv'
<1>1. TextInv /\ OneDefinition /\ LoopInArm /\ open = <<>>
  BY DEF IndInv, Lowered, StartInv
<1>2. PICK f, x, i, e, h \in Nat : Shape(f, x, i, e, h)
  BY <1>1, Shaped
<1>3. ASSUME NEW n \in Names, Held(n, pc')  PROVE Held(n, pc)
  <2>1. n # None
    BY NoneAssumption
  <2> QED
    BY <1>1, <1>2, <1>3, <2>1, HeldEarlier
<1>4. ASSUME OneNameEach, NEW m \in Names, NEW n \in Names,
             Held(m, pc'), Held(n, pc'), task'[m] = task'[n]
      PROVE  m = n
  BY <1>3, <1>4 DEF StartInv, OneHolder
<1>5. ASSUME OneNameEach, NEW n \in Names, Held(n, pc'), task'[n] \in freed'
      PROVE  \E k \in DOMAIN text :
               text[k].op = "free" /\ n \in AliasesAfter(text[k].task) /\ Behind(k, n, pc')
  <2>1. Held(n, pc) /\ n # None
    BY <1>3, <1>5, NoneAssumption
  <2>2. CASE task[n] \in freed
    <3>1. PICK k \in DOMAIN text :
            text[k].op = "free" /\ n \in AliasesAfter(text[k].task) /\ Behind(k, n, pc)
      BY <1>5, <2>1, <2>2 DEF StartInv, FreesAreFound
    <3>2. Behind(k, n, pc')
      BY <1>1, <1>2, <1>5, <2>1, <3>1, BehindOn
    <3> QED
      BY <3>1, <3>2
  <2>3. CASE text[pc].op = "free" /\ task[n] = task[text[pc].task]
    <3>1. text[pc].task # None /\ text[pc].task \in Names
      <4>1. text[pc].task # None
        BY <2>3 DEF IndInv, TextInv, Defines
      <4>2. text[pc] \in Operations
        BY <1>1, TheOperation
      <4> QED
        BY <4>1, <4>2 DEF Operations
    <3>2. n = text[pc].task
      BY <1>1, <1>5, <2>1, <2>3, <3>1, HeldUsed DEF StartInv, OneHolder
    <3>3. Behind(pc, n, pc')
      <4>1. pc' = pc + 1 /\ pc \in Nat
        BY <1>1, <2>3, TheOperation DEF Moves
      <4>2. ~(Inside("then", pc) /\ Inside("else", pc'))
        <5>1. \A l \in DOMAIN text : text[l].op = "else" => l # pc
          BY <2>3
        <5>2. \A l \in DOMAIN text : l \in Nat
          BY <1>1, TheOperation
        <5>3. Before(pc', "else") => Before(pc, "else")
          BY <4>1, <5>1, <5>2 DEF Before
        <5> QED
          BY <5>3 DEF Inside
      <4> QED
        BY <4>1, <4>2 DEF Behind
    <3> QED
      BY <2>3, <3>2, <3>3, AliasOfItself
  <2> QED
    BY <1>5, <2>2, <2>3
<1> QED
  BY <1>4, <1>5, StartKept

\* A step that hands a task on.
LEMMA StartHandsOn ==
  ASSUME IndInv, StartInv, phase = "run", UNCHANGED <<written, phase, freed, strayed>>,
         pc \in DOMAIN text, Moves(pc, pc'), HandsOn(pc),
         NEW to \in {"arg", "result", "phi"}, HandOn(to, text[pc].task),
         text[pc' - 1].def \in {to, None}, <<text[pc].task, to>> \in Flows,
         text[pc].op = "next" /\ pc' = At("for") + 1 => to = "arg"
  PROVE  StartInv'
<1> DEFINE m == text[pc].task
           before(n) == IF n = to THEN m ELSE n
<1>1. TextInv /\ OneDefinition /\ LoopInArm /\ open = <<>>
  BY DEF IndInv, Lowered, StartInv
<1>2. PICK f, x, i, e, h \in Nat : Shape(f, x, i, e, h)
  BY <1>1, Shaped
<1>3. m # None /\ m \in Names /\ to \in Names /\ to # None
  <2>1. text[pc] \in Operations /\ m # None /\ to \in Names
    BY <1>1, TheOperation DEF HandsOn, Names
  <2> QED
    BY <2>1, NoneAssumption DEF Operations
<1>4. \A n \in Names : task'[n] = task[before(n)]
  <2>1. task' = [task EXCEPT ![to] = task[m]] /\ task \in [Names -> Nat]
    BY <1>3 DEF HandOn, IndInv, RunType
  <2> QED
    BY <2>1
<1>5. ASSUME NEW n \in Names, n # to, Held(n, pc')
      PROVE  n # None /\ text[pc' - 1].def # n /\ Held(n, pc)
  <2>1. n # None /\ text[pc' - 1].def # n
    BY <1>5, NoneAssumption
  <2> QED
    BY <1>1, <1>2, <1>5, <2>1, HeldEarlier
<1>6. ASSUME NEW n \in Names, Held(n, pc')
      PROVE  before(n) \in Names /\ Held(before(n), pc)
  <2>1. Held(m, pc)
    BY <1>1, <1>3, HeldUsed
  <2> QED
    BY <1>3, <1>5, <1>6, <2>1
<1>7. ASSUME OneNameEach, Held(m, pc')  PROVE m = to
  <2>1. SUFFICES ASSUME m # to  PROVE FALSE
    OBVIOUS
  <2>2. text[pc' - 1].def # m
    BY <1>3, <2>1
  <2> QED
    BY <1>1, <1>2, <1>7, <2>2, HandedOver
<1>8. ASSUME OneNameEach, NEW a \in Names, NEW b \in Names,
             Held(a, pc'), Held(b, pc'), task'[a] = task'[b]
      PROVE  a = b
  <2>1. before(a) = before(b)
    <3>1. /\ before(a) \in Names /\ Held(before(a), pc)
          /\ before(b) \in Names /\ Held(before(b), pc)
          /\ task[before(a)] = task[before(b)]
      BY <1>4, <1>6, <1>8
    <3> HIDE DEF before
    <3> QED
      BY <1>8, <3>1 DEF StartInv, OneHolder
  <2> QED
    BY <1>7, <1>8, <2>1
<1>9. ASSUME OneNameEach, NEW n \in Names, Held(n, pc'), task'[n] \in freed'
      PROVE  \E k \in DOMAIN text :
               text[k].op = "free" /\ n \in AliasesAfter(text[k].task) /\ Behind(k, n, pc')
  <2>1. PICK k \in DOMAIN text :
          /\ text[k].op = "free" /\ before(n) \in AliasesAfter(text[k].task)
          /\ Behind(k, before(n), pc)
    <3>1. before(n) \in Names /\ Held(before(n), pc) /\ task[before(n)] \in freed
      BY <1>4, <1>6, <1>9
    <3> HIDE DEF before
    <3> QED
      BY <1>9, <3>1 DEF StartInv, FreesAreFound
  <2>2. CASE n = to
    <3>1. n \in AliasesAfter(text[k].task)
      BY <2>1, <2>2, AliasesFlow
    <3>2. pc = x /\ pc' = f + 1 => n = "arg"
      <4>1. pc = x => text[pc].op = "next" /\ f \in DOMAIN text /\ text[f].op = "for"
        BY <1>1, <1>2, ShapeNumbers
      <4>2. pc = x => At("for") = f
        BY <1>1, <4>1, TheOperation
      <4> QED
        BY <2>2, <4>1, <4>2
    <3>3. Behind(k, n, pc')
      BY <1>1, <1>2, <1>9, <2>1, <2>2, <3>2, BehindHandOn
    <3> QED
      BY <2>1, <3>1, <3>3
  <2>3. CASE n # to
    <3>1. n # None /\ text[pc' - 1].def # n
      BY <1>5, <1>9, <2>3
    <3>2. Behind(k, n, pc')
      BY <1>1, <1>2, <1>9, <2>1, <2>3, <3>1, BehindOn
    <3> QED
      BY <2>1, <2>3, <3>2
  <2> QED
    BY <2>2, <2>3
<1> HIDE DEF m, before
<1>10. OneNameEach => ~strayed'
  BY DEF StartInv
<1>11. phase' # "write"
  OBVIOUS
<1> QED
  BY <1>8, <1>9, <1>10, <1>11, StartKept

\* A started name is held, so a free of its task would be found.
LEMMA StartStart ==
  ASSUME IndInv, StartInv, Start
  PROVE  StartInv'
<1>1. "start" \in Ops /\ Op("start")
  BY DEF Ops, Start
<1>2. /\ pc \in DOMAIN text /\ pc \in 1 .. Len(text) /\ Len(text) \in Nat
      /\ phase = "run" /\ open = <<>> /\ text[pc].op = "start"
      /\ text[pc].task # None => text[pc].task \in Names /\ task[text[pc].task] # 0
  BY <1>1, AtOperation
<1> DEFINE n == text[pc].task
<1>3. text[pc].def = None /\ n # None
  BY <1>2 DEF IndInv, TextInv, Defines
<1>4. n \in Names /\ task[n] # 0 /\ ids[n] = popped[task[n]] /\ Held(n, pc)
  BY <1>2, <1>3, HeldUsed DEF IndInv, Own
<1>5. /\ pc' = pc + 1 /\ UNCHANGED <<written, phase>>
      /\ strayed' = (strayed \/ task[n] \in freed \/ ids[n] # popped[task[n]])
      /\ UNCHANGED <<trips, pool, ids, task, popped, freed, twice>>
  BY DEF Start, Goto
<1>6. ASSUME OneNameEach, task[n] \in freed  PROVE FALSE
  <2>1. PICK k \in DOMAIN text :
          text[k].op = "free" /\ n \in AliasesAfter(text[k].task) /\ Behind(k, n, pc)
    BY <1>2, <1>4, <1>6 DEF StartInv, FreesAreFound
  <2>2. \A b \in Blocks : /\ b \in ToSet(text[k].in) <=> Inside(b, k)
                          /\ b \in ToSet(text[pc].in) <=> Inside(b, pc)
    <3>1. \A b \in Blocks : ~Ends("free", b) /\ ~Ends("start", b)
      BY OpsDiffer
    <3> QED
      BY <1>2, <2>1, <3>1 DEF IndInv, TextInv, InBlocks, Blocks
  <2>3. LaterInBlock(k, pc) \/ NextTrip(k, pc)
    BY <2>1, <2>2 DEF Behind, LaterInBlock, NextTrip, Blocks
  <2>4. StartAfterFree(k, pc)
    BY <1>2, <2>1, <2>3 DEF StartAfterFree
  <2> QED
    BY <1>2, <2>4 DEF StartInv, Accepted
<1>7. OneNameEach => ~strayed'
  BY <1>4, <1>5, <1>6 DEF StartInv
<1>8. Moves(pc, pc') /\ text[pc' - 1].def = None
  BY <1>2, <1>3, <1>5 DEF Moves
<1> QED
  BY <1>2, <1>5, <1>7, <1>8, StartMoves

LEMMA StartFree ==
  ASSUME IndInv, StartInv, Free
  PROVE  StartInv'
<1>1. "free" \in Ops /\ Op("free")
  BY DEF Ops, Free
<1>2. pc \in DOMAIN text /\ pc \in 1 .. Len(text) /\ phase = "run" /\ text[pc].op = "free"
  BY <1>1, AtOperation
<1>3. /\ pc' = pc + 1 /\ UNCHANGED <<written, phase, task, strayed>>
      /\ freed' = freed \cup {task[text[pc].task]}
  BY DEF Free, Goto
<1>4. text[pc].def = None
  BY <1>2 DEF IndInv, TextInv, Defines
<1>5. Moves(pc, pc') /\ text[pc' - 1].def = None
  BY <1>2, <1>3, <1>4 DEF Moves
<1>6. OneNameEach => ~strayed'
  BY <1>3 DEF StartInv
<1>7. UNCHANGED <<written, phase, task>>
  BY <1>3
<1> QED
  BY <1>2, <1>3, <1>5, <1>6, <1>7, StartMoves

\* A new task is not freed, and nobody else's.
LEMMA StartConfigure ==
  ASSUME IndInv, StartInv, Configure
  PROVE  StartInv'
<1>1. "configure" \in Ops /\ Op("configure")
  BY DEF Ops, Configure
<1>2. /\ pc \in DOMAIN text /\ pc \in 1 .. Len(text) /\ open = <<>>
      /\ phase = "run" /\ text[pc].op = "configure"
      /\ text[pc].def # None => text[pc].def \in Names
  BY <1>1, AtOperation
<1> DEFINE d == text[pc].def
           T == Len(popped) + 1
<1>3. d \in Names /\ d # None
  BY <1>2 DEF IndInv, TextInv, Defines
<1>4. UNCHANGED <<written, freed, strayed>>
  BY DEF Configure, Goto
<1>5. OneNameEach => ~strayed'
  BY <1>4 DEF StartInv
<1>6. CASE pool = <<>>
  <2>1. phase' = "refused"
    BY <1>6 DEF Configure
  <2> QED
    BY <1>2, <1>4, <1>5, <2>1, StartKept
<1>7. CASE pool # <<>>
  <2>1. /\ pc' = pc + 1 /\ phase' = "run"
        /\ task' = [task EXCEPT ![d] = T] /\ task \in [Names -> Nat]
    BY <1>2, <1>7 DEF Configure, Goto, IndInv, RunType
  <2>2. T \notin freed /\ \A n \in Names : task[n] # 0 => task[n] # T
    <3>1. popped \in Seq(PoolIds) /\ freed \subseteq DOMAIN popped
      BY DEF IndInv, RunType
    <3>2. T \notin DOMAIN popped
      BY <3>1
    <3> QED
      BY <3>1, <3>2 DEF IndInv, Own
  <2>3. /\ TextInv /\ OneDefinition /\ LoopInArm /\ Moves(pc, pc') /\ pc' - 1 = pc
    BY <1>2, <2>1 DEF IndInv, StartInv, Moves
  <2>4. PICK f, x, i, e, h \in Nat : Shape(f, x, i, e, h)
    BY <1>2, <2>3, Shaped
  <2> HIDE DEF d, T
  <2>5. \A n \in Names : task'[n] = IF n = d THEN T ELSE task[n]
    BY <1>3, <2>1
  <2>6. ASSUME NEW n \in Names, n # d, Held(n, pc')
        PROVE  n # None /\ text[pc' - 1].def # n /\ Held(n, pc) /\ task[n] # 0
    <3>1. n # None /\ text[pc' - 1].def # n
      BY <2>3, <2>6, NoneAssumption DEF d
    <3>2. Held(n, pc)
      BY <1>2, <2>3, <2>4, <2>6, <3>1, HeldEarlier
    <3>3. task[n] # 0
      BY <3>1, <3>2 DEF Held, IndInv, Assigned
    <3> QED
      BY <3>1, <3>2, <3>3
  <2>7. ASSUME OneNameEach, NEW m \in Names, NEW n \in Names,
               Held(m, pc'), Held(n, pc'), task'[m] = task'[n]
        PROVE  m = n
    <3>1. CASE m # d /\ n # d
      BY <1>2, <2>5, <2>6, <2>7, <3>1 DEF StartInv, OneHolder
    <3>2. CASE m = d \/ n = d
      BY <2>2, <2>5, <2>6, <2>7, <3>2
    <3> QED
      BY <3>1, <3>2
  <2>8. ASSUME OneNameEach, NEW n \in Names, Held(n, pc'), task'[n] \in freed'
        PROVE  \E k \in DOMAIN text :
                 text[k].op = "free" /\ n \in AliasesAfter(text[k].task) /\ Behind(k, n, pc')
    <3>1. n # d /\ task[n] \in freed
      BY <1>4, <2>2, <2>5, <2>8
    <3>2. n # None /\ text[pc' - 1].def # n /\ Held(n, pc)
      BY <2>6, <2>8, <3>1
    <3>3. PICK k \in DOMAIN text :
            text[k].op = "free" /\ n \in AliasesAfter(text[k].task) /\ Behind(k, n, pc)
      BY <1>2, <2>8, <3>1, <3>2 DEF StartInv, FreesAreFound
    <3>4. Behind(k, n, pc')
      BY <1>2, <2>3, <2>4, <2>8, <3>2, <3>3, BehindOn
    <3> QED
      BY <3>3, <3>4
  <2>9. UNCHANGED written /\ phase' # "write"
    BY <1>4, <2>1
  <2> QED
    BY <1>2, <1>5, <2>7, <2>8, <2>9, StartKept
<1> QED
  BY <1>6, <1>7

\* A jump that would hand a task on has none to hand on, or hands it on.
LEMMA StartJumps ==
  ASSUME IndInv, StartInv, phase = "run", UNCHANGED <<written, phase, freed, strayed>>,
         pc \in DOMAIN text, text[pc].op \in {"for", "next", "else", "fi"},
         Moves(pc, pc'),
         NEW to \in {"arg", "result", "phi"}, HandOn(to, text[pc].task),
         <<text[pc].task, to>> \in Flows,
         text[pc' - 1].def \in {to, None},
         text[pc].task = None => text[pc' - 1].def = None,
         text[pc].op = "next" /\ pc' = At("for") + 1 => to = "arg"
  PROVE  StartInv'
<1>1. OneNameEach => ~strayed'
  BY DEF StartInv
<1>2. CASE text[pc].task = None
  <2>1. UNCHANGED task
    BY <1>2 DEF HandOn
  <2>2. UNCHANGED <<written, phase, task>> /\ UNCHANGED freed
    BY <2>1
  <2> QED
    BY <1>1, <1>2, <2>2, StartMoves
<1>3. CASE text[pc].task # None
  BY <1>3, StartHandsOn DEF HandsOn
<1> QED
  BY <1>2, <1>3

\* The names an operation hands its task on to.
LEMMA FlowsOf ==
  ASSUME NEW i \in DOMAIN text
  PROVE  /\ text[i].op \in {"for", "next"} =>
              /\ <<text[i].task, "arg">> \in Flows
              /\ <<text[i].task, "result">> \in Flows
         /\ text[i].op \in {"else", "fi"} => <<text[i].task, "phi">> \in Flows
  BY DEF Flows

LEMMA StartFor ==
  ASSUME IndInv, StartInv, For
  PROVE  StartInv'
<1>1. "for" \in Ops /\ Op("for")
  BY DEF Ops, For
<1>2. /\ pc \in DOMAIN text /\ pc \in 1 .. Len(text)
      /\ phase = "run" /\ open = <<>> /\ text[pc].op = "for"
  BY <1>1, AtOperation
<1>3. UNCHANGED <<written, phase, freed, strayed>> /\ TextInv
  BY DEF For, Goto, history, IndInv
<1>4. <<text[pc].task, "arg">> \in Flows /\ <<text[pc].task, "result">> \in Flows
  BY <1>2, FlowsOf
<1>5. text[pc].def \in {"arg", None} /\ (text[pc].task = None => text[pc].def = None)
  BY <1>2, <1>3 DEF TextInv, Defines
<1>6. CASE Goto(pc + 1) /\ HandOn("arg", text[pc].task)
  <2>1. pc' = pc + 1 /\ pc' - 1 = pc /\ Moves(pc, pc')
    BY <1>2, <1>6 DEF Moves, Goto
  <2> QED
    BY <1>2, <1>3, <1>4, <1>5, <1>6, <2>1, StartJumps
<1>7. CASE Goto(At("next") + 1) /\ HandOn("result", text[pc].task)
  <2>1. PICK x \in DOMAIN text : pc < x /\ text[x].op = "next" /\ At("next") = x
    BY <1>2, <1>3, Finished
  <2>2. pc' = x + 1 /\ pc' - 1 = x /\ Moves(pc, pc')
    BY <1>2, <1>3, <1>7, <2>1, TheOperation DEF Moves, Goto
  <2>3. text[x].def \in {"result", None} /\ (text[pc].task = None => text[x].def = None)
    BY <1>2, <1>3, <2>1 DEF TextInv, Defines, Carries
  <2> QED
    BY <1>2, <1>3, <1>4, <1>7, <2>2, <2>3, StartJumps
<1> QED
  BY <1>6, <1>7 DEF For

LEMMA StartNext ==
  ASSUME IndInv, StartInv, NextTripOrOut
  PROVE  StartInv'
<1>1. "next" \in Ops /\ Op("next")
  BY DEF Ops, NextTripOrOut
<1>2. /\ pc \in DOMAIN text /\ pc \in 1 .. Len(text)
      /\ phase = "run" /\ open = <<>> /\ text[pc].op = "next"
  BY <1>1, AtOperation
<1>3. UNCHANGED <<written, phase, freed, strayed>> /\ TextInv
  BY DEF NextTripOrOut, Goto, history, IndInv
<1>4. <<text[pc].task, "arg">> \in Flows /\ <<text[pc].task, "result">> \in Flows
  BY <1>2, FlowsOf
<1>5. CASE Goto(At("for") + 1) /\ HandOn("arg", text[pc].task)
  <2>1. PICK f \in DOMAIN text : f < pc /\ text[f].op = "for"
    BY <1>2, <1>3 DEF TextInv, Begun, Before
  <2>2. pc' = f + 1 /\ pc' - 1 = f /\ Moves(pc, pc')
    BY <1>2, <1>3, <1>5, <2>1, TheOperation DEF Moves, Goto
  <2>3. text[pc].task = None => text[f].task = None
    BY <1>2, <2>1 DEF StartInv, ArgumentGoesOn
  <2>4. text[f].def \in {"arg", None} /\ (text[pc].task = None => text[f].def = None)
    BY <1>3, <2>1, <2>3 DEF TextInv, Defines
  <2> QED
    BY <1>2, <1>3, <1>4, <1>5, <2>2, <2>4, StartJumps
<1>6. CASE Goto(pc + 1) /\ HandOn("result", text[pc].task)
  <2>1. pc' = pc + 1 /\ pc' - 1 = pc /\ Moves(pc, pc')
    BY <1>2, <1>6 DEF Moves, Goto
  <2>2. text[pc].def \in {"result", None} /\ (text[pc].task = None => text[pc].def = None)
    BY <1>2, <1>3 DEF TextInv, Defines
  <2>3. pc' # At("for") + 1
    <3>1. PICK f \in DOMAIN text : f < pc /\ text[f].op = "for"
      BY <1>2, <1>3 DEF TextInv, Begun, Before
    <3> QED
      BY <1>2, <1>3, <2>1, <3>1, TheOperation
  <2> QED
    BY <1>2, <1>3, <1>4, <1>6, <2>1, <2>2, <2>3, StartJumps
<1> QED
  BY <1>5, <1>6 DEF NextTripOrOut

LEMMA StartIf ==
  ASSUME IndInv, StartInv, If
  PROVE  StartInv'
<1>1. "if" \in Ops /\ Op("if")
  BY DEF Ops, If
<1>2. /\ pc \in DOMAIN text /\ pc \in 1 .. Len(text)
      /\ phase = "run" /\ open = <<>> /\ text[pc].op = "if"
  BY <1>1, AtOperation
<1>3. UNCHANGED <<written, phase, task>> /\ UNCHANGED <<freed, strayed>> /\ TextInv
  BY DEF If, Goto, history, IndInv
<1>4. Moves(pc, pc') /\ text[pc' - 1].def = None
  <2>1. CASE Goto(pc + 1)
    <3>1. pc' = pc + 1 /\ pc' - 1 = pc
      BY <1>2, <2>1 DEF Goto
    <3> QED
      BY <1>2, <1>3, <3>1 DEF Moves, TextInv, Defines
  <2>2. CASE Goto(At("else") + 1)
    <3>1. PICK e \in DOMAIN text : pc < e /\ text[e].op = "else" /\ At("else") = e
      BY <1>2, <1>3, Finished
    <3>2. pc' = e + 1 /\ pc' - 1 = e
      BY <1>3, <2>2, <3>1, TheOperation DEF Goto
    <3> QED
      BY <1>2, <1>3, <3>1, <3>2 DEF Moves, TextInv, Defines
  <2> QED
    BY <2>1, <2>2 DEF If
<1>5. OneNameEach => ~strayed'
  BY <1>3 DEF StartInv
<1> QED
  BY <1>2, <1>3, <1>4, <1>5, StartMoves

LEMMA StartEndArm ==
  ASSUME IndInv, StartInv, EndArm
  PROVE  StartInv'
<1>1. PICK op \in {"else", "fi"} : Op(op)
  BY DEF EndArm
<1>2. /\ pc \in DOMAIN text /\ pc \in 1 .. Len(text)
      /\ phase = "run" /\ open = <<>> /\ text[pc].op = op
  <2>1. op \in Ops
    BY DEF Ops
  <2> QED
    BY <1>1, <2>1, AtOperation
<1>3. /\ UNCHANGED <<written, phase, freed, strayed>> /\ TextInv
      /\ pc' = At("fi") + 1 /\ HandOn("phi", text[pc].task)
  BY DEF EndArm, Goto, history, IndInv
<1>4. <<text[pc].task, "phi">> \in Flows
  BY <1>2, FlowsOf
<1>5. PICK h \in DOMAIN text : /\ text[h].op = "fi" /\ At("fi") = h
                               /\ h = pc \/ text[pc].op = "else"
  <2>1. CASE op = "fi"
    BY <1>2, <1>3, <2>1, TheOperation
  <2>2. CASE op = "else"
    BY <1>2, <1>3, <2>2, Finished
  <2> QED
    BY <2>1, <2>2
<1>6. pc' = h + 1 /\ pc' - 1 = h
  BY <1>3, <1>5, TheOperation
<1>7. Moves(pc, pc')
  BY <1>5, <1>6 DEF Moves
<1>8. text[h].def \in {"phi", None} /\ (text[h].task = None => text[h].def = None)
  BY <1>3, <1>5 DEF TextInv, Defines
<1>9. text[pc].task = None => text[h].task = None
  <2>1. CASE h = pc
    BY <2>1
  <2>2. CASE text[pc].op = "else"
    <3>1. At("else") = pc
      BY <1>2, <1>3, <2>2, TheOperation
    <3>2. Has("if")
      BY <1>2, <1>3, <2>2 DEF TextInv, Begun, Before, Has
    <3> QED
      BY <1>2, <1>5, <3>1, <3>2 DEF IndInv, Lowered, DivergentYield
  <2> QED
    BY <1>5, <2>1, <2>2
<1>10. text[pc].op \in {"else", "fi"} /\ text[pc].op # "next"
  BY <1>2
<1> QED
  BY <1>2, <1>3, <1>4, <1>6, <1>7, <1>8, <1>9, <1>10, StartJumps

LEMMA StartEnd ==
  ASSUME StartInv, End
  PROVE  StartInv'
<1>1. UNCHANGED written /\ phase = "run" /\ phase' = "over" /\ UNCHANGED strayed
  BY DEF End, history
<1>2. OneNameEach => ~strayed'
  BY <1>1 DEF StartInv
<1> QED
  BY <1>1, <1>2, StartKept

\* When it is lowered nothing has a task yet.
LEMMA StartLower ==
  ASSUME IndInv, StartInv, Lower
  PROVE  StartInv'
<1>1. /\ UNCHANGED <<written, pc, strayed>> /\ phase = "write" /\ pc = 1
      /\ phase' # "write" /\ (phase' = "run" => Accepted)
  BY DEF Lower, history, IndInv, Lowered
<1>2. \A n : ~Held(n, pc')
  <2>1. \A j \in DOMAIN text : ~(j < 1)
    BY DEF IndInv, TextInv, TextType
  <2> QED
    BY <1>1, <2>1 DEF Held, Live
<1>3. OneHolder' /\ FreesAreFound'
  BY <1>1, <1>2, SameSequence
<1>4. OneDefinition' /\ LoopInArm' /\ ArgumentGoesOn'
  BY <1>1, SameSequence DEF StartInv
<1>5. phase' = "run" => Accepted'
  BY <1>1, SameSequence
<1>6. OneNameEach' => ~strayed'
  BY <1>1, SameSequence DEF StartInv
<1> QED
  BY <1>1, <1>3, <1>4, <1>5, <1>6 DEF StartInv

-----------------------------------------------------------------------------
(* What is written keeps to the blocks and the names.                      *)

\* The operation that a step of writing adds.
Adds(o) ==
  /\ text' = Append(text, o)
  /\ o.op = "configure" =>
       /\ o.def \notin {"arg", "result", "phi"}
       /\ \A i \in DOMAIN text : text[i].def # o.def
  /\ o.op = "next" =>
       /\ open # <<>> /\ Last(open) = "loop"
       /\ text[At("for")].task # None => o.task # None
  /\ \A b \in {"then", "else"} :
       open' = <<b, "loop">> =>
         \/ o.op # "for" /\ open' = open
         \/ o.op = "for" /\ b \in ToSet(open)

LEMMA AddsUse ==
  ASSUME TextInv, WriteUse
  PROVE  \E o \in Operations : Adds(o)
<1>1. PICK op \in {"start", "free"}, n \in InScope : Write(op, n, None, open)
  BY DEF WriteUse
<1> DEFINE o == [op |-> op, task |-> n, def |-> None, in |-> open]
<1>2. o \in Operations
  BY <1>1, InScopeIsLive DEF TextInv, TextType, Operations, Ops
<1>3. text' = Append(text, o) /\ open' = open /\ o.op \in {"start", "free"}
  BY <1>1 DEF Write, WriteUse
<1> HIDE DEF o
<1> QED
  BY <1>2, <1>3 DEF Adds

LEMMA AddsConfigure ==
  ASSUME TextInv, WriteConfigure
  PROVE  \E o \in Operations : Adds(o)
<1> DEFINE def == IF open = <<>> /\ Has("for") THEN "late" ELSE Innermost
           o == [op |-> "configure", task |-> None, def |-> def, in |-> open]
<1>1. def \in Names /\ def \notin {"arg", "result", "phi"}
  <2>1. open # <<>> => Last(open) \in Blocks
    BY StackPop DEF TextInv, TextType
  <2> QED
    BY <2>1 DEF Names, Innermost, Blocks
<1>2. o \in Operations
  BY <1>1 DEF TextInv, TextType, Operations, Ops
<1>3. /\ text' = Append(text, o) /\ open' = open /\ \A i \in DOMAIN text : text[i].def # def
  BY DEF Write, WriteConfigure
<1>4. o.op = "configure" /\ o.def = def
  OBVIOUS
<1> HIDE DEF o, def
<1> QED
  BY <1>1, <1>2, <1>3, <1>4 DEF Adds

LEMMA AddsFor ==
  ASSUME TextInv, WriteFor
  PROVE  \E o \in Operations : Adds(o)
<1>1. PICK n \in InScope \cup {None} :
        Write("for", n, IF n = None THEN None ELSE "arg", open)
  BY DEF WriteFor
<1> DEFINE o == [op |-> "for", task |-> n, def |-> IF n = None THEN None ELSE "arg",
                 in |-> open]
<1>2. o \in Operations
  BY <1>1, InScopeIsLive DEF TextInv, TextType, Operations, Ops, Names
<1>3. text' = Append(text, o) /\ open' = Append(open, "loop") /\ ~Has("for") /\ o.op = "for"
  BY <1>1 DEF Write, WriteFor
<1> HIDE DEF o
<1>4. ToSet(open') = ToSet(open) \cup {"loop"}
  BY <1>3, OpenMeans, StackPush DEF TextInv, TextType, Blocks
<1>5. \A b \in {"then", "else"} : open' = <<b, "loop">> => b \in ToSet(open)
  <2>1. \A b \in {"then", "else"} : b \in ToSet(<<b, "loop">>)
    BY StackSets
  <2> QED
    BY <1>4, <2>1
<1> QED
  BY <1>2, <1>3, <1>5 DEF Adds

LEMMA AddsNext ==
  ASSUME TextInv, WriteNext
  PROVE  \E o \in Operations : Adds(o)
<1>1. /\ open' = Front(open) /\ open' \in Stacks /\ open # <<>> /\ Last(open) = "loop"
      /\ ToSet(open') = ToSet(open) \ {"loop"}
  BY InnermostIs DEF WriteNext, Blocks
<1>2. PICK o \in Operations :
        /\ text' = Append(text, o) /\ o.op = "next"
        /\ text[At("for")].task # None => o.task # None
  <2>1. CASE text[At("for")].task = None
    <3> DEFINE o == [op |-> "next", task |-> None, def |-> None, in |-> open']
    <3>1. text' = Append(text, o)
      BY <2>1 DEF WriteNext, Write
    <3>2. o \in Operations
      BY <1>1 DEF Operations, Ops
    <3> QED
      BY <2>1, <3>1, <3>2
  <2>2. CASE text[At("for")].task # None
    <3>1. PICK n \in InScope : Write("next", n, "result", open')
      BY <2>2 DEF WriteNext
    <3> DEFINE o == [op |-> "next", task |-> n, def |-> "result", in |-> open']
    <3>2. n \in Names /\ n # None
      BY InScopeIsLive
    <3>3. text' = Append(text, o)
      BY <3>1 DEF Write
    <3>4. o \in Operations
      BY <1>1, <3>2 DEF Operations, Ops, Names
    <3> QED
      BY <3>2, <3>3, <3>4
  <2> QED
    BY <2>1, <2>2
<1>3. \A b \in {"then", "else"} : open' # <<b, "loop">>
  BY <1>1, StackSets
<1> QED
  BY <1>1, <1>2, <1>3 DEF Adds

LEMMA AddsIf ==
  ASSUME TextInv, WriteIf
  PROVE  \E o \in Operations : Adds(o)
<1> DEFINE o == [op |-> "if", task |-> None, def |-> None, in |-> open]
<1>1. o \in Operations
  BY DEF TextInv, TextType, Operations, Ops
<1>2. text' = Append(text, o) /\ open' = Append(open, "then") /\ o.op = "if"
  BY DEF Write, WriteIf
<1> HIDE DEF o
<1>3. \A b : open' # <<b, "loop">>
  <2>1. open \in Seq(Blocks)
    BY StacksAreSequences DEF TextInv, TextType
  <2>2. open'[Len(open')] = "then"
    BY <1>2, <2>1
  <2> QED
    BY <2>2
<1> QED
  BY <1>1, <1>2, <1>3 DEF Adds

LEMMA AddsElse ==
  ASSUME TextInv, WriteElse
  PROVE  \E o \in Operations : Adds(o)
<1>1. PICK n \in InScope \cup {None} : Write("else", n, None, Front(open))
  BY DEF WriteElse
<1> DEFINE o == [op |-> "else", task |-> n, def |-> None, in |-> Front(open)]
<1>2. Front(open) \in Stacks
  BY InnermostIs DEF WriteElse, Blocks
<1>3. o \in Operations
  BY <1>1, <1>2, InScopeIsLive DEF Operations, Ops
<1>4. text' = Append(text, o) /\ open' = Append(Front(open), "else") /\ o.op = "else"
  BY <1>1 DEF Write, WriteElse
<1> HIDE DEF o
<1>5. \A b : open' # <<b, "loop">>
  <2>1. Front(open) \in Seq(Blocks)
    BY <1>2, StacksAreSequences
  <2>2. open'[Len(open')] = "else"
    BY <1>4, <2>1
  <2> QED
    BY <2>2
<1> QED
  BY <1>3, <1>4, <1>5 DEF Adds

LEMMA AddsFi ==
  ASSUME TextInv, WriteFi
  PROVE  \E o \in Operations : Adds(o)
<1>1. PICK n \in InScope \cup {None} :
        Write("fi", n, IF n = None THEN None ELSE "phi", open')
  BY DEF WriteFi
<1> DEFINE o == [op |-> "fi", task |-> n, def |-> IF n = None THEN None ELSE "phi",
                 in |-> open']
<1>2. open' \in Stacks /\ "then" \notin ToSet(open') /\ "else" \notin ToSet(open')
  BY InnermostIs DEF WriteFi, Blocks
<1>3. o \in Operations
  BY <1>1, <1>2, InScopeIsLive DEF Operations, Ops, Names
<1>4. text' = Append(text, o) /\ o.op = "fi"
  BY <1>1 DEF Write
<1> HIDE DEF o
<1>5. \A b \in {"then", "else"} : open' # <<b, "loop">>
  BY <1>2, StackSets
<1> QED
  BY <1>3, <1>4, <1>5 DEF Adds

LEMMA LoopOnTop ==
  ASSUME TextInv, open # <<>>, Last(open) = "loop",
         NEW b \in {"then", "else"}, b \in ToSet(open)
  PROVE  open = <<b, "loop">>
<1>1. open \in Stacks
  BY DEF TextInv, TextType
<1>2. open # <<"loop">>
  BY StackSets
<1>3. /\ Last(<<"then">>) = "then" /\ Last(<<"else">>) = "else"
      /\ Last(<<"loop", "then">>) = "then" /\ Last(<<"loop", "else">>) = "else"
  BY DEF Last
<1>4. open = <<"then", "loop">> \/ open = <<"else", "loop">>
  BY <1>1, <1>2, <1>3 DEF Stacks
<1> QED
  BY <1>4, StackSets

LEMMA StartWrites ==
  ASSUME IndInv, StartInv, Writes
  PROVE  StartInv'
<1> DEFINE m == Len(text) + 1
<1>1. TextInv /\ TextInv' /\ TextType /\ UNCHANGED <<phase, strayed>> /\ phase = "write"
  BY TextWrites DEF IndInv, TextInv, Writes, history
<1>2. PICK o \in Operations : Adds(o)
  BY <1>1, AddsUse, AddsConfigure, AddsFor, AddsNext, AddsIf, AddsElse, AddsFi DEF Writes
<1>3. text' = Append(text, o)
  BY <1>2 DEF Adds
<1>4. /\ m \in Nat /\ DOMAIN text = 1 .. Len(text) /\ m \in 1 .. m
      /\ \A i \in DOMAIN text : i \in 1 .. m /\ i < m
  BY <1>1, <1>3, Appended
<1>5. /\ \A i \in DOMAIN text : text'[i] = text[i] /\ i \in DOMAIN text'
      /\ text'[m] = o /\ m \in DOMAIN text'
      /\ \A i \in DOMAIN text' : i \in DOMAIN text \/ i = m
  BY <1>1, <1>3, Appended
<1>6. \A b \in Blocks, p \in 1 .. m : Inside(b, p)' <=> Inside(b, p)
  BY <1>1, <1>3, InsideAppended
<1>7. \A b \in Blocks : b \in ToSet(open) <=> Inside(b, m)
  BY <1>1 DEF TextInv, OpenBlocks, Blocks
<1>8. ASSUME NEW f \in DOMAIN text', NEW x \in DOMAIN text',
             text'[f].op = "for", text'[x].op = "next"
      PROVE  f \in DOMAIN text
  <2>1. PICK k \in DOMAIN text' : k < x /\ text'[k].op = "for"
    BY <1>1, <1>8 DEF TextInv, Begun, Before
  <2>2. k = f
    BY <1>1, <1>8, <2>1 DEF TextInv, Once
  <2> QED
    BY <1>4, <1>5, <2>1, <2>2
<1> HIDE DEF m
<1>9. OneDefinition'
  <2>1. \A i \in DOMAIN text' :
          text'[i].op = "configure" => text'[i].def \notin {"arg", "result", "phi"}
    BY <1>2, <1>5 DEF StartInv, OneDefinition, Adds
  <2>2. ASSUME NEW i \in DOMAIN text, text[i].def # None, text[i].def = o.def
        PROVE  FALSE
    <3>1. o.op # "configure"
      BY <1>2, <2>2 DEF Adds
    <3>2. \/ o.op = "for" /\ o.def = "arg"
          \/ o.op = "next" /\ o.def = "result"
          \/ o.op = "fi" /\ o.def = "phi"
      BY <1>1, <1>5, <2>2, <3>1 DEF TextInv, Defines
    <3>3. text[i].op # "configure"
      BY <2>2, <3>2 DEF StartInv, OneDefinition
    <3>4. text[i].op = o.op
      BY <1>1, <2>2, <3>2, <3>3 DEF TextInv, Defines
    <3>5. i = m
      BY <1>1, <1>5, <3>2, <3>4 DEF TextInv, Once
    <3> QED
      BY <1>4, <3>5
  <2>3. ASSUME NEW i \in DOMAIN text', NEW j \in DOMAIN text',
               text'[i].def # None, text'[i].def = text'[j].def
        PROVE  i = j
    <3>1. CASE i \in DOMAIN text /\ j \in DOMAIN text
      BY <1>5, <2>3, <3>1 DEF StartInv, OneDefinition
    <3>2. CASE i = m /\ j \in DOMAIN text
      BY <1>5, <2>2, <2>3, <3>2
    <3>3. CASE i \in DOMAIN text /\ j = m
      BY <1>5, <2>2, <2>3, <3>3
    <3> QED
      BY <1>5, <3>1, <3>2, <3>3
  <2> QED
    BY <2>1, <2>3 DEF OneDefinition
<1>10. LoopInArm'
  <2>1. ASSUME NEW f \in DOMAIN text', NEW b \in {"then", "else"}, text'[f].op = "for",
               NEW x \in DOMAIN text', text'[x].op = "next", Inside(b, x)'
        PROVE  Inside(b, f)'
    <3>1. f \in DOMAIN text /\ text[f].op = "for" /\ b \in Blocks
      BY <1>5, <1>8, <2>1 DEF Blocks
    <3>2. Inside(b, x)
      BY <1>4, <1>5, <1>6, <2>1, <3>1
    <3>3. CASE x \in DOMAIN text
      <4>1. Inside(b, f)
        BY <1>5, <2>1, <3>1, <3>2, <3>3 DEF StartInv, LoopInArm
      <4> QED
        BY <1>4, <1>6, <3>1, <4>1
    <3>4. CASE x = m
      <4>1. open # <<>> /\ Last(open) = "loop" /\ b \in ToSet(open)
        BY <1>2, <1>5, <1>7, <2>1, <3>1, <3>2, <3>4 DEF Adds
      <4>2. open = <<b, "loop">>
        BY <1>1, <4>1, LoopOnTop
      <4>3. Inside(b, f)
        BY <3>1, <4>2 DEF StartInv, LoopInArm
      <4> QED
        BY <1>4, <1>6, <3>1, <4>3
    <3> QED
      BY <1>5, <3>3, <3>4
  <2>2. ASSUME NEW f \in DOMAIN text', NEW b \in {"then", "else"}, text'[f].op = "for",
               open' = <<b, "loop">>
        PROVE  Inside(b, f)'
    <3>1. b \in Blocks
      BY DEF Blocks
    <3>2. CASE o.op # "for" /\ open' = open
      <4>1. f \in DOMAIN text /\ text[f].op = "for"
        BY <1>5, <2>2, <3>2
      <4>2. Inside(b, f)
        BY <2>2, <3>2, <4>1 DEF StartInv, LoopInArm
      <4> QED
        BY <1>4, <1>6, <3>1, <4>1, <4>2
    <3>3. CASE o.op = "for" /\ b \in ToSet(open)
      <4>1. f = m
        BY <1>1, <1>5, <2>2, <3>3 DEF TextInv, Once
      <4>2. Inside(b, m)
        BY <1>7, <3>1, <3>3
      <4> QED
        BY <1>4, <1>6, <3>1, <4>1, <4>2
    <3> QED
      BY <1>2, <2>2, <3>2, <3>3 DEF Adds
  <2> QED
    BY <2>1, <2>2 DEF LoopInArm
<1>11. ArgumentGoesOn'
  <2>1. ASSUME NEW f \in DOMAIN text', NEW x \in DOMAIN text',
               text'[f].op = "for", text'[x].op = "next", text'[f].task # None
        PROVE  text'[x].task # None
    <3>1. f \in DOMAIN text /\ text'[f] = text[f]
      BY <1>5, <1>8, <2>1
    <3>2. CASE x \in DOMAIN text
      BY <1>5, <2>1, <3>1, <3>2 DEF StartInv, ArgumentGoesOn
    <3>3. CASE x = m
      <4>1. At("for") = f
        BY <1>1, <2>1, <3>1, TheOperation
      <4> QED
        BY <1>2, <1>5, <2>1, <3>1, <3>3, <4>1 DEF Adds
    <3> QED
      BY <1>5, <3>2, <3>3
  <2> QED
    BY <2>1 DEF ArgumentGoesOn
<1> QED
  BY <1>1, <1>9, <1>10, <1>11 DEF StartInv

LEMMA StartInit == Init => StartInv
  BY DEF Init, StartInv, OneDefinition, LoopInArm, ArgumentGoesOn

\* Whatever sequence is written, a freed task that a name still to be used
\* stands for was freed where verifyNoStartAfterFree finds it.
THEOREM StartInvariance == Spec => []StartInv
<1>1. IndInv /\ StartInv /\ [Next]_vars => StartInv'
  <2> SUFFICES ASSUME IndInv, StartInv, [Next]_vars  PROVE StartInv'
    OBVIOUS
  <2>1. CASE UNCHANGED vars
    <3>1. UNCHANGED written /\ UNCHANGED <<phase, pc, task, freed, strayed>>
      BY <2>1 DEF vars, history
    <3>2. (OneHolder' <=> OneHolder) /\ (FreesAreFound' <=> FreesAreFound)
      BY <3>1, SameSequence DEF OneHolder, FreesAreFound
    <3> QED
      BY <3>1, <3>2, SameSequence DEF StartInv
  <2> QED
    BY <2>1, StartWrites, StartLower, StartConfigure, StartStart, StartFree, StartFor,
       StartNext, StartIf, StartEndArm, StartEnd
    DEF Next
<1> QED
  BY <1>1, Invariance, StartInit, PTL DEF Spec

\* In every sequence that the pass accepts, whose tasks go by one name each,
\* every start finds the id its task was given, still its own.
THEOREM StartsOwn == Spec => []StartsOwnIds
<1>1. StartInv => StartsOwnIds
  BY DEF StartInv, StartsOwnIds
<1> QED
  BY <1>1, StartInvariance, PTL
=============================================================================
