------------------------ MODULE MCRuntimeQueueGuard ------------------------
(* Instances of RuntimeQueueGuard for TLC. *)
EXTENDS RuntimeQueueGuard

\* A block is a sequence whose places are told from where they are named: its
\* operations go on to the next place unless they open or close a region.
Operation(op, token, next, body) ==
  [op |-> op, token |-> token, next |-> next, body |-> body]

Simple ==
  {Operation("push", token, {1}, {}) : token \in BOOLEAN}
    \cup {Operation(op, FALSE, {1}, {}) : op \in {"await", "poll"}}

Blocks ==
  {<<>>} \cup {<<o>> : o \in Simple} \cup {<<o, p>> : o \in Simple, p \in Simple}

\* The end of a loop's body goes back to the loop.
Closed(block) ==
  [i \in DOMAIN block |->
     [block[i] EXCEPT !.next = {IF i + d > Len(block) THEN -i ELSE d : d \in @}]]

Loop(op, block) ==
  <<Operation(op, FALSE, {1, Len(block) + 1}, 1..Len(block))>> \o Closed(block)

\* The then block goes past the else block.
Conditional(then, else) ==
  <<Operation("if", FALSE, {1, Len(then) + 1}, 1..Len(then) + Len(else))>>
    \o [i \in DOMAIN then |->
          [then[i] EXCEPT !.next =
             {IF i + d > Len(then) THEN d + Len(else) ELSE d : d \in @}]]
    \o else

\* A loop with an operation before and a conditional or a loop inside.
Nested ==
  {<<o>> \o Conditional(<<p>>, <<>>) : o \in Simple, p \in Simple}
    \cup {<<o>> \o Loop("for", <<p>>) : o \in Simple, p \in Simple}

Regions ==
  {Loop("for", block) : block \in Blocks \cup Nested}
    \cup {Loop("while", block) : block \in Blocks \cup Nested}
    \cup {Conditional(then, else) : then \in Blocks,
                                    else \in {<<>>} \cup {<<o>> : o \in Simple}}

Placed(block) ==
  [i \in DOMAIN block |->
     [block[i] EXCEPT !.next = {i + d : d \in @}, !.body = {i + d : d \in @}]]

\* Up to two operations, a region, an operation or two pushes.
AroundRegion ==
  {Placed(a \o r \o z) : a \in Blocks, r \in Regions,
     z \in {b \in Blocks : Len(b) = 2 => \A i \in 1..2 : b[i].op = "push"}}
=============================================================================
