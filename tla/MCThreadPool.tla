---------------------------- MODULE MCThreadPool ----------------------------
(* Small pools for TLC. *)
EXTENDS ThreadPool, TLC

CONSTANTS w1, w2, client1, client2, outer, other, left, right

\* An outer call of two tasks, each of which makes a nested call.
NestedCount == [c \in {outer, left, right} |-> IF c = right THEN 1 ELSE 2]
NestedMayCall ==
  [c \in {outer, left, right} |->
     CASE c = outer -> {client1}
       [] c = left  -> {<<outer, 0>>}
       [] c = right -> {<<outer, 1>>}]
NestedMayThrow == {<<outer, 1>>, <<left, 0>>}

\* Two clients with a call each, and nested calls any task may make, its own
\* nested calls' tasks included; one of them is empty.
SharedCount == [c \in {outer, other, left, right} |->
                  CASE c = right -> 0 [] c = left -> 2 [] OTHER -> 1]
SharedMayCall ==
  [c \in {outer, other, left, right} |->
     CASE c = outer -> {client1}
       [] c = other -> {client2, <<left, 0>>}
       [] c = left  -> {<<outer, 0>>, <<other, 0>>}
       [] c = right -> {client2, <<left, 1>>}]
SharedMayThrow == {<<other, 0>>}

=============================================================================
