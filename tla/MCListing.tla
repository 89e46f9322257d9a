---------------------------- MODULE MCListing ----------------------------
(* A root with a directory and three files, in the directory another and a file, with
   numbers of one file system in several orders, and mounts whose root has a number of
   its own, or one that another directory has too.  And two branches of the same names,
   whose directories can take each other's place. *)
EXTENDS Listing

Tree     == [up |-> <<1, 1, 2, 1, 1, 1, 2>>, dirs |-> 1..3, name |-> <<"", "a", "a", "b", "c", "d", "b">>]
Branches == [up |-> <<1, 1, 2, 1, 4>>, dirs |-> 1..5, name |-> <<"", "a", "a", "b", "a">>]

Numbers == {<<1, 2, 3, 4, 5, 6, 7>>, <<7, 4, 6, 3, 2, 1, 5>>, <<2, 5, 1, 7, 4, 6, 3>>}

Start(program, tree, cwd, ino, dino) ==
    [program |-> program, cwd |-> cwd, up |-> tree.up, dirs |-> tree.dirs, name |-> tree.name,
     ino |-> ino, dino |-> dino]

Programs == {"spwd", "hw3_2018110124", "hw3_2017114553", "hw3_tutor"}

\* A file system is mounted on the directory d; its root has the number n.
Mounted(numbers, d, n) == [numbers EXCEPT ![d] = n]

AllStarts ==
    {Start(p, Tree, d, ns, ns) : p \in Programs, d \in 1..3, ns \in Numbers}
    \cup {Start(p, Tree, d, Mounted(<<1, 2, 3, 4, 5, 6, 7>>, m, n), <<1, 2, 3, 4, 5, 6, 7>>) :
              p \in Programs, d \in 2..3, m \in 2..3, n \in {1, 4, 8}}
    \cup {Start(p, Branches, d, <<1, 2, 3, 4, 5>>, <<1, 2, 3, 4, 5>>) : p \in Programs, d \in {3, 5}}
=============================================================================
