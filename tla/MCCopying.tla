---------------------------- MODULE MCCopying ----------------------------
(* A directory o with files, an unreadable one and a subdirectory, copied to a
   directory p that is missing, empty, or has an older copy; there are up to two
   changes meanwhile, of one entry or of two, and one write may fail. *)
EXTENDS Copying

All == {"owner", "group"}

\* The working directory is inode 1, o is inode 2 and p is inode 3, if it exists.
Tree(files, p) ==
    [i \in 1..6 |->
        CASE i = 1 -> Dir(IF p = "none" THEN [o |-> 2] ELSE [o |-> 2, p |-> 3])
          [] i = 2 -> Dir(IF files = "one" THEN [a |-> 4]
                        ELSE IF files = "two" THEN [a |-> 4, b |-> 5] ELSE [a |-> 4, d |-> 5])
          [] i = 3 -> IF p = "none" THEN Free
                      ELSE Dir(IF p = "empty" THEN <<>> ELSE IF p = "file" THEN [a |-> 6] ELSE [o |-> 6])
          [] i = 4 -> File(All, <<"1", "2">>)
          [] i = 5 -> IF files = "one" THEN Free
                      ELSE IF files = "two" THEN File({}, <<"3">>) ELSE Dir(<<>>)
          [] i = 6 -> IF p = "file" THEN File(All, <<"6", "7", "8">>)
                      ELSE IF p = "dir" THEN Dir(<<>>) ELSE Free]

Trees(ps) ==
    UNION {{[Tree(f, p) EXCEPT ![5].mode = m] :
               m \in IF f = "two" THEN {{}, {"group"}, All} ELSE {Tree(f, p)[5].mode}} :
           f \in {"one", "two", "sub"}, p \in ps}

Start(program, tree, src, dst, meddles) ==
    [program |-> program, tree |-> tree, src |-> src, dst |-> dst, meddles |-> meddles, faults |-> 1]

\* A subdirectory with a file b in it.
Deep(tree) == [tree EXCEPT ![5] = Dir([b |-> 7])] @@ (7 :> File(All, <<"4">>))

AllStarts ==
    {Start("cp1", t, <<"o", "a">>, <<"p", "a">>, 0) : t \in Trees({"none", "empty", "file"})}
    \cup {Start(g, t, <<"o">>, <<"p">>, 2) : t \in Trees({"empty"}), g \in {"hw2_2018110124", "hw2_tutor"}}
    \cup {Start(g, t, <<"o">>, <<"p">>, 1) : t \in Trees({"none", "file", "dir"}),
             g \in {"hw2_2017114553", "hw2_tutor", "cp_mid_KS"}}
    \cup {Start(g, Tree(f, "empty"), src, <<>>, 1) : f \in {"two", "sub"}, g \in {"hw2_2018110124", "hw2_tutor"},
             src \in {<<"o">>, <<"q">>}}
    \cup {Start("cp_mid_KS", Deep(Tree("sub", p)), <<"o">>, <<"p">>, 1) : p \in {"none", "dir"}}
=============================================================================
