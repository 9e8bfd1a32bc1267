------------------------------- MODULE MCScanner -------------------------------
(* Instances of Scanner for TLC. *)
EXTENDS Scanner

\* R is the root, with directories A and B, A being a bind mount in which the
\* root appears again, T a virtual filesystem, f and g hard-linked files, s a
\* symlink, p a pipe.
MCNodes == {"R", "A", "B", "T", "f", "g", "s", "p"}
Node(kind, size, blocks, linked, device) ==
  [kind |-> kind, size |-> size, blocks |-> blocks, linked |-> linked, device |-> device]
MCAttr ==
  [n \in MCNodes |->
     CASE n \in {"R", "A", "B"} -> Node("dir", 1, 1, TRUE, 1)
       [] n = "T" -> Node("dir", 1, 1, TRUE, 2)
       [] n = "f" -> Node("regular", 3, 2, TRUE, 1)
       [] n = "g" -> Node("regular", 5, 4, TRUE, 1)
       [] n = "s" -> Node("symlink", 1, 0, FALSE, 1)
       [] OTHER   -> Node("special", 1, 1, FALSE, 1)]

MCNames == <<"a", "b", "c">>
MCLookup ==
  [d \in MCNodes |->
     CASE d = "R" -> [x \in {"a", "b", "c"} |->
                        CASE x = "a" -> {"A"} [] x = "b" -> {"B", "f"} [] OTHER -> {"f", "T"}]
       [] d = "A" -> [x \in {"a", "b"} |-> IF x = "a" THEN {"R", "B"} ELSE {"f", "g"}]
       [] d = "B" -> [x \in {"a"} |-> {"g", "s", "p"}]
       [] OTHER   -> [x \in {} |-> {}]]

MCSwaps == [d \in MCNodes |-> IF d = "B" THEN {"A"} ELSE {}]

Mount(id, point, source, type) ==
  [id |-> id, point |-> point, source |-> source, type |-> type]
MCMounts == <<Mount(1, <<>>, "sda", "ext4"), Mount(2, <<"a">>, "sda", "ext4"),
              Mount(3, <<"c">>, "anon", "tmpfs")>>

Policy(included, oneFs) ==
  [included |-> included, skipped |-> {}, skipOverlay |-> TRUE, skipNamespace |-> TRUE,
   oneFilesystem |-> oneFs]
MCSetups ==
  {[excluded |-> {}, never |-> {}, noise |-> {}, fanOut |-> 2, cap |-> 9,
    policy |-> Policy({}, TRUE)],
   [excluded |-> {<<"b">>}, never |-> {}, noise |-> {"a"}, fanOut |-> 9, cap |-> 1,
    policy |-> Policy({"tmpfs"}, FALSE)],
   [excluded |-> {<<"b">>, <<"c">>}, never |-> {}, noise |-> {"r"}, fanOut |-> 9, cap |-> 9,
    policy |-> Policy({}, FALSE)],
   [excluded |-> {}, never |-> {<<"a", "a">>}, noise |-> {"a", "b"}, fanOut |-> 2, cap |-> 1,
    policy |-> Policy({}, FALSE)]}
================================================================================
