------------------------------ MODULE MCImport ------------------------------
(* Model checking of Import: a few scenarios of two databases at most. *)
EXTENDS Import, TLC

MCDrives == <<"u", "v">>
Paths == {"a", "A", "b", "c", "n", "n/g"}
MCKey == [p \in Paths |-> IF p = "A" THEN "a" ELSE p]
MCFolderOf == [p \in Paths |-> IF p \in {"n", "n/g"} THEN "n" ELSE "none"]
MCCores == {"a", "A"}

Entry(hash) == [hash |-> hash, zip |-> "none", pext |-> FALSE, tags |-> {},
                overwrite |-> TRUE, tangle |-> {}]
Zipped(entry, z, tags) == [entry EXCEPT !.zip = z, !.tags = tags]
Pext(entry) == [entry EXCEPT !.pext = TRUE]
Tangled(entry) == [entry EXCEPT !.tangle = {"t"}]
Edition(hash, items, zips) == [hash |-> hash, items |-> items, zips |-> zips]
Archive(hash, items) == [hash |-> hash, items |-> items]

Empty == [place \in {"base", "u", "v"} |-> NoMap]
Roomy == [place \in {} |-> 0]
Options(filters, checkings, priorities, deletes) ==
  [filter : filters, checking : checkings, priority : priorities, delete : deletes]
Plain == Options({NotGiven}, {"balanced"}, {"off"}, {"all"})

\* Two databases with the same file, which one of them drops.
Shared ==
  [editions |-> [d1 |-> <<Edition("1", "a" :> Entry("x"), NoMap),
                          Edition("2", "b" :> Entry("y"), NoMap)>>,
                 d2 |-> <<Edition("1", "a" :> Entry("x"), NoMap)>>],
   disk |-> Empty, plugged |-> {{}}, options |-> Plain, room |-> Roomy,
   inis |-> {{"d1", "d2"}, {"d1"}}]

\* The same, with names that differ in case and contents that differ.
Cased ==
  [editions |-> [d1 |-> <<Edition("1", "a" :> Entry("x"), NoMap),
                          Edition("2", "A" :> Entry("y"), NoMap)>>,
                 d2 |-> <<Edition("1", "A" :> Entry("y"), NoMap)>>],
   disk |-> Empty, plugged |-> {{}},
   options |-> Options({NotGiven}, {"balanced", "verify"}, {"off"}, {"all"}), room |-> Roomy,
   inis |-> {{"d1", "d2"}, {"d1"}}]

\* An archive of two files with different tags, a new edition of it, and a filter.
Zip ==
  [editions |-> [d1 |-> <<
     Edition("1", "c" :> Entry("z"),
       "k" :> Archive("s1", ("a" :> Zipped(Entry("x"), "k", {"p"})) @@ ("b" :> Zipped(Entry("y"), "k", {"q"})))),
     Edition("2", NoMap,
       "k" :> Archive("s2", ("a" :> Zipped(Entry("w"), "k", {"p"})) @@ ("b" :> Zipped(Entry("y"), "k", {"q"})))),
     Edition("3", "b" :> Entry("v"), NoMap)>>],
   disk |-> Empty, plugged |-> {{}}, room |-> Roomy,
   options |-> Options({NotGiven, {Neg("q")}}, {"balanced"}, {"off"}, {"all"}),
   inis |-> {{"d1"}}]

\* A folder and a file of it that go to the drive when it is there, a file the user
\* made, and one of the database that must not be written over.
Drive ==
  [editions |-> [d1 |-> <<
     Edition("1", ("n" :> Pext(Entry("dir"))) @@ ("n/g" :> Pext(Entry("x")))
                    @@ ("c" :> [Entry("z") EXCEPT !.overwrite = FALSE]), NoMap),
     Edition("2", NoMap, NoMap)>>],
   disk |-> [base |-> "c" :> "user", u |-> "n" :> "dir", v |-> NoMap],
   plugged |-> {{}, {"v"}, {"u", "v"}}, room |-> [base |-> 4, u |-> 2, v |-> 2],
   options |-> Options({NotGiven}, {"balanced", "fastest"}, {"prefer_external"}, {"all"}),
   inis |-> {{"d1"}}]

\* A core that is replaced by two files that go together, with a partition that
\* may be full, and an option of what may be deleted.
Tangle ==
  [editions |-> [d1 |-> <<Edition("1", "a" :> Tangled(Entry("x")), NoMap),
                          Edition("2", ("b" :> Tangled(Entry("y"))) @@ ("c" :> Tangled(Entry("z"))), NoMap)>>,
                 d2 |-> <<Edition("1", "c" :> Entry("z"), NoMap)>>],
   disk |-> Empty, plugged |-> {{}}, room |-> [base |-> 3],
   options |-> Options({NotGiven}, {"balanced"}, {"off"}, {"all", "old_rbf"}),
   inis |-> {{"d1", "d2"}}]

\* The same on a partition where two files are one too many.
Tight == [Tangle EXCEPT !.room = "base" :> 2, !.inis = {{"d1", "d2"}}]

\* Two spellings of a file in two databases, of which one ties it to its successor.
Spelled ==
  [editions |-> [d1 |-> <<Edition("1", "a" :> Tangled(Entry("x")), NoMap),
                          Edition("2", "c" :> Tangled(Entry("z")), NoMap)>>,
                 d2 |-> <<Edition("1", "A" :> Entry("x"), NoMap), Edition("2", NoMap, NoMap)>>],
   disk |-> Empty, plugged |-> {{}}, options |-> Plain, room |-> Roomy,
   inis |-> {{"d1", "d2"}}]

\* A file that moves into an archive of its database, and into one of another.
Moved ==
  [editions |-> [d1 |-> <<
     Edition("1", "a" :> Entry("x"), NoMap),
     Edition("2", NoMap, "k" :> Archive("s1", ("a" :> Zipped(Entry("x"), "k", {})) @@ ("n" :> Zipped(Entry("dir"), "k", {}))))>>,
                 d2 |-> <<Edition("1", NoMap, "m" :> Archive("s1", "a" :> Zipped(Entry("x"), "m", {})))>>],
   disk |-> Empty, plugged |-> {{}}, options |-> Plain, room |-> Roomy,
   inis |-> {{"d1"}, {"d1", "d2"}}]

\* A file that changes its spelling and its content, tied to one that may fail.
Renamed ==
  [editions |-> [d1 |-> <<Edition("1", "a" :> Tangled(Entry("x")), NoMap),
                          Edition("2", ("A" :> Tangled(Entry("y"))) @@ ("c" :> Tangled(Entry("z"))), NoMap)>>],
   disk |-> Empty, plugged |-> {{}}, options |-> Plain, room |-> Roomy, inis |-> {{"d1"}}]

MCWorlds == {Shared, Cased, Zip, Drive, Tangle, Tight, Spelled, Renamed, Moved}

=============================================================================
