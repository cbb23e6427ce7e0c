------------------------------ MODULE DbConfig ------------------------------
(***************************************************************************)
(* Which databases are configured: how the base ini and the drop-in files  *)
(* are read (config_reader.py), and how the sections of a database are     *)
(* removed from them (database_config_remover.py, ini_section_remover.py). *)
(*                                                                         *)
(* An ini is a function from each file to the sequence of the sections in  *)
(* it; a drop-in file that is not there has none.  The [MiSTer] section is *)
(* left out.                                                               *)
(***************************************************************************)
EXTENDS Naturals, Sequences, SequencesExt

CONSTANTS
  Base,       \* the base ini
  DropIns,    \* the drop-in files, in the order they are read
  DefaultDb   \* the database that is read when the base ini has none

ASSUME ConfigAssumption == Base \in STRING /\ DropIns \in Seq(STRING)

IniFiles == <<Base>> \o DropIns

\* _lines_without_duplicated_sections: the later ones of a section do not count.
Sections(ini, file) == ToSet(ini[file])
Repeated(ini, file) ==
  {db \in Sections(ini, file) :
     \E i, j \in DOMAIN ini[file] : i # j /\ ini[file][i] = db /\ ini[file][j] = db}

\* database_sources: the first file with a section of the database.
Sourced(ini) == UNION {Sections(ini, f) : f \in ToSet(IniFiles)}
SourceOf(ini, db) ==
  IniFiles[CHOOSE i \in DOMAIN IniFiles :
             /\ db \in Sections(ini, IniFiles[i])
             /\ \A j \in 1..i-1 : db \notin Sections(ini, IniFiles[j])]

\* read_rest_env_and_config_file: the databases of a run.
Configured(ini) ==
  Sourced(ini) \cup (IF ini[Base] = <<>> /\ DefaultDb \notin Sourced(ini) THEN {DefaultDb} ELSE {})

\* ignored_databases: the files with a section of the database that did not count.
IgnoredIn(ini, db) ==
  {f \in ToSet(IniFiles) : \/ db \in Repeated(ini, f)
                           \/ db \in Sections(ini, f) /\ f # SourceOf(ini, db)}

\* _source_files.
SourceFiles(ini, db) ==
  IF db \in Sourced(ini) THEN {SourceOf(ini, db)} \cup IgnoredIn(ini, db) ELSE {}

\* remove_ini_section: the first section of the database, to where the next starts.
WithoutSection(sections, db) ==
  IF db \in ToSet(sections) THEN RemoveFirst(sections, db) ELSE sections

\* Faulty variant: only the file that the database was read from is cleaned.
RemovedFromSource(ini, read, db, failing) ==
  [f \in DOMAIN ini |-> IF f \in SourceFiles(read, db) \ (failing \cup IgnoredIn(read, db))
                        THEN WithoutSection(ini[f], db) ELSE ini[f]]

\* DatabaseConfigRemover.remove: the files 'failing' cannot be written.  What was
\* read at the start tells where the sections are, and the files what is in them.
RemovedFrom(ini, read, db, failing) ==
  [f \in DOMAIN ini |-> IF f \in SourceFiles(read, db) \ failing
                        THEN WithoutSection(ini[f], db) ELSE ini[f]]

\* _base_ini_has_other_database.
OtherInBase(ini, read, db) ==
  \E s \in ToSet(ini[Base]) \ {db} : s \notin Configured(read) \/ SourceOf(read, s) = Base

\* reappearance_reason: the database, or another one in its stead, comes back.
Reappears(before, after, read, db, failing) ==
  LET touched == {f \in SourceFiles(read, db) : db \in ToSet(before[f])}
  IN \/ SourceFiles(read, db) = {} /\ db \in Configured(read)
     \/ /\ failing \cap touched = {} /\ Base \in touched
        /\ ~OtherInBase(after, read, db)
=============================================================================
