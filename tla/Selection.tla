----------------------------- MODULE Selection -----------------------------
(***************************************************************************)
(* Which items of a database are wanted and where they go: the filter of   *)
(* the user (db_utils.py, file_filter.py), the place of the items whose    *)
(* place is to be deduced (target_path_calculator.py).                     *)
(*                                                                         *)
(* A filter is a set of terms [neg, tag]; "all", "none", "mister" and      *)
(* "essential" are the tags with a meaning of their own.                   *)
(***************************************************************************)
EXTENDS StoreWrapper

CONSTANT FolderOf   \* path -> the second folder on the way to it, or "none"

Pos(t) == [neg |-> FALSE, tag |-> t]
Neg(t) == [neg |-> TRUE, tag |-> t]
NotGiven == {Pos("undefined")}   \* no such option

-----------------------------------------------------------------------------
(* The filter of a database *)

\* build_db_config: the section of the database in the ini wins over the global
\* filter of the user, which wins over the default of the database unless that
\* one refers to it.  NotGiven is an option that is not given.
DbFilter(user, default, section) ==
  LET own == IF section # NotGiven THEN section
             ELSE IF default # NotGiven /\ (user = NotGiven \/ Pos("mister") \in default)
             THEN default ELSE user
      mister == IF user = NotGiven THEN {} ELSE user
      terms == IF own = NotGiven THEN {} ELSE own
  IN IF Pos("mister") \in terms THEN (terms \ {Pos("mister")}) \cup mister ELSE terms

TagsIn(items) == UNION {items[p].tags : p \in DOMAIN items}

\* BadFileFilterPartException.
BadFilter(terms) ==
  \/ Pos("none") \in terms \/ Neg("none") \in terms
  \/ Neg("all") \in terms /\ terms # {Neg("all")}

\* FilterCalculatorImpl, AlwaysFilters or none, as _create_filter_calculator makes
\* them: what no tag of the index has cannot be excluded, and what is essential is
\* added to what is asked for.
IsFiltered(terms, items, tags) ==
  LET neg == {t \in TagsIn(items) : Neg(t) \in terms}
      asked == {t.tag : t \in {u \in terms : ~u.neg}} \ {"all"}
      pos == IF Pos("all") \in terms THEN {}
             ELSE IF asked # {} /\ "essential" \notin neg THEN asked \cup {"essential"} ELSE asked
  IN \/ terms = {Neg("all")}
     \/ pos # {} /\ pos \cap tags = {}
     \/ neg \cap tags # {}

\* select_filtered_files: a folder stays when a wanted folder is in it.
FilteredPaths(terms, items) ==
  LET out == {p \in DOMAIN items : IsFiltered(terms, items, items[p].tags)}
  IN {p \in out : IsDir(items[p]) =>
        ~\E q \in DOMAIN items \ out : IsDir(items[q]) /\ q # p /\ FolderOf[q] = p}

-----------------------------------------------------------------------------
(* The place of an item *)

\* connected_drives_except_base_path_drives.
Connected(plugged) == plugged \cap DriveSet

\* _search_drive_for_directory: a drive where the second folder is; else, when it
\* is preferred, the first drive there is; else the base.
SearchDrive(priority, plugged, hasFolder) ==
  LET usable == Connected(plugged)
      withDir == usable \cap hasFolder
  IN IF priority = "off" \/ usable = {} THEN "base"
     ELSE IF withDir # {} THEN FirstOf(withDir)
     ELSE IF priority = "prefer_external" THEN FirstOf(usable) ELSE "base"

\* create_path_packages.
PlaceOf(p, entry, priority, plugged, hasFolder) ==
  IF entry.pext /\ FolderOf[p] # "none"
  THEN SearchDrive(priority, plugged, hasFolder[IF IsDir(entry) THEN p ELSE FolderOf[p]])
  ELSE "base"
=============================================================================
