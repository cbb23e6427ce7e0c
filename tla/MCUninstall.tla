----------------------------- MODULE MCUninstall -----------------------------
(* Model checking of Uninstall and StoreFiles: the distribution and another *)
(* database, which share a file, two drives and one drop-in file.           *)
EXTENDS Uninstall

MCDbs == {"dist", "other"}
MCDrives == <<"u", "v">>
MCOuter == {"x", "y"}
MCEditions == [dist |-> <<{"a", "x"}, {"x"}>>, other |-> <<{"a", "y"}>>]
Both == "ini" :> <<"dist", "other">> @@ "drop" :> <<"other">>
Twice == "ini" :> <<"other", "other">> @@ "drop" :> <<"other">>
Bare == "ini" :> <<>> @@ "drop" :> <<"other">>
MCInis == {Both, Twice, Bare}
MCDropIns == <<"drop">>
=============================================================================
