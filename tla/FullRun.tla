------------------------------- MODULE FullRun -------------------------------
(***************************************************************************)
(* A session of the updater from start to reboot (full_run_service.py,     *)
(* certificates_fix.py, reboot_calculator.py): the databases are imported, *)
(* once more after a look at the certificates when no source could be had, *)
(* the store and the free spaces are saved, Linux is updated (LinuxUpdate) *)
(* and the system may be rebooted.  There is one database, whose editions  *)
(* are releases of Linux; what becomes of its files is module Import.      *)
(***************************************************************************)
EXTENDS LinuxUpdate

CONSTANTS
  Checkings,      \* values of file_checking
  Reboots,        \* values of allow_reboot: "never", "always", "linux"
  MaxOutages      \* bound: times the network goes, or the certificate expires

VARIABLES
  options,    \* [checking, reboot]
  published,  \* the version in the database that is published
  stored,     \* the edition in the fingerprint of the store, 0 for none
  trust,      \* the free spaces that were saved vouch for the files
  cert,       \* cacert.pem: "good", "bad", "empty" or "none"
  outages

knowledge == <<stored, trust>>
world == <<custom, options, published>>
vars == <<card, booted, flag, net, run, failures, cuts, defects, world, knowledge, cert, outages>>

Init ==
  /\ custom \in BOOLEAN
  /\ options \in [checking : Checkings, reboot : Reboots]
  /\ \E tool \in {"none", "whole"} :
       card = [img |-> [v |-> 1, user |-> custom], next |-> None, kernel |-> 1, boot |-> 1,
               archive |-> "none", gz |-> "none", tool |-> tool, update |-> None, rest |-> 0]
  /\ booted = 1 /\ flag = FALSE /\ net = TRUE /\ published = 1
  /\ stored = 0 /\ trust = FALSE /\ cert = "good"
  /\ run = Idle /\ failures = 0 /\ cuts = 0 /\ outages = 0 /\ defects = {}

-----------------------------------------------------------------------------
(* 1. The session *)

\* The connections of a session use the certificates that were there at its start.
Start ==
  /\ run.pc = "idle"
  /\ run' = [pc |-> "import", context |-> cert = "good", retried |-> FALSE, tries |-> 0]
  /\ UNCHANGED <<card_vars, failures, defects, knowledge, cert>>

\* can_skip_db, in the mode of the session.
Skips == options.checking = "balanced" /\ trust /\ stored = published

\* download_dbs_contents: the database is skipped, it is processed, maybe with files
\* that fail, or its store cannot be loaded; or no source can be had.
Import ==
  /\ run.pc = "import"
  /\ \/ /\ net /\ run.context
        /\ \E files \in {"all", "some"}, reboot \in BOOLEAN :
             /\ Skips => files = "all" /\ ~reboot
             /\ failures' = failures + (IF files = "some" THEN 1 ELSE 0) /\ failures' <= MaxFailures
             /\ run' = [pc |-> "save", version |-> published, processed |-> ~Skips,
                        failed |-> files = "some", reboot |-> reboot]
     \/ net /\ run.context /\ ~Skips /\ Fails
     \/ /\ ~(net /\ run.context)
        /\ Goes(IF run.retried THEN "end" ELSE "certs") /\ UNCHANGED failures
  /\ UNCHANGED <<card_vars, defects, knowledge, cert>>

\* _check_certificates: at most three times.
Again == run' = [run EXCEPT !.tries = @ + 1, !.pc = IF run.tries = 2 THEN "end" ELSE @]

\* fix_certificates_if_needed: one that does not pass a query is removed, and another
\* one is downloaded, into a file that is made first; one that is missing passes.
FixCertificates ==
  /\ run.pc = "certs"
  /\ \/ /\ net \/ cert = "none"
        /\ cert' = IF net THEN "good" ELSE "empty"
        /\ run' = [run EXCEPT !.pc = "import", !.retried = TRUE] /\ UNCHANGED failures
     \/ /\ ~net /\ cert # "none"
        /\ cert' = "empty" /\ Again /\ UNCHANGED failures
     \/ /\ ~(net /\ cert = "good")
        /\ failures < MaxFailures /\ failures' = failures + 1   \* it cannot be removed or made
        /\ (Again \/ run' = Idle) /\ UNCHANGED cert
  /\ UNCHANGED <<card_vars, defects, knowledge>>

\* save_store, then the free spaces, saved or not; Linux after a store that was saved,
\* for the databases that were processed.
Save ==
  /\ run.pc = "save"
  /\ \/ /\ stored' = run.version /\ Goes(IF run.processed THEN "linux" ELSE "end")
        /\ UNCHANGED failures
     \/ run.processed /\ Fails /\ UNCHANGED stored
  /\ trust' = IF options.checking = "balanced" THEN ~run.failed ELSE TRUE
  /\ UNCHANGED <<card_vars, defects, cert>>

\* calc_needs_reboot: "linux" only for the flag, "always" for system files too.
WillReboot ==
  LET needs == "reboot" \in DOMAIN run /\ run.reboot
  IN \/ options.reboot = "linux" /\ flag
     \/ options.reboot = "always" /\ (flag \/ needs)

End ==
  /\ run.pc = "end" /\ run' = Idle
  /\ booted' = IF WillReboot THEN card.img.v ELSE booted
  /\ flag' = (flag /\ ~WillReboot)
  /\ UNCHANGED <<card, failures, defects, knowledge, cert>>

Session ==
  /\ Start \/ Import \/ FixCertificates \/ Save \/ End \/ (LinuxStep /\ UNCHANGED <<knowledge, cert>>)
  /\ UNCHANGED <<world, net, cuts, outages>>

-----------------------------------------------------------------------------
(* 2. The surroundings *)

Release ==
  /\ published < MaxVersion /\ published' = published + 1
  /\ UNCHANGED <<card, booted, flag, net, run, failures, cuts, defects, custom, options, knowledge,
                 cert, outages>>

Outage ==
  /\ outages < MaxOutages /\ outages' = outages + 1
  /\ \/ net /\ net' = FALSE /\ UNCHANGED cert
     \/ cert = "good" /\ cert' = "bad" /\ UNCHANGED net
  /\ UNCHANGED <<card, booted, flag, run, failures, cuts, defects, world, knowledge>>

NetworkBack ==
  /\ ~net /\ net' = TRUE
  /\ UNCHANGED <<card, booted, flag, run, failures, cuts, defects, world, knowledge, cert, outages>>

\* In the certificates too something can be left half way.
Power ==
  /\ PowerCut
  /\ IF run.pc = "certs" /\ ~(cert = "good" /\ net) THEN cert' \in {cert, "none", "empty"}
     ELSE UNCHANGED cert
  /\ UNCHANGED <<net, failures, world, knowledge, outages>>

Next == Session \/ Release \/ Outage \/ NetworkBack \/ Power
Spec == Init /\ [][Next]_vars
\* The updater is started again and again and goes on, and the network comes back.
FairSpec == Spec /\ WF_vars(Session) /\ WF_vars(NetworkBack)

-----------------------------------------------------------------------------
(* 3. Properties *)

\* The types of the variables.
FullTypeOK ==
  /\ card \in CardType /\ booted \in Version /\ flag \in BOOLEAN
  /\ stored \in 0..published /\ cert \in {"good", "bad", "empty", "none"}
  /\ defects \subseteq {"silent", "tool"}

\* linux_updater.py: the files the user has for the system are in the image whenever
\* there is one to start from, through failures, cuts and updates of updates.
UserFilesKept ==
  custom => card.img.user /\ (run.pc = "idle" /\ card.next # None => card.next.user)

\* A flash that was cut is done again: while the boot files are not those of the
\* image, the version that runs is not the one that is published, for the next
\* session to update.  The steps that fail silently are the known exception.
TornFlashIsSeen ==
  run.pc = "idle" /\ "silent" \notin defects
    /\ ~(card.kernel = card.img.v /\ card.boot = card.img.v) => booted # published

\* The system is rebooted for Linux only into an image of another version than the
\* one that runs: the updater does not go round in reboots.
RebootIntoNew == flag /\ "silent" \notin defects => card.img.v # booted

Current ==
  /\ card.img = [v |-> published, user |-> custom]
  /\ card.kernel = published /\ card.boot = published

\* README.md:77: "true -> Updates Linux when there is a new update", when the database
\* is not skipped: with sessions again and again, whatever failed, was cut or expired
\* before, the card ends up with the version that is published.
EventuallyCurrent ==
  options.checking # "balanced" => <>[](defects # {} \/ Current)

\* linux_updater.py:190: "Could not mount updated Linux image, try again later": with
\* sessions again and again Linux is updated.
TryAgainLater == <>[](defects # {} \/ Current)
=============================================================================
