----------------------------- MODULE LinuxUpdate -----------------------------
(***************************************************************************)
(* The update of the Linux system (linux_updater.py, SafeFileFetcher): an  *)
(* archive is fetched, unpacked and flashed, with a tool that may have to  *)
(* be fetched first.  The user can cut the power at any moment.            *)
(*                                                                         *)
(* An image is a version and whether the files of the user are in it; the  *)
(* other files of the "linux" folder are the kernel, 0 when those of two   *)
(* versions are mixed.                                                     *)
(***************************************************************************)
EXTENDS Naturals, Sequences

CONSTANTS
  MaxVersion,             \* versions of Linux, from 1
  MaxFailures, MaxCuts    \* bounds over a behaviour

ASSUME LinuxAssumption ==
  MaxVersion \in Nat \ {0} /\ MaxFailures \in Nat /\ MaxCuts \in Nat

VARIABLES
  card,       \* what is on the card, see CardType
  booted,     \* the version that runs, in /MiSTer.version
  flag,       \* /tmp/downloader_needs_reboot_after_linux_update is there
  net,        \* the network is there
  custom,     \* the user has files in the "linux" folder for the system
  run,        \* the session that is going on
  failures, cuts,
  defects     \* the known defects of the code that have struck, see section 3

card_vars == <<card, booted, flag>>
Version == 1..MaxVersion
Image == [v : Version, user : BOOLEAN]
None == [v |-> 0, user |-> FALSE]
CardType ==
  [img : Image, next : Image \cup {None},          \* linux.img and linux.img.new
   kernel : Version \cup {0}, boot : Version \cup {0},
   archive : {"none", "partial", "whole"},         \* linux.7z
   gz : {"none", "partial", "whole"},              \* 7za.gz
   tool : {"none", "partial", "whole"},            \* 7za
   update : Image \cup {None}, rest : Version \cup {0}]   \* linux.update: the image, the rest

Idle == [pc |-> "idle"]
Struck(S) == defects' = defects \cup S
Goes(pc) == run' = [run EXCEPT !.pc = pc]
\* A step that fails, and the report of it, after which the session ends.
Fails == failures < MaxFailures /\ failures' = failures + 1 /\ Goes("end")
OnCard(f, v) == card' = [card EXCEPT ![f] = v]

-----------------------------------------------------------------------------
(* 1. The archive *)

\* Faulty variant: the version that runs is not looked at.
CheckNothing ==
  /\ run.pc = "linux" /\ Goes("image")
  /\ UNCHANGED <<card_vars, failures, defects>>

\* _update_linux_impl: the version that runs is compared with the one in the database.
CheckVersion ==
  /\ run.pc = "linux"
  /\ Goes(IF booted = run.version THEN "end" ELSE "image")
  /\ UNCHANGED <<card_vars, failures, defects>>

\* SafeFileFetcher: after the last try the file has the content that is wanted; or
\* there is an error, and what was written of it stays.
FetchFile(f, good) ==
  \/ /\ net /\ OnCard(f, "whole") /\ Goes(good) /\ UNCHANGED failures
  \/ /\ net /\ \E v \in {card[f], "partial"} : OnCard(f, v)
     /\ Fails
  \/ ~net /\ Goes("end") /\ UNCHANGED <<card, failures>>

FetchImage ==
  /\ run.pc = "image"
  /\ FetchFile("archive", IF card.tool = "none" THEN "tool" ELSE "gunzip")
  /\ UNCHANGED <<booted, flag, defects>>

FetchTool ==
  /\ run.pc = "tool" /\ FetchFile("gz", "gunzip")
  /\ UNCHANGED <<booted, flag, defects>>

\* Faulty variant: a bad archive of the tool stays.
GunzipKeeps ==
  /\ run.pc = "gunzip"
  /\ IF card.gz = "whole" /\ card.tool = "none"
     THEN card' = [card EXCEPT !.gz = "none", !.tool = "whole"]
     ELSE card' = card
  /\ Goes(IF card'.tool # "none" /\ card'.gz = "none" THEN "extract" ELSE "end")
  /\ UNCHANGED <<booted, flag, failures, defects>>

\* gunzip does not write over a tool that is there; the archive is unlinked anyway.
Gunzip ==
  /\ run.pc = "gunzip"
  /\ card' = [card EXCEPT !.gz = "none",
                          !.tool = IF card.gz = "whole" /\ @ = "none" THEN "whole" ELSE @]
  /\ Goes(IF card'.tool # "none" /\ (card.gz = "none" \/ (card.gz = "whole" /\ card.tool = "none"))
          THEN "extract" ELSE "end")
  /\ UNCHANGED <<booted, flag, failures, defects>>

\* The archive is tested, unpacked in an empty folder, and removed.
Extract ==
  /\ run.pc = "extract"
  /\ \/ /\ card.tool = "whole" /\ card.archive = "whole"
        /\ card' = [card EXCEPT !.archive = "none", !.rest = run.version,
                                !.update = [v |-> run.version, user |-> FALSE]]
        /\ Goes(IF custom THEN "user" ELSE "mv") /\ UNCHANGED failures
     \/ /\ card.tool = "whole" /\ card.archive = "whole"
        /\ card' = [card EXCEPT !.archive = "none", !.rest = 0, !.update = None] /\ Fails
     \/ /\ card.tool # "whole" \/ card.archive # "whole"
        /\ OnCard("archive", "none") /\ Goes("end") /\ UNCHANGED failures
  /\ UNCHANGED <<booted, flag, defects>>

\* Faulty variant: a file that could not be copied is let pass.
RestoreAnyway ==
  /\ run.pc = "user"
  /\ \/ /\ card' = [card EXCEPT !.update.user = TRUE] /\ Goes("mv") /\ UNCHANGED failures
     \/ /\ failures < MaxFailures /\ failures' = failures + 1
        /\ Goes("mv") /\ UNCHANGED card
  /\ UNCHANGED <<booted, flag, defects>>

\* _restore_user_files: mounting, a copy or unmounting may fail.
RestoreUserFiles ==
  /\ run.pc = "user"
  /\ \/ /\ card' = [card EXCEPT !.update.user = TRUE] /\ Goes("mv") /\ UNCHANGED failures
     \/ /\ \E user \in BOOLEAN : card' = [card EXCEPT !.update.user = user]
        /\ Fails
  /\ UNCHANGED <<booted, flag, defects>>

-----------------------------------------------------------------------------
(* 2. The flash: a script of steps, none of which is looked at but the last *)

\* Faulty variant: the image goes first.
AfterImageFirst(pc) ==
  CASE pc = "mv" -> "swap" [] pc = "swap" -> "rsync" [] pc = "rsync" -> "clean"
    [] pc = "clean" -> "boot" [] pc = "boot" -> "touch"

After(pc) ==
  CASE pc = "mv" -> "rsync" [] pc = "rsync" -> "clean" [] pc = "clean" -> "boot"
    [] pc = "boot" -> "swap" [] pc = "swap" -> "touch"

\* Faulty variant: the image is replaced without a new one.
DoneBlindly(pc) ==
  IF pc = "swap" THEN [card EXCEPT !.img = card.next, !.next = None]
  ELSE CASE pc = "mv" -> [card EXCEPT !.next = card.update, !.update = None]
         [] pc = "rsync" -> [card EXCEPT !.kernel = card.rest]
         [] pc = "clean" -> [card EXCEPT !.update = None, !.rest = 0]
         [] pc = "boot" -> [card EXCEPT !.boot = card.kernel]

\* What a step of the script does when it goes well.
Done(pc) ==
  CASE pc = "mv" -> [card EXCEPT !.next = card.update, !.update = None]
    [] pc = "rsync" -> [card EXCEPT !.kernel = card.rest,
                                    !.img = IF card.update # None THEN card.update ELSE @]
    [] pc = "clean" -> [card EXCEPT !.update = None, !.rest = 0]
    [] pc = "boot" -> [card EXCEPT !.boot = card.kernel]
    [] pc = "swap" -> [card EXCEPT !.img = IF card.next # None THEN card.next ELSE @, !.next = None]

\* What is on the card when it does not: some files were replaced; that makes no
\* difference when they are the same.
Mixed(old, new) == IF old = new THEN old ELSE 0
Half(pc) ==
  CASE pc = "rsync" -> {card, [card EXCEPT !.kernel = Mixed(@, card.rest)]}
    [] pc = "boot" -> {card, [card EXCEPT !.boot = Mixed(@, card.kernel)]}
    [] OTHER -> {card}

Flash ==
  /\ run.pc \in {"mv", "rsync", "clean", "boot", "swap"}
  /\ \/ card' = Done(run.pc) /\ UNCHANGED <<failures, defects>>
     \/ /\ card' \in Half(run.pc)
        /\ failures < MaxFailures /\ failures' = failures + 1 /\ Struck({"silent"})
  /\ Goes(After(run.pc))
  /\ UNCHANGED <<booted, flag>>

\* When the touch fails, so does the update, although all of it is done.
TouchFlag ==
  /\ run.pc = "touch"
  /\ \/ flag' = TRUE /\ Goes("end") /\ UNCHANGED failures
     \/ Fails /\ UNCHANGED flag
  /\ UNCHANGED <<card, booted, defects>>

LinuxStep ==
  \/ CheckVersion \/ FetchImage \/ FetchTool \/ Gunzip \/ Extract \/ RestoreUserFiles
  \/ Flash \/ TouchFlag

-----------------------------------------------------------------------------
(* 3. The power *)

\* What a step leaves on the card when the power is cut in it.
Cut(pc) ==
  CASE pc = "image" -> {card, [card EXCEPT !.archive = "partial"]}
    [] pc = "tool" -> {card, [card EXCEPT !.gz = "partial"]}
    [] pc = "gunzip" /\ card.gz = "whole" /\ card.tool = "none" ->
         {card, [card EXCEPT !.tool = "partial"], [card EXCEPT !.tool = "whole"]}
    [] pc = "extract" -> {card, [card EXCEPT !.update = None, !.rest = 0]}
    [] OTHER -> Half(pc)

\* A tool that was cut is taken for a tool by all sessions to come ("tool").
PowerCut ==
  /\ run.pc # "idle" /\ cuts < MaxCuts /\ cuts' = cuts + 1
  /\ card' \in Cut(run.pc)
  /\ booted' = card'.img.v /\ flag' = FALSE
  /\ run' = Idle
  /\ Struck(IF card'.tool = "partial" THEN {"tool"} ELSE {})
=============================================================================
