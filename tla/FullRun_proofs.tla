--------------------------- MODULE FullRun_proofs ---------------------------
(***************************************************************************)
(* Proofs about FullRun and LinuxUpdate, for any number of versions,       *)
(* failures, power cuts and outages: the files of the user survive, a torn *)
(* flash is seen by the next session, and the updater reboots only into    *)
(* another version.                                                        *)
(*                                                                         *)
(* The inductive invariant says what each stage of a flash has put on the  *)
(* card, and that versions only go up: published, the one of the session,  *)
(* the image, the one that runs.  Steps of the flash script that fail      *)
(* silently make it say nothing more, except about the files of the user.  *)
(***************************************************************************)
EXTENDS FullRun, TLAPS

-----------------------------------------------------------------------------
(* 1. The inductive invariant *)

FlashPcs == {"rsync", "clean", "boot", "swap"}
LinuxPcs == {"linux", "image", "tool", "gunzip", "extract", "user", "mv", "touch"} \cup FlashPcs

\* A session that looks for sources, and one that has them.
Importing == [pc : {"import", "certs", "end"}, context : BOOLEAN, retried : BOOLEAN, tries : Nat]
Saving == [pc : {"save", "end"} \cup LinuxPcs, version : Version,
           processed : BOOLEAN, failed : BOOLEAN, reboot : BOOLEAN]

TypeInv ==
  /\ FullTypeOK
  /\ custom \in BOOLEAN /\ published \in Version /\ defects \subseteq {"silent", "tool"}
  /\ run = Idle \/ run \in Importing \/ run \in Saving
  /\ run \in Saving => run.version <= published
  /\ run.pc = "user" => card.update \in Image

\* Wherever an image is that may become the one of the system, the files are in it.
UserInv ==
  custom =>
    /\ card.img.user
    /\ card.next # None => card.next.user
    /\ run.pc \in FlashPcs \cup {"mv", "touch"} /\ card.update # None => card.update.user

Unharmed == "silent" \notin defects

\* What each stage of the flash has put in its place.
Stages ==
  Unharmed =>
    /\ run.pc \in {"user", "mv"} => card.update.v = run.version
    /\ run.pc \in {"user", "mv", "rsync"} => card.rest = run.version
    /\ run.pc \in FlashPcs => card.next.v = run.version /\ card.update = None
    /\ run.pc \in {"clean", "boot", "swap", "touch"} => card.kernel = run.version
    /\ run.pc \in {"swap", "touch"} => card.boot = run.version
    /\ run.pc = "touch" => card.img.v = run.version

\* Versions only go up, and Linux is updated only from another version.
InOrder ==
  /\ Unharmed => booted <= card.img.v /\ card.img.v <= published
  /\ Unharmed /\ run.pc \in LinuxPcs \cup {"save"} => card.img.v <= run.version
  /\ run.pc \in LinuxPcs \ {"linux"} => booted # run.version

\* The flag is there for an image that does not run yet.
FlagInv == flag /\ Unharmed => card.img.v # booted

\* Files of two versions are on the card only below a version that was released later.
Whole ==
  Unharmed => (card.kernel = card.img.v /\ card.boot = card.img.v) \/ card.img.v < published

-----------------------------------------------------------------------------
(* 2. It is inductive *)

Kept == UNCHANGED <<custom, options, published, net, cuts, outages>>
KeptLinux == Kept /\ UNCHANGED <<stored, trust, cert>>

\* The steps of the specification, one by one.
Steps ==
  \/ Kept /\ (Start \/ Import \/ FixCertificates \/ Save \/ End)
  \/ KeptLinux /\ \/ CheckVersion \/ FetchImage \/ FetchTool \/ Gunzip \/ Extract
                  \/ RestoreUserFiles \/ Flash \/ TouchFlag
  \/ Release \/ Outage \/ NetworkBack \/ Power \/ UNCHANGED vars

\* They are all there are.
LEMMA AllSteps == [Next]_vars => Steps
BY DEF Next, Session, LinuxStep, Steps, Kept, KeptLinux, world, knowledge

\* The types of the fields of the card.
LEMMA CardFields ==
  ASSUME NEW c \in CardType
  PROVE  /\ c.img \in Image /\ c.next \in Image \cup {None} /\ c.update \in Image \cup {None}
         /\ c.kernel \in Version \cup {0} /\ c.boot \in Version \cup {0} /\ c.rest \in Version \cup {0}
         /\ c.archive \in {"none", "partial", "whole"} /\ c.gz \in {"none", "partial", "whole"}
         /\ c.tool \in {"none", "partial", "whole"}
BY DEF CardType

\* A session goes on with what it has.
LEMMA GoingOn ==
  ASSUME run \in Saving, NEW pc \in {"save", "end"} \cup LinuxPcs, Goes(pc)
  PROVE  run' \in Saving /\ run'.pc = pc /\ run'.version = run.version
BY DEF Goes, Saving

\* So does one that looks for sources.
LEMMA Ending ==
  ASSUME run \in Importing, NEW pc \in {"import", "certs", "end"}, Goes(pc)
  PROVE  run' \in Importing /\ run'.pc = pc
BY DEF Goes, Importing

\* What a step leaves alone of the system, and of the update that is unpacked.
SameSystem == /\ card'.img = card.img /\ card'.next = card.next
              /\ card'.kernel = card.kernel /\ card'.boot = card.boot
SameUpdate == card'.update = card.update /\ card'.rest = card.rest

\* Only a session that has its sources updates Linux.
LEMMA InLinux ==
  ASSUME TypeInv, run.pc \in LinuxPcs \cup {"save"}
  PROVE  run \in Saving
BY DEF TypeInv, Idle, Importing, Saving, LinuxPcs, FlashPcs

\* The import ends with sources, or looks for them again.
LEMMA Sourcing ==
  ASSUME TypeInv, Import
  PROVE  \/ run' \in Saving /\ run'.pc = "save" /\ run'.version = published
         \/ run' \in Importing
<1>1. run \in Importing
  BY DEF Import, TypeInv, Idle, Saving, LinuxPcs, FlashPcs
<1>2. ASSUME NEW files \in {"all", "some"}, NEW reboot \in BOOLEAN,
             run' = [pc |-> "save", version |-> published, processed |-> ~Skips,
                     failed |-> files = "some", reboot |-> reboot]
      PROVE  run' \in Saving /\ run'.pc = "save" /\ run'.version = published
  BY <1>2 DEF Saving, TypeInv, Skips
<1>3. CASE Goes("end") \/ Goes("certs")
  BY <1>1, <1>3, Ending
<1> QED BY <1>2, <1>3 DEF Import, Fails

\* The certificates are looked at in the same session, or it crashes.
LEMMA Fixing ==
  ASSUME TypeInv, FixCertificates
  PROVE  /\ run' \in Importing \/ run' = Idle
         /\ cert' \in {"good", "bad", "empty", "none"}
<1>1. run \in Importing
  BY DEF FixCertificates, TypeInv, Idle, Saving, LinuxPcs, FlashPcs
<1>2. CASE Again
  <2>1. run.tries + 1 \in Nat BY <1>1 DEF Importing
  <2> QED BY <1>1, <1>2, <2>1 DEF Again, Importing, FixCertificates, TypeInv, FullTypeOK
<1>3. CASE run' = [run EXCEPT !.pc = "import", !.retried = TRUE]
  BY <1>1, <1>3 DEF Importing, FixCertificates, TypeInv, FullTypeOK
<1>4. CASE run' = Idle
  BY <1>4 DEF FixCertificates, TypeInv, FullTypeOK
<1> QED BY <1>2, <1>3, <1>4 DEF FixCertificates

\* Fetching touches nothing but the archives.
LEMMA Fetching ==
  ASSUME TypeInv, FetchImage \/ FetchTool
  PROVE  /\ card' \in CardType /\ SameSystem /\ SameUpdate
         /\ run' \in Saving /\ run'.version = run.version /\ run'.pc \in {"tool", "gunzip", "end"}
<1>1. run \in Saving
  BY InLinux DEF FetchImage, FetchTool, LinuxPcs
<1>2. run' \in Saving /\ run'.version = run.version /\ run'.pc \in {"tool", "gunzip", "end"}
  BY <1>1, GoingOn DEF FetchImage, FetchTool, FetchFile, Fails, LinuxPcs
<1>3. card' = card \/ \E f \in {"archive", "gz"}, v \in {"none", "partial", "whole"} : OnCard(f, v)
  <2>1. card.archive \in {"none", "partial", "whole"} /\ card.gz \in {"none", "partial", "whole"}
    BY CardFields DEF TypeInv, FullTypeOK
  <2>2. CASE FetchImage
    BY <2>1, <2>2 DEF FetchImage, FetchFile
  <2>3. CASE FetchTool
    BY <2>1, <2>3 DEF FetchTool, FetchFile
  <2> QED BY <2>2, <2>3
<1>4. card' \in CardType /\ SameSystem /\ SameUpdate
  BY <1>3 DEF TypeInv, FullTypeOK, CardType, OnCard, SameSystem, SameUpdate
<1> QED BY <1>2, <1>4

\* So does unpacking the tool.
LEMMA Unpacking ==
  ASSUME TypeInv, Gunzip
  PROVE  /\ card' \in CardType /\ SameSystem /\ SameUpdate
         /\ run' \in Saving /\ run'.version = run.version /\ run'.pc \in {"extract", "end"}
<1>1. run \in Saving
  BY InLinux DEF Gunzip, LinuxPcs
<1>2. run' \in Saving /\ run'.version = run.version /\ run'.pc \in {"extract", "end"}
  BY <1>1, GoingOn DEF Gunzip, LinuxPcs
<1>3. card' \in CardType /\ SameSystem /\ SameUpdate
  BY DEF TypeInv, FullTypeOK, CardType, Gunzip, SameSystem, SameUpdate
<1> QED BY <1>2, <1>3

\* The archive gives an update of the version of the session, without files of a user.
LEMMA Extracting ==
  ASSUME TypeInv, Extract
  PROVE  /\ card' \in CardType /\ SameSystem
         /\ run' \in Saving /\ run'.version = run.version
         /\ \/ /\ run'.pc = IF custom THEN "user" ELSE "mv"
               /\ card'.rest = run.version /\ card'.update \in Image /\ card'.update.v = run.version
            \/ run'.pc = "end"
<1>1. run \in Saving /\ run.version \in Version
  BY InLinux DEF Extract, LinuxPcs, Saving
<1>2. CASE /\ card' = [card EXCEPT !.archive = "none", !.rest = run.version,
                                  !.update = [v |-> run.version, user |-> FALSE]]
           /\ Goes(IF custom THEN "user" ELSE "mv")
  <2>1. card' \in CardType /\ SameSystem
    BY <1>1, <1>2 DEF TypeInv, FullTypeOK, CardType, SameSystem, Image
  <2>2. card'.rest = run.version /\ card'.update \in Image /\ card'.update.v = run.version
    BY <1>1, <1>2 DEF TypeInv, FullTypeOK, CardType, Image
  <2> QED BY <1>1, <1>2, <2>1, <2>2, GoingOn DEF LinuxPcs
<1>3. CASE card' = [card EXCEPT !.archive = "none", !.rest = 0, !.update = None] /\ Goes("end")
  BY <1>1, <1>3, GoingOn DEF TypeInv, FullTypeOK, CardType, SameSystem
<1>4. CASE card' = [card EXCEPT !.archive = "none"] /\ Goes("end")
  BY <1>1, <1>4, GoingOn DEF TypeInv, FullTypeOK, CardType, SameSystem
<1> QED BY <1>2, <1>3, <1>4 DEF Extract, Fails, OnCard

\* The flash begins only with all files of the user in the update.
LEMMA Restoring ==
  ASSUME TypeInv, RestoreUserFiles
  PROVE  /\ card' \in CardType /\ SameSystem /\ card'.rest = card.rest
         /\ card'.update.v = card.update.v
         /\ run' \in Saving /\ run'.version = run.version
         /\ (run'.pc = "mv" /\ card'.update.user) \/ run'.pc = "end"
<1>1. run \in Saving /\ card.update \in Image
  BY InLinux DEF RestoreUserFiles, LinuxPcs, TypeInv
<1>2. PICK user \in BOOLEAN : card' = [card EXCEPT !.update.user = user] /\ (user \/ Goes("end"))
                             /\ (Goes("mv") \/ Goes("end"))
  BY DEF RestoreUserFiles, Fails
<1>3. /\ card' \in CardType /\ SameSystem /\ card'.rest = card.rest
      /\ card'.update.v = card.update.v /\ card'.update.user = user
  BY <1>1, <1>2 DEF TypeInv, FullTypeOK, CardType, SameSystem, Image
<1> QED BY <1>1, <1>2, <1>3, GoingOn DEF LinuxPcs

\* The steps of the flash, and what the one that fails silently leaves alone.
Flashed ==
  \/ /\ run.pc = "mv" /\ run'.pc = "rsync" /\ card'.next = card.update /\ card'.update = None
     /\ card'.rest = card.rest
     /\ card'.img = card.img /\ card'.kernel = card.kernel /\ card'.boot = card.boot
  \/ /\ run.pc = "rsync" /\ run'.pc = "clean" /\ card'.kernel = card.rest
     /\ card'.img = (IF card.update # None THEN card.update ELSE card.img)
     /\ card'.next = card.next /\ card'.boot = card.boot /\ SameUpdate
  \/ /\ run.pc = "clean" /\ run'.pc = "boot" /\ SameSystem /\ card'.update = None
  \/ /\ run.pc = "boot" /\ run'.pc = "swap" /\ card'.boot = card.kernel
     /\ card'.img = card.img /\ card'.next = card.next /\ card'.kernel = card.kernel /\ SameUpdate
  \/ /\ run.pc = "swap" /\ run'.pc = "touch" /\ card'.next = None
     /\ card'.img = (IF card.next # None THEN card.next ELSE card.img)
     /\ card'.kernel = card.kernel /\ card'.boot = card.boot /\ SameUpdate

\* A step that is cut short replaces a part of the kernel or of the boot files.
LEMMA Halves ==
  ASSUME TypeInv, NEW pc, NEW c \in Half(pc)
  PROVE  /\ c \in CardType /\ c.img = card.img /\ c.next = card.next
         /\ c.update = card.update /\ c.rest = card.rest
         /\ c.kernel = card.kernel \/ (pc = "rsync" /\ c.kernel = Mixed(card.kernel, card.rest))
         /\ c.boot = card.boot \/ (pc = "boot" /\ c.boot = Mixed(card.boot, card.kernel))
BY CardFields DEF Half, TypeInv, FullTypeOK, CardType, Mixed

\* A step of the flash does all of its work, or fails silently and spares the images.
LEMMA Flashing ==
  ASSUME TypeInv, Flash
  PROVE  /\ card' \in CardType /\ run' \in Saving /\ run'.version = run.version
         /\ run'.pc \in FlashPcs \cup {"touch"}
         /\ \/ Flashed /\ defects' = defects
            \/ /\ defects' = defects \cup {"silent"} /\ card'.img = card.img /\ card'.next = card.next
               /\ card'.update = card.update
<1>1. run \in Saving /\ run.pc \in {"mv", "rsync", "clean", "boot", "swap"} /\ card \in CardType
  BY InLinux DEF Flash, LinuxPcs, FlashPcs, TypeInv, FullTypeOK
<1>2. /\ run' \in Saving /\ run'.version = run.version /\ run'.pc \in FlashPcs \cup {"touch"}
      /\ run'.pc = After(run.pc)
  <2>1. After(run.pc) \in FlashPcs \cup {"touch"}
    BY <1>1 DEF After, FlashPcs
  <2> QED BY <1>1, <2>1, GoingOn DEF Flash, LinuxPcs
<1>3. CASE card' = Done(run.pc) /\ defects' = defects
  <2>1. CASE run.pc = "mv"
    BY <1>1, <1>2, <1>3, <2>1, CardFields DEF Done, After, Flashed, CardType
  <2>2. CASE run.pc = "rsync"
    BY <1>1, <1>2, <1>3, <2>2, CardFields, ZenonT(40) DEF Done, After, Flashed, CardType, SameUpdate
  <2>3. CASE run.pc = "clean"
    BY <1>1, <1>2, <1>3, <2>3, CardFields DEF Done, After, Flashed, CardType, SameSystem
  <2>4. CASE run.pc = "boot"
    BY <1>1, <1>2, <1>3, <2>4, CardFields DEF Done, After, Flashed, CardType, SameUpdate
  <2>5. CASE run.pc = "swap"
    BY <1>1, <1>2, <1>3, <2>5, CardFields, ZenonT(40) DEF Done, After, Flashed, CardType, SameUpdate
  <2> QED BY <1>1, <1>2, <2>1, <2>2, <2>3, <2>4, <2>5
<1>4. CASE card' \in Half(run.pc) /\ defects' = defects \cup {"silent"}
  BY <1>2, <1>4, Halves
<1> QED BY <1>3, <1>4 DEF Flash, Struck

\* A power cut leaves the images, and a half of what was being replaced.
LEMMA Cutting ==
  ASSUME TypeInv, Power
  PROVE  /\ card' \in CardType /\ run' = Idle /\ flag' = FALSE /\ booted' = card.img.v
         /\ card'.img = card.img /\ card'.next = card.next
         /\ \/ card'.kernel = card.kernel
            \/ run.pc = "rsync" /\ card'.kernel = Mixed(card.kernel, card.rest)
         /\ \/ card'.boot = card.boot
            \/ run.pc = "boot" /\ card'.boot = Mixed(card.boot, card.kernel)
         /\ defects \subseteq defects' /\ defects' \subseteq defects \cup {"tool"}
         /\ cert' \in {"good", "bad", "empty", "none"}
         /\ UNCHANGED <<custom, published, stored>>
<1>1. card' \in Cut(run.pc)
  BY DEF Power, PowerCut
<1>2. card \in CardType
  BY DEF TypeInv, FullTypeOK
<1>3. CASE card' \in Half(run.pc)
  BY <1>3, Halves DEF Power, PowerCut, Struck, TypeInv, FullTypeOK, world, knowledge
<1>4. CASE card' = card
  BY <1>2, <1>4 DEF Power, PowerCut, Struck, TypeInv, FullTypeOK, world, knowledge
<1>5. CASE card' \in {[card EXCEPT !.archive = "partial"], [card EXCEPT !.gz = "partial"],
                      [card EXCEPT !.tool = "partial"], [card EXCEPT !.tool = "whole"],
                      [card EXCEPT !.update = None, !.rest = 0]}
  <2>1. /\ card' \in CardType /\ card'.img = card.img /\ card'.next = card.next
        /\ card'.kernel = card.kernel /\ card'.boot = card.boot
    BY <1>2, <1>5 DEF CardType
  <2> QED BY <2>1 DEF Power, PowerCut, Struck, TypeInv, FullTypeOK, world, knowledge
<1> QED BY <1>1, <1>3, <1>4, <1>5 DEF Cut

\* Every step keeps the types.
LEMMA TypeInvStep == TypeInv /\ [Next]_vars => TypeInv'
<1> SUFFICES ASSUME TypeInv, Steps PROVE TypeInv'
  BY AllSteps
<1>0. card \in CardType /\ booted \in Version /\ published \in Version
  BY DEF TypeInv, FullTypeOK
<1> USE <1>0, CardFields, InLinux DEF TypeInv, FullTypeOK, Idle, Importing, Saving, Version, Kept,
  KeptLinux, SameSystem, SameUpdate
<1>1. CASE Start /\ Kept
  BY <1>1, LinuxAssumption DEF Start, world, knowledge, card_vars, LinuxPcs
<1>2. CASE Import /\ Kept
  BY <1>2, LinuxAssumption, Sourcing DEF Import, world, knowledge, card_vars, LinuxPcs
<1>3. CASE FixCertificates /\ Kept
  BY <1>3, LinuxAssumption, Fixing DEF FixCertificates, world, knowledge, card_vars, LinuxPcs
<1>4. CASE Save /\ Kept
  BY <1>4, LinuxAssumption, GoingOn DEF Save, Fails, world, knowledge, card_vars, LinuxPcs
<1>5. CASE End /\ Kept
  <2>1. booted' \in Version /\ flag' \in BOOLEAN /\ run' = Idle
    BY <1>5 DEF End, Image
  <2> QED BY <1>5, <2>1 DEF End, world, knowledge, LinuxPcs
<1>6. CASE CheckVersion /\ KeptLinux
  BY <1>6, LinuxAssumption, GoingOn DEF CheckVersion, world, knowledge, card_vars, LinuxPcs
<1>7. CASE (FetchImage \/ FetchTool) /\ KeptLinux
  BY <1>7, LinuxAssumption, Fetching DEF FetchImage, FetchTool, world, knowledge, card_vars,
    LinuxPcs
<1>8. CASE Gunzip /\ KeptLinux
  BY <1>8, LinuxAssumption, Unpacking DEF Gunzip, world, knowledge, card_vars, LinuxPcs
<1>9. CASE Extract /\ KeptLinux
  BY <1>9, LinuxAssumption, Extracting DEF Extract, world, knowledge, card_vars, LinuxPcs
<1>10. CASE RestoreUserFiles /\ KeptLinux
  BY <1>10, LinuxAssumption, Restoring DEF RestoreUserFiles, world, knowledge, card_vars, LinuxPcs
<1>11. CASE Flash /\ KeptLinux
  <2>1. /\ card' \in CardType /\ run' \in Saving /\ run'.version = run.version
        /\ run'.pc \in FlashPcs \cup {"touch"}
    BY <1>11, Flashing
  <2>2. defects' \subseteq {"silent", "tool"}
    BY <1>11, Flashing
  <2>3. run \in Saving
    BY <1>11 DEF Flash, LinuxPcs, FlashPcs
  <2> QED BY <1>11, <2>1, <2>2, <2>3 DEF Flash, FlashPcs
<1>12. CASE TouchFlag /\ KeptLinux
  <2>1. run \in Saving /\ Goes("end")
    BY <1>12 DEF TouchFlag, Fails, LinuxPcs, FlashPcs
  <2>2. run' \in Saving /\ run'.pc = "end" /\ run'.version = run.version
    BY <2>1, GoingOn
  <2>3. flag' \in BOOLEAN
    BY <1>12 DEF TouchFlag
  <2> QED BY <1>12, <2>1, <2>2, <2>3 DEF TouchFlag
<1>13. CASE Release
  BY <1>13, LinuxAssumption DEF Release, world, knowledge, card_vars, LinuxPcs
<1>14. CASE Outage \/ NetworkBack
  BY <1>14, LinuxAssumption, ZenonT(40) DEF Outage, NetworkBack, world, knowledge, card_vars, LinuxPcs
<1>15. CASE Power
  <2>1. card.img.v \in Version
    BY DEF Image
  <2> QED BY <1>15, <2>1, Cutting, ZenonT(40) DEF Power, PowerCut
<1>16. CASE UNCHANGED vars
  BY <1>16, LinuxAssumption DEF vars, world, knowledge, card_vars, LinuxPcs
<1> QED BY <1>1, <1>2, <1>3, <1>4, <1>5, <1>6, <1>7, <1>8, <1>9, <1>10, <1>11, <1>12, <1>13, <1>14,
  <1>15, <1>16 DEF Steps

\* The flash begins with the files of the user in the update, and images only come from it.
LEMMA UserInvStep == TypeInv /\ UserInv /\ [Next]_vars => UserInv'
<1> SUFFICES ASSUME TypeInv, UserInv, Steps PROVE UserInv'
  BY AllSteps
<1>0. card \in CardType /\ booted \in Version /\ published \in Version
  BY DEF TypeInv, FullTypeOK
<1> USE <1>0, CardFields, InLinux DEF UserInv, FlashPcs, None, Kept, KeptLinux, SameSystem,
  SameUpdate
<1>1. CASE Start /\ Kept
  BY <1>1, LinuxAssumption DEF Start, world, knowledge, card_vars, LinuxPcs, Idle, Importing,
    Saving, Version, Image
<1>2. CASE Import /\ Kept
  BY <1>2, LinuxAssumption, Sourcing DEF Import, world, knowledge, card_vars, LinuxPcs, Idle,
    Importing, Saving, Version, Image
<1>3. CASE FixCertificates /\ Kept
  BY <1>3, LinuxAssumption, Fixing DEF FixCertificates, world, knowledge, card_vars, LinuxPcs,
    Idle, Importing, Saving, Version, Image
<1>4. CASE Save /\ Kept
  BY <1>4, LinuxAssumption, GoingOn DEF Save, Fails, world, knowledge, card_vars, LinuxPcs, Idle,
    Importing, Saving, Version, Image
<1>5. CASE End /\ Kept
  BY <1>5, LinuxAssumption DEF End, WillReboot, world, knowledge, card_vars, LinuxPcs, Idle,
    Importing, Saving, Version, Image
<1>6. CASE CheckVersion /\ KeptLinux
  BY <1>6, LinuxAssumption, GoingOn DEF CheckVersion, world, knowledge, card_vars, LinuxPcs, Idle,
    Importing, Saving, Version, Image
<1>7. CASE (FetchImage \/ FetchTool) /\ KeptLinux
  BY <1>7, LinuxAssumption, Fetching DEF FetchImage, FetchTool, world, knowledge, card_vars,
    LinuxPcs, Idle, Importing, Saving, Version, Image
<1>8. CASE Gunzip /\ KeptLinux
  BY <1>8, LinuxAssumption, Unpacking DEF Gunzip, world, knowledge, card_vars, LinuxPcs, Idle,
    Importing, Saving, Version, Image
<1>9. CASE Extract /\ KeptLinux
  BY <1>9, LinuxAssumption, Extracting DEF Extract, world, knowledge, card_vars, LinuxPcs, Idle,
    Importing, Saving, Version, Image
<1>10. CASE RestoreUserFiles /\ KeptLinux
  BY <1>10, LinuxAssumption, Restoring DEF RestoreUserFiles, world, knowledge, card_vars, LinuxPcs,
    Idle, Importing, Saving, Version, Image
<1>11. CASE Flash /\ KeptLinux
  BY <1>11, LinuxAssumption, Flashing DEF Flash, Flashed, world, knowledge, card_vars, LinuxPcs,
    Idle, Importing, Saving, Version, Image
<1>12. CASE TouchFlag /\ KeptLinux
  BY <1>12, LinuxAssumption, GoingOn DEF TouchFlag, Fails, world, knowledge, card_vars, LinuxPcs,
    Idle, Importing, Saving, Version, Image
<1>13. CASE Release
  BY <1>13, LinuxAssumption DEF Release, world, knowledge, card_vars, LinuxPcs, Idle, Importing,
    Saving, Version, Image
<1>14. CASE Outage \/ NetworkBack
  BY <1>14, LinuxAssumption DEF Outage, NetworkBack, world, knowledge, card_vars, LinuxPcs, Idle,
    Importing, Saving, Version, Image
<1>15. CASE Power
  <2>1. run'.pc = "idle" /\ card'.img = card.img /\ card'.next = card.next /\ custom' = custom
    BY <1>15, Cutting DEF Idle
  <2> QED BY <2>1
<1>16. CASE UNCHANGED vars
  BY <1>16, LinuxAssumption DEF vars, world, knowledge, card_vars, LinuxPcs, Idle, Importing,
    Saving, Version, Image
<1> QED BY <1>1, <1>2, <1>3, <1>4, <1>5, <1>6, <1>7, <1>8, <1>9, <1>10, <1>11, <1>12, <1>13, <1>14,
  <1>15, <1>16 DEF Steps

\* Each stage of the flash leaves what the next ones rely on.
LEMMA StagesStep == TypeInv /\ Stages /\ [Next]_vars => Stages'
<1> SUFFICES ASSUME TypeInv, Stages, Steps PROVE Stages'
  BY AllSteps
<1>0. card \in CardType /\ booted \in Version /\ published \in Version
  BY DEF TypeInv, FullTypeOK
<1> USE <1>0, CardFields, InLinux DEF Stages, FlashPcs, Unharmed, None, Kept, KeptLinux,
  SameSystem, SameUpdate
<1>1. CASE Start /\ Kept
  BY <1>1 DEF Start, world, knowledge, card_vars, LinuxPcs, Idle, Importing, Saving, Version, Image
<1>2. CASE Import /\ Kept
  BY <1>2, Sourcing DEF Import, world, knowledge, card_vars, LinuxPcs, Idle, Importing, Saving,
    Version, Image
<1>3. CASE FixCertificates /\ Kept
  BY <1>3, Fixing DEF FixCertificates, world, knowledge, card_vars, LinuxPcs, Idle, Importing,
    Saving, Version, Image
<1>4. CASE Save /\ Kept
  BY <1>4, GoingOn DEF Save, Fails, world, knowledge, card_vars, LinuxPcs, Idle, Importing, Saving,
    Version, Image
<1>5. CASE End /\ Kept
  BY <1>5 DEF End, WillReboot, world, knowledge, card_vars, LinuxPcs, Idle, Importing, Saving,
    Version, Image
<1>6. CASE CheckVersion /\ KeptLinux
  BY <1>6, GoingOn DEF CheckVersion, world, knowledge, card_vars, LinuxPcs, Idle, Importing,
    Saving, Version, Image
<1>7. CASE (FetchImage \/ FetchTool) /\ KeptLinux
  BY <1>7, Fetching DEF FetchImage, FetchTool, world, knowledge, card_vars, LinuxPcs, Idle,
    Importing, Saving, Version, Image
<1>8. CASE Gunzip /\ KeptLinux
  BY <1>8, Unpacking DEF Gunzip, world, knowledge, card_vars, LinuxPcs, Idle, Importing, Saving,
    Version, Image
<1>9. CASE Extract /\ KeptLinux
  BY <1>9, Extracting DEF Extract, world, knowledge, card_vars, LinuxPcs, Idle, Importing, Saving,
    Version, Image
<1>10. CASE RestoreUserFiles /\ KeptLinux
  BY <1>10, Restoring DEF RestoreUserFiles, world, knowledge, card_vars, LinuxPcs, Idle, Importing,
    Saving, Version, Image
<1>11. CASE Flash /\ KeptLinux
  BY <1>11, Flashing DEF Flash, Flashed, world, knowledge, card_vars, LinuxPcs, Idle, Importing,
    Saving, Version, Image
<1>12. CASE TouchFlag /\ KeptLinux
  BY <1>12, GoingOn DEF TouchFlag, Fails, world, knowledge, card_vars, LinuxPcs, Idle, Importing,
    Saving, Version, Image
<1>13. CASE Release
  BY <1>13 DEF Release, world, knowledge, card_vars, LinuxPcs, Idle, Importing, Saving, Version,
    Image
<1>14. CASE Outage \/ NetworkBack
  BY <1>14 DEF Outage, NetworkBack, world, knowledge, card_vars, LinuxPcs, Idle, Importing, Saving,
    Version, Image
<1>15. CASE Power
  BY <1>15, Cutting DEF Mixed, LinuxPcs, Idle, Importing, Saving, Version, Image
<1>16. CASE UNCHANGED vars
  BY <1>16 DEF vars, world, knowledge, card_vars, LinuxPcs, Idle, Importing, Saving, Version, Image
<1> QED BY <1>1, <1>2, <1>3, <1>4, <1>5, <1>6, <1>7, <1>8, <1>9, <1>10, <1>11, <1>12, <1>13, <1>14,
  <1>15, <1>16 DEF Steps

\* No step takes the card back to an older version.
LEMMA InOrderStep == TypeInv /\ Stages /\ InOrder /\ [Next]_vars => InOrder'
<1> SUFFICES ASSUME TypeInv, Stages, InOrder, Steps PROVE InOrder'
  BY AllSteps
<1>0. card \in CardType /\ booted \in Version /\ published \in Version
  BY DEF TypeInv, FullTypeOK
<1> USE <1>0, CardFields, InLinux DEF InOrder, Stages, Unharmed, FlashPcs, None, Kept, KeptLinux,
  SameSystem, SameUpdate
<1>1. CASE Start /\ Kept
  BY <1>1, LinuxAssumption DEF Start, world, knowledge, card_vars, LinuxPcs, Idle, Importing,
    Saving, Version, Image
<1>2. CASE Import /\ Kept
  BY <1>2, LinuxAssumption, Sourcing DEF Import, world, knowledge, card_vars, LinuxPcs, Idle,
    Importing, Saving, Version, Image
<1>3. CASE FixCertificates /\ Kept
  BY <1>3, LinuxAssumption, Fixing DEF FixCertificates, world, knowledge, card_vars, LinuxPcs,
    Idle, Importing, Saving, Version, Image
<1>4. CASE Save /\ Kept
  BY <1>4, LinuxAssumption, GoingOn DEF Save, Fails, world, knowledge, card_vars, LinuxPcs, Idle,
    Importing, Saving, Version, Image
<1>5. CASE End /\ Kept
  BY <1>5, LinuxAssumption DEF End, WillReboot, world, knowledge, card_vars, LinuxPcs, Idle,
    Importing, Saving, Version, Image
<1>6. CASE CheckVersion /\ KeptLinux
  BY <1>6, LinuxAssumption, GoingOn DEF CheckVersion, world, knowledge, card_vars, LinuxPcs, Idle,
    Importing, Saving, Version, Image
<1>7. CASE (FetchImage \/ FetchTool) /\ KeptLinux
  BY <1>7, LinuxAssumption, Fetching DEF FetchImage, FetchTool, world, knowledge, card_vars,
    LinuxPcs, Idle, Importing, Saving, Version, Image
<1>8. CASE Gunzip /\ KeptLinux
  BY <1>8, LinuxAssumption, Unpacking DEF Gunzip, world, knowledge, card_vars, LinuxPcs, Idle,
    Importing, Saving, Version, Image
<1>9. CASE Extract /\ KeptLinux
  BY <1>9, LinuxAssumption, Extracting DEF Extract, world, knowledge, card_vars, LinuxPcs, Idle,
    Importing, Saving, Version, Image
<1>10. CASE RestoreUserFiles /\ KeptLinux
  BY <1>10, LinuxAssumption, Restoring DEF RestoreUserFiles, world, knowledge, card_vars, LinuxPcs,
    Idle, Importing, Saving, Version, Image
<1>11. CASE Flash /\ KeptLinux
  <2>0. run \in Saving /\ run.version \in Version /\ run.version <= published
    BY <1>11 DEF Flash, LinuxPcs, FlashPcs, TypeInv, Saving
  <2>1. /\ run'.version = run.version /\ run'.pc \in FlashPcs \cup {"touch"}
        /\ UNCHANGED <<booted, published>>
    BY <1>11, Flashing DEF Flash
  <2>2. booted # run.version
    BY <1>11 DEF Flash, LinuxPcs
  <2>3. CASE Flashed /\ defects' = defects
    <3>1. Unharmed => card'.img.v = card.img.v \/ card'.img.v = run.version
      BY <2>3 DEF Flashed
    <3>2. Unharmed => card.img.v <= run.version
      BY <1>11 DEF Flash, LinuxPcs
    <3>3. card.img.v \in Nat /\ booted \in Nat /\ run.version \in Nat /\ published \in Nat
      BY <2>0 DEF Image, Version
    <3> QED BY <2>0, <2>1, <2>2, <2>3, <3>1, <3>2, <3>3
  <2>4. CASE defects' = defects \cup {"silent"}
    BY <2>1, <2>2, <2>4
  <2> QED BY <1>11, <2>3, <2>4, Flashing
<1>12. CASE TouchFlag /\ KeptLinux
  BY <1>12, LinuxAssumption, GoingOn DEF TouchFlag, Fails, world, knowledge, card_vars, LinuxPcs,
    Idle, Importing, Saving, Version, Image
<1>13. CASE Release
  BY <1>13, LinuxAssumption DEF Release, world, knowledge, card_vars, LinuxPcs, Idle, Importing,
    Saving, Version, Image
<1>14. CASE Outage \/ NetworkBack
  BY <1>14, LinuxAssumption DEF Outage, NetworkBack, world, knowledge, card_vars, LinuxPcs, Idle,
    Importing, Saving, Version, Image
<1>15. CASE Power
  BY <1>15, LinuxAssumption, Cutting DEF Mixed, LinuxPcs, Idle, Importing, Saving, Version, Image
<1>16. CASE UNCHANGED vars
  BY <1>16, LinuxAssumption DEF vars, world, knowledge, card_vars, LinuxPcs, Idle, Importing,
    Saving, Version, Image
<1> QED BY <1>1, <1>2, <1>3, <1>4, <1>5, <1>6, <1>7, <1>8, <1>9, <1>10, <1>11, <1>12, <1>13, <1>14,
  <1>15, <1>16 DEF Steps

\* The flag is set after an update to another version, and a reboot or a cut clears it.
LEMMA FlagInvStep == TypeInv /\ Stages /\ InOrder /\ FlagInv /\ [Next]_vars => FlagInv'
<1> SUFFICES ASSUME TypeInv, Stages, InOrder, FlagInv, Steps PROVE FlagInv'
  BY AllSteps
<1>0. card \in CardType /\ booted \in Version /\ published \in Version
  BY DEF TypeInv, FullTypeOK
<1> USE <1>0, CardFields, InLinux DEF FlagInv, Stages, InOrder, Unharmed, FlashPcs, None, Kept,
  KeptLinux, SameSystem, SameUpdate
<1>1. CASE Start /\ Kept
  BY <1>1, LinuxAssumption DEF Start, world, knowledge, card_vars, LinuxPcs, Idle, Importing,
    Saving, Version, Image
<1>2. CASE Import /\ Kept
  BY <1>2, LinuxAssumption, Sourcing DEF Import, world, knowledge, card_vars, LinuxPcs, Idle,
    Importing, Saving, Version, Image
<1>3. CASE FixCertificates /\ Kept
  BY <1>3, LinuxAssumption, Fixing DEF FixCertificates, world, knowledge, card_vars, LinuxPcs,
    Idle, Importing, Saving, Version, Image
<1>4. CASE Save /\ Kept
  BY <1>4, LinuxAssumption, GoingOn DEF Save, Fails, world, knowledge, card_vars, LinuxPcs, Idle,
    Importing, Saving, Version, Image
<1>5. CASE End /\ Kept
  BY <1>5, LinuxAssumption DEF End, WillReboot, world, knowledge, card_vars, LinuxPcs, Idle,
    Importing, Saving, Version, Image
<1>6. CASE CheckVersion /\ KeptLinux
  BY <1>6, LinuxAssumption, GoingOn DEF CheckVersion, world, knowledge, card_vars, LinuxPcs, Idle,
    Importing, Saving, Version, Image
<1>7. CASE (FetchImage \/ FetchTool) /\ KeptLinux
  BY <1>7, LinuxAssumption, Fetching DEF FetchImage, FetchTool, world, knowledge, card_vars,
    LinuxPcs, Idle, Importing, Saving, Version, Image
<1>8. CASE Gunzip /\ KeptLinux
  BY <1>8, LinuxAssumption, Unpacking DEF Gunzip, world, knowledge, card_vars, LinuxPcs, Idle,
    Importing, Saving, Version, Image
<1>9. CASE Extract /\ KeptLinux
  BY <1>9, LinuxAssumption, Extracting DEF Extract, world, knowledge, card_vars, LinuxPcs, Idle,
    Importing, Saving, Version, Image
<1>10. CASE RestoreUserFiles /\ KeptLinux
  BY <1>10, LinuxAssumption, Restoring DEF RestoreUserFiles, world, knowledge, card_vars, LinuxPcs,
    Idle, Importing, Saving, Version, Image
<1>11. CASE Flash /\ KeptLinux
  BY <1>11, LinuxAssumption, Flashing DEF Flash, Flashed, world, knowledge, card_vars, LinuxPcs,
    Idle, Importing, Saving, Version, Image
<1>12. CASE TouchFlag /\ KeptLinux
  BY <1>12, LinuxAssumption, GoingOn DEF TouchFlag, Fails, world, knowledge, card_vars, LinuxPcs,
    Idle, Importing, Saving, Version, Image
<1>13. CASE Release
  BY <1>13, LinuxAssumption DEF Release, world, knowledge, card_vars, LinuxPcs, Idle, Importing,
    Saving, Version, Image
<1>14. CASE Outage \/ NetworkBack
  BY <1>14, LinuxAssumption DEF Outage, NetworkBack, world, knowledge, card_vars, LinuxPcs, Idle,
    Importing, Saving, Version, Image
<1>15. CASE Power
  BY <1>15, LinuxAssumption, Cutting DEF Mixed, LinuxPcs, Idle, Importing, Saving, Version, Image
<1>16. CASE UNCHANGED vars
  BY <1>16, LinuxAssumption DEF vars, world, knowledge, card_vars, LinuxPcs, Idle, Importing,
    Saving, Version, Image
<1> QED BY <1>1, <1>2, <1>3, <1>4, <1>5, <1>6, <1>7, <1>8, <1>9, <1>10, <1>11, <1>12, <1>13, <1>14,
  <1>15, <1>16 DEF Steps

\* A flash that is torn was one to a later version than that of the image.
LEMMA WholeStep == TypeInv /\ Stages /\ InOrder /\ Whole /\ [Next]_vars => Whole'
<1> SUFFICES ASSUME TypeInv, Stages, InOrder, Whole, Steps PROVE Whole'
  BY AllSteps
<1>0. card \in CardType /\ booted \in Version /\ published \in Version
  BY DEF TypeInv, FullTypeOK
<1> USE <1>0, CardFields, InLinux DEF Whole, Stages, InOrder, Unharmed, FlashPcs, None, Kept,
  KeptLinux, SameSystem, SameUpdate
<1>1. CASE Start /\ Kept
  BY <1>1, LinuxAssumption DEF Start, world, knowledge, card_vars, LinuxPcs, Idle, Importing,
    Saving, Version, Image
<1>2. CASE Import /\ Kept
  BY <1>2, LinuxAssumption, Sourcing DEF Import, world, knowledge, card_vars, LinuxPcs, Idle,
    Importing, Saving, Version, Image
<1>3. CASE FixCertificates /\ Kept
  BY <1>3, LinuxAssumption, Fixing DEF FixCertificates, world, knowledge, card_vars, LinuxPcs,
    Idle, Importing, Saving, Version, Image
<1>4. CASE Save /\ Kept
  BY <1>4, LinuxAssumption, GoingOn DEF Save, Fails, world, knowledge, card_vars, LinuxPcs, Idle,
    Importing, Saving, Version, Image
<1>5. CASE End /\ Kept
  BY <1>5, LinuxAssumption DEF End, WillReboot, world, knowledge, card_vars, LinuxPcs, Idle,
    Importing, Saving, Version, Image
<1>6. CASE CheckVersion /\ KeptLinux
  BY <1>6, LinuxAssumption, GoingOn DEF CheckVersion, world, knowledge, card_vars, LinuxPcs, Idle,
    Importing, Saving, Version, Image
<1>7. CASE (FetchImage \/ FetchTool) /\ KeptLinux
  BY <1>7, LinuxAssumption, Fetching DEF FetchImage, FetchTool, world, knowledge, card_vars,
    LinuxPcs, Idle, Importing, Saving, Version, Image
<1>8. CASE Gunzip /\ KeptLinux
  BY <1>8, LinuxAssumption, Unpacking DEF Gunzip, world, knowledge, card_vars, LinuxPcs, Idle,
    Importing, Saving, Version, Image
<1>9. CASE Extract /\ KeptLinux
  BY <1>9, LinuxAssumption, Extracting DEF Extract, world, knowledge, card_vars, LinuxPcs, Idle,
    Importing, Saving, Version, Image
<1>10. CASE RestoreUserFiles /\ KeptLinux
  BY <1>10, LinuxAssumption, Restoring DEF RestoreUserFiles, world, knowledge, card_vars, LinuxPcs,
    Idle, Importing, Saving, Version, Image
<1>11. CASE Flash /\ KeptLinux
  <2>0. /\ run \in Saving /\ run.version <= published
        /\ run.version \in Nat /\ published \in Nat /\ card.img.v \in Nat
    BY <1>11 DEF Flash, LinuxPcs, FlashPcs, TypeInv, Saving, Version, Image
  <2>1. published' = published
    BY <1>11
  <2>2. CASE Flashed /\ defects' = defects /\ Unharmed
    <3>1. card.img.v <= run.version
      BY <1>11, <2>2 DEF Flash, LinuxPcs
    <3>2. CASE card.img.v < run.version
      BY <2>0, <2>1, <2>2, <3>2 DEF Flashed
    <3>3. CASE card.img.v = run.version
      BY <2>0, <2>1, <2>2, <3>3 DEF Flashed
    <3> QED BY <2>0, <3>1, <3>2, <3>3
  <2>3. CASE "silent" \in defects'
    BY <2>3
  <2> QED BY <1>11, <2>2, <2>3, Flashing
<1>12. CASE TouchFlag /\ KeptLinux
  BY <1>12, LinuxAssumption, GoingOn DEF TouchFlag, Fails, world, knowledge, card_vars, LinuxPcs,
    Idle, Importing, Saving, Version, Image
<1>13. CASE Release
  BY <1>13, LinuxAssumption DEF Release, world, knowledge, card_vars, LinuxPcs, Idle, Importing,
    Saving, Version, Image
<1>14. CASE Outage \/ NetworkBack
  BY <1>14, LinuxAssumption DEF Outage, NetworkBack, world, knowledge, card_vars, LinuxPcs, Idle,
    Importing, Saving, Version, Image
<1>15. CASE Power
  <2>0. published' = published /\ card'.img = card.img /\ (Unharmed' => Unharmed)
    BY <1>15, Cutting
  <2>1. CASE card'.kernel = card.kernel /\ card'.boot = card.boot
    BY <2>0, <2>1
  <2>2. ASSUME Unharmed, run.pc \in {"rsync", "boot"}, ~(card.img.v < published)
        PROVE  card.img.v = run.version
    <3>1. run \in Saving /\ run.version <= published /\ card.img.v <= run.version
      BY <2>2 DEF LinuxPcs, TypeInv
    <3> QED BY <2>2, <3>1 DEF Saving, Version, Image
  <2>3. CASE run.pc = "rsync" /\ card'.kernel = Mixed(card.kernel, card.rest) /\ card'.boot = card.boot
    BY <2>0, <2>2, <2>3 DEF Mixed
  <2>4. CASE run.pc = "boot" /\ card'.boot = Mixed(card.boot, card.kernel) /\ card'.kernel = card.kernel
    BY <2>0, <2>2, <2>4 DEF Mixed
  <2> QED BY <1>15, <2>1, <2>3, <2>4, Cutting
<1>16. CASE UNCHANGED vars
  BY <1>16, LinuxAssumption DEF vars, world, knowledge, card_vars, LinuxPcs, Idle, Importing,
    Saving, Version, Image
<1> QED BY <1>1, <1>2, <1>3, <1>4, <1>5, <1>6, <1>7, <1>8, <1>9, <1>10, <1>11, <1>12, <1>13, <1>14,
  <1>15, <1>16 DEF Steps

-----------------------------------------------------------------------------
(* 3. The theorems *)

FullInv == TypeInv /\ UserInv /\ Stages /\ InOrder /\ FlagInv /\ Whole

\* A fresh card, that no session has touched.
LEMMA FullInit == Init => FullInv
<1> SUFFICES ASSUME Init PROVE FullInv
  OBVIOUS
<1> USE LinuxAssumption DEF Init
<1>1. 1 \in Version
  BY DEF Version
<1>2. card \in CardType /\ card.img = [v |-> 1, user |-> custom] /\ card.next = None
      /\ card.update = None /\ card.kernel = 1 /\ card.boot = 1
  BY <1>1 DEF CardType, Image, None
<1>3. run.pc = "idle" /\ run = Idle /\ run \notin Saving
  BY DEF Idle, Saving, LinuxPcs, FlashPcs
<1>4. TypeInv
  <2>1. stored \in 0..published /\ published \in Version /\ booted \in Version
    BY <1>1
  <2>2. custom \in BOOLEAN /\ flag \in BOOLEAN /\ cert \in {"good", "bad", "empty", "none"}
        /\ defects \subseteq {"silent", "tool"}
    OBVIOUS
  <2> QED BY <1>2, <1>3, <2>1, <2>2 DEF TypeInv, FullTypeOK
<1>5. UserInv /\ Stages
  BY <1>2, <1>3 DEF UserInv, Stages, FlashPcs
<1>6. InOrder /\ FlagInv /\ Whole
  BY <1>2, <1>3 DEF InOrder, FlagInv, Whole, LinuxPcs, FlashPcs
<1> QED BY <1>4, <1>5, <1>6 DEF FullInv

\* The parts of the invariant together are kept by every step.
LEMMA FullStep == FullInv /\ [Next]_vars => FullInv'
BY TypeInvStep, UserInvStep, StagesStep, InOrderStep, FlagInvStep, WholeStep DEF FullInv

\* The inductive invariant holds in every behaviour.
THEOREM FullInvariant == Spec => []FullInv
BY FullInit, FullStep, PTL DEF Spec

\* The variables have their types in every behaviour (FullRun!FullTypeOK).
THEOREM FullTyped == Spec => []FullTypeOK
<1>1. FullInv => FullTypeOK BY DEF FullInv, TypeInv
<1> QED BY <1>1, FullInvariant, PTL

\* The files of the user are in every image the system starts from, however many
\* updates follow one another and wherever they fail or are cut.
THEOREM UserFilesAreKept == Spec => []UserFilesKept
<1>1. FullInv => UserFilesKept BY DEF FullInv, UserInv, UserFilesKept
<1> QED BY <1>1, FullInvariant, PTL

\* No session ends with files of two versions on the card while the version that
\* runs is the one that is published: the next one does not take it for done.
THEOREM TornFlashSeen == Spec => []TornFlashIsSeen
<1>1. FullInv => TornFlashIsSeen
  BY DEF FullInv, TypeInv, FullTypeOK, CardType, Image, Version, InOrder, Whole, Unharmed,
    TornFlashIsSeen
<1> QED BY <1>1, FullInvariant, PTL

\* The flag that makes the updater reboot stands for an image of another version.
THEOREM RebootsIntoNew == Spec => []RebootIntoNew
<1>1. FullInv => RebootIntoNew BY DEF FullInv, FlagInv, Unharmed, RebootIntoNew
<1> QED BY <1>1, FullInvariant, PTL

=============================================================================
