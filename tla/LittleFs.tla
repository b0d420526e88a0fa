------------------------------- MODULE LittleFs -------------------------------
(***************************************************************************)
(* The LittleFS sample.  The partition is mounted before main runs (the     *)
(* board's devicetree says automount) and formatted when it holds no file   *)
(* system.  The wipe build erases it and restarts the board, again and      *)
(* again; the ordinary build writes hello.txt and a random number to        *)
(* random.txt and reads the number back.  The file system is external:      *)
(* what a file held when it was closed survives a loss of power.            *)
(***************************************************************************)
EXTENDS Integers, Sequences

CONSTANTS
  MaxDigits,   \* digits of the longest random number (10 in the code)
  FsMaxBoots   \* bound on the boots

ASSUME FsAssumption == MaxDigits \in Nat \ {0} /\ FsMaxBoots \in Nat \ {0}

VARIABLES
  wipeBuild,   \* the board runs the build with CONFIG_APP_WIPE_STORAGE
  formatted,   \* the partition holds a file system
  hello,       \* the boot that wrote hello.txt, 0 without the file
  random,      \* random.txt: for each digit the boot that wrote it
  fsStep,      \* what this boot does next
  number,      \* digits of the number this boot wrote, 0 for none
  readBack,    \* what this boot read from random.txt
  fsBoot,      \* number of this boot
  wipedAt,     \* the last boot that erased the partition, 0 for none (history)
  longest      \* the longest number written since the last format (history)

fsFiles == <<formatted, hello, random>>
fsVars == <<wipeBuild, fsFiles, fsStep, number, readBack, fsBoot, wipedAt, longest>>

FsSteps == {"mount", "wipe", "reboot", "hello", "random", "read", "done"}

FsInit ==
  /\ wipeBuild \in BOOLEAN
  /\ formatted = FALSE /\ hello = 0 /\ random = <<>>
  /\ fsStep = "mount" /\ number = 0 /\ readBack = <<>>
  /\ fsBoot = 1 /\ wipedAt = 0 /\ longest = 0

(* External: mounting, which formats a partition without a file system.      *)
Automount ==
  /\ fsStep = "mount"
  /\ formatted' = TRUE
  /\ IF formatted THEN UNCHANGED <<hello, random, longest>>
                  ELSE hello' = 0 /\ random' = <<>> /\ longest' = 0
  /\ fsStep' = IF wipeBuild THEN "wipe" ELSE "hello"
  /\ UNCHANGED <<wipeBuild, number, readBack, fsBoot, wipedAt>>

(* Mutated form: the wipe ends before anything is erased.                    *)
WipeNothing ==
  /\ fsStep = "wipe"
  /\ wipedAt' = fsBoot
  /\ fsStep' = "reboot"
  /\ UNCHANGED <<wipeBuild, fsFiles, number, readBack, fsBoot, longest>>

(* wipe_if_requested: the partition is erased under the mounted file system; *)
(* a failure to open or to erase it goes unnoticed.                          *)
Wipe ==
  /\ fsStep = "wipe"
  /\ \/ formatted' = FALSE /\ wipedAt' = fsBoot
     \/ UNCHANGED <<formatted, wipedAt>>
  /\ fsStep' = "reboot"
  /\ UNCHANGED <<wipeBuild, hello, random, number, readBack, fsBoot, longest>>

(* The next boot: of the same build after sys_reboot or a loss of power at   *)
(* any point, of either build when the board was flashed.  Power lost during *)
(* the erase leaves the file system whole or unreadable.                     *)
FsRestart ==
  /\ fsBoot < FsMaxBoots
  /\ fsBoot' = fsBoot + 1
  /\ wipeBuild' \in IF fsStep = "reboot" THEN {wipeBuild} ELSE BOOLEAN
  /\ formatted' \in {formatted} \cup (IF fsStep = "wipe" THEN {FALSE} ELSE {})
  /\ fsStep' = "mount" /\ number' = 0 /\ readBack' = <<>>
  /\ UNCHANGED <<hello, random, wipedAt, longest>>

(* hello.txt gets the same text at every boot; an error is skipped over.     *)
WriteHello ==
  /\ fsStep = "hello"
  /\ hello' \in {hello, fsBoot}
  /\ fsStep' = "random"
  /\ UNCHANGED <<wipeBuild, formatted, random, number, readBack, fsBoot, wipedAt, longest>>

(* Mutated form: the file is opened for appending.                           *)
Appended(old, n) == old \o [i \in 1 .. n |-> fsBoot]

(* The digits of a number of n digits over the start of what the file held:  *)
(* it is opened without FS_O_TRUNC and keeps what lies behind.               *)
Overwritten(old, n) == [i \in 1 .. n |-> fsBoot] \o SubSeq(old, n + 1, Len(old))

WriteRandom ==
  /\ fsStep = "random"
  /\ \/ \E n \in 1 .. MaxDigits :
          /\ number' = n
          /\ random' = Overwritten(random, n)
          /\ longest' = IF n > longest THEN n ELSE longest
     \/ UNCHANGED <<number, random, longest>>
  /\ fsStep' = "read"
  /\ UNCHANGED <<wipeBuild, formatted, hello, readBack, fsBoot, wipedAt>>

(* 15 characters are asked for, more than a file ever holds.                 *)
ReadRandom ==
  /\ fsStep = "read"
  /\ readBack' \in {<<>>, random}
  /\ fsStep' = "done"
  /\ UNCHANGED <<wipeBuild, fsFiles, number, fsBoot, wipedAt, longest>>

FsNext == Automount \/ Wipe \/ FsRestart \/ WriteHello \/ WriteRandom \/ ReadRandom

FsSpec == FsInit /\ [][FsNext]_fsVars

-----------------------------------------------------------------------------
(* Properties                                                                *)

Boots == 0 .. FsMaxBoots

FsTypeOK ==
  /\ wipeBuild \in BOOLEAN /\ formatted \in BOOLEAN
  /\ hello \in Boots /\ random \in Seq(Boots) /\ readBack \in Seq(Boots)
  /\ Len(random) <= MaxDigits
  /\ fsStep \in FsSteps
  /\ {number, longest} \subseteq 0 .. MaxDigits
  /\ fsBoot \in 1 .. FsMaxBoots /\ wipedAt \in 0 .. fsBoot

(* "Use this to force an existing file system to be created." (Kconfig:9):   *)
(* once a wipe has erased the partition, and it was mounted again, no file   *)
(* and no digit of an earlier boot is ever seen, whatever power losses and   *)
(* flashed builds come in between.                                           *)
NothingBeforeWipe ==
  formatted => /\ hello = 0 \/ hello > wipedAt
               /\ \A i \in DOMAIN random : random[i] > wipedAt

(* What main reads back starts with the number it has just written; behind   *)
(* it stands the end of earlier and longer numbers, the newest first.        *)
TailIsOlder ==
  readBack # <<>> =>
    /\ Len(readBack) = longest
    /\ \A i \in DOMAIN readBack : i <= number <=> readBack[i] = fsBoot
    /\ \A i, j \in DOMAIN readBack : i < j => readBack[i] >= readBack[j]
=============================================================================
