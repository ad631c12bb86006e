------------------------------ MODULE Fastboot ------------------------------
(***************************************************************************)
(* tools/fastboot: the command line becomes a queue of actions, which are  *)
(* carried out against the boot loader of a device until one fails.        *)
(*                                                                         *)
(* fastboot.c builds the queue, engine.c runs it, and protocol.c speaks to *)
(* the device, which is modelled as far as protocol.c relies on it: a      *)
(* command is answered with any number of INFO, and OKAY or FAIL; only     *)
(* "download" with DATA, the image, and then OKAY or FAIL.                 *)
(***************************************************************************)
EXTENDS Integers, Sequences, SequencesExt

CONSTANTS
  Phrases,       \* sequences of words, of which command lines are made
  MaxPhrases,    \* bound: phrases of a command line
  Directories,   \* the sets of files that can be loaded
  Infos,         \* contents of android-info.txt: requirement lines, and whether the last
                 \* one ends with a newline
  Archives,      \* files that are archives
  Signatures,    \* files of 256 bytes
  Variables,     \* what a device may say about itself
  Size,          \* of each image, in units of a transfer
  MaxInfo,       \* bound: INFO answers to one command
  Faults         \* "fail", "lost", "unknown", "large", "short", "okay"

VARIABLES
  fb,            \* main(): the command line, the queue, and the exchange that is under way;
                 \* line and info are the command line and the first requirements of it
  dev            \* the boot loader, and the messages between the two

vars == <<fb, dev>>

Partitions == {"boot", "recovery", "system", "userdata", "cache"}
NoImage == [img |-> "none", len |-> 0]

-----------------------------------------------------------------------------
(* engine.c: the actions of the queue                                      *)

Action(op, cmd, arg, func) ==
  [op |-> op, cmd |-> cmd, arg |-> arg, func |-> func, values |-> {}]

fb_queue_erase(ptn) == <<Action("command", "erase", ptn, "default")>>
fb_queue_download(img) == <<Action("download", "download", img, "default")>>
fb_queue_command(cmd) == <<Action("command", cmd, "none", "default")>>
fb_queue_flash(ptn, img) ==
  fb_queue_download(img) \o <<Action("command", "flash", ptn, "default")>>
fb_queue_display(var) == <<Action("query", "getvar", var, "display")>>
fb_queue_notice == <<Action("notice", "none", "none", "none")>>
fb_queue_reboot == <<Action("command", "reboot", "none", "do_nothing")>>
fb_queue_require(line) ==
  <<[Action("query", "getvar", IF line.name = "board" THEN "product" ELSE line.name,
            IF line.invert THEN "reject" ELSE "require") EXCEPT !.values = line.values]>>

\* A value that ends with a star, and is more than the star, is a prefix.
match(str, values) ==
  \E val \in values :
    IF Len(val) > 1 /\ Last(val) = "*" THEN IsPrefix(Front(val), str) ELSE val = str

\* What the callback of an action makes of a status and the answer of the device.
callback(a, status, resp) ==
  IF a.func = "do_nothing" THEN 0
  ELSE IF status # 0 \/ a.func \in {"default", "display"} THEN status
  ELSE IF match(resp, a.values) = (a.func = "require") THEN 0 ELSE -1

-----------------------------------------------------------------------------
(* fastboot.c: the queue of a command line                                 *)

\* setup_requirements(): the lines that end with a newline and have an '='.
Terminated(info) == IF info.newline THEN info.lines ELSE Front(info.lines)
setup_requirements(info) ==
  FlattenSeq([n \in DOMAIN Terminated(info) |->
    IF Terminated(info)[n].name = "none" THEN << >>
    ELSE fb_queue_require(Terminated(info)[n])])

queue_info_dump ==
  fb_queue_notice \o fb_queue_display("version-bootloader")
    \o fb_queue_display("version-baseband") \o fb_queue_display("serialno") \o fb_queue_notice

\* The signature of an image, when there is one, goes before it.
Signature(have, sig) ==
  IF sig \in have THEN fb_queue_download(sig) \o fb_queue_command("signature") ELSE << >>

\* The images of do_update() and do_flashall(): boot and system must be there.
Images(have) ==
  Signature(have, "boot.sig") \o fb_queue_flash("boot", "boot.img")
    \o (IF "recovery.img" \in have
        THEN Signature(have, "recovery.sig") \o fb_queue_flash("recovery", "recovery.img")
        ELSE << >>)
    \o Signature(have, "system.sig") \o fb_queue_flash("system", "system.img")

\* What an archive of old says instead of android-info.txt.
Fallback ==
  [lines |-> <<[name |-> "board", invert |-> FALSE, values |-> {<<"a">>}],
               [name |-> "version-baseband", invert |-> FALSE, values |-> {<<"0">>}]>>,
   newline |-> TRUE]

\* The file of a partition.
find_item(ptn) ==
  IF ptn \in {"boot", "recovery", "system", "userdata"}
  THEN [boot |-> "boot.img", recovery |-> "recovery.img", system |-> "system.img",
        userdata |-> "userdata.img"][ptn]
  ELSE "none"

Word(w) == fb.pc = "main" /\ fb.argv # << >> /\ Head(fb.argv) = w
argc == Len(fb.argv)

\* skip() of some words, and the actions they add to the queue.
Skip(n) == SubSeq(fb.argv, n + 1, argc)
Queue(n, actions) == fb' = [fb EXCEPT !.argv = Skip(n), !.queue = @ \o actions]

\* die(), usage() and the returns of main() before the queue is run.
Die == fb' = [fb EXCEPT !.pc = "exit", !.code = 1]

Options == {"-b", "-n", "-s", "-p", "-c", "-i"}
Commands ==
  {"getvar", "erase", "signature", "reboot", "reboot-bootloader", "continue", "boot", "flash",
   "flash:raw", "flashall", "update", "oem"}

\* The option -w, the ones with a value, and what is neither option nor command; to list
\* the devices is all that is done.
MainOption ==
  \/ Word("-w") /\ fb' = [fb EXCEPT !.argv = Skip(1), !.wants_wipe = TRUE]
  \/ \E o \in Options :
       /\ Word(o)
       /\ IF argc < 2 \/ (o = "-n" /\ fb.argv[2] = "0") \/ (o = "-i" /\ fb.argv[2] = "bad")
          THEN Die ELSE Queue(2, << >>)
  \/ Word("devices") /\ fb.argv = fb.line /\ fb' = [fb EXCEPT !.pc = "exit"]
  \/ /\ fb.pc = "main" /\ argc > 0 /\ Head(fb.argv) \notin {"-w"} \cup Options \cup Commands
     /\ ~(Word("devices") /\ fb.argv = fb.line)
     /\ Die

\* Commands of one or two actions.
MainSimple ==
  \/ Word("getvar") /\ IF argc < 2 THEN Die ELSE Queue(2, fb_queue_display(fb.argv[2]))
  \/ Word("erase") /\ IF argc < 2 THEN Die ELSE Queue(2, fb_queue_erase(fb.argv[2]))
  \/ Word("continue") /\ Queue(1, fb_queue_command("continue"))
  \/ /\ Word("signature")
     /\ \E have \in Directories :
          IF argc < 2 \/ fb.argv[2] \notin have \cap Signatures THEN Die
          ELSE Queue(2, fb_queue_download(fb.argv[2]) \o fb_queue_command("signature"))
  \/ Word("reboot") /\ fb' = [fb EXCEPT !.argv = Skip(1), !.wants_reboot = TRUE]
  \/ Word("reboot-bootloader")
       /\ fb' = [fb EXCEPT !.argv = Skip(1), !.wants_reboot_bootloader = TRUE]

\* The rest of the line is the text of the command, and there is one only if it has some.
do_oem_command ==
  Word("oem") /\ Queue(argc, IF argc = 1 THEN << >> ELSE fb_queue_command("oem"))

\* load_bootable_image(): a boot image as it is, which takes no ramdisk, or one that is
\* made of a kernel (any other file) and a ramdisk.
load_bootable_image(have, kernel, ramdisk) ==
  IF kernel \notin have THEN "none"
  ELSE IF kernel = "boot.img" THEN (IF ramdisk = "none" THEN kernel ELSE "none")
  ELSE IF ramdisk # "none" /\ ramdisk \notin have THEN "none"
  ELSE "made"

\* The word n, if there is one: the files of "boot" and "flash" are the words that follow,
\* also when these are commands.
Argument(n) == IF n <= argc THEN fb.argv[n] ELSE "none"
Upto(n) == IF n <= argc THEN n ELSE argc

MainBoot ==
  \E have \in Directories :
    /\ Word("boot")
    /\ LET img == load_bootable_image(have, Argument(2), Argument(3))
       IN IF img = "none" THEN Die
          ELSE Queue(Upto(3), fb_queue_download(img) \o fb_queue_command("boot"))

MainFlash ==
  \E have \in Directories :
    \/ /\ Word("flash")
       /\ LET fname == IF argc > 2 THEN fb.argv[3] ELSE find_item(Argument(2))
          IN IF argc < 2 \/ fname \notin have THEN Die
             ELSE Queue(Upto(3), fb_queue_flash(fb.argv[2], fname))
    \/ /\ Word("flash:raw")
       /\ LET img == load_bootable_image(have, Argument(3), Argument(4))
          IN IF argc < 3 \/ img = "none" THEN Die
             ELSE Queue(Upto(4), fb_queue_flash(fb.argv[2], img))

\* do_update() and do_flashall(), of the files of an archive or of a directory.  The word
\* after "update" is the name of the archive.
do_flashall ==
  \E have \in Directories, info \in Infos, w \in {"flashall", "update"} :
    /\ Word(w)
    /\ LET archive == IF argc > 1 THEN fb.argv[2] ELSE "update.zip"
           fallback == w = "update" /\ "android-product.txt" \in have
           file == IF "android-info.txt" \in have THEN info ELSE Fallback
       IN IF \/ w = "update" /\ archive \notin Archives
             \/ "android-info.txt" \notin have /\ ~fallback
             \/ "boot.img" \notin have \/ "system.img" \notin have
          THEN Die
          ELSE fb' = [fb EXCEPT !.argv = Skip(IF w = "update" THEN Upto(2) ELSE 1),
                        !.wants_reboot = TRUE,
                        !.info = IF @.lines = << >> THEN file ELSE @,
                        !.queue = @ \o queue_info_dump \o setup_requirements(file)
                                    \o Images(have)]

\* A mutant: partitions are erased before what the command line asks for.
MainEndWipesFirst ==
  /\ fb.pc = "main" /\ fb.argv = << >>
  /\ fb' = [fb EXCEPT !.pc = "run",
       !.queue = (IF fb.wants_wipe THEN fb_queue_erase("userdata") \o fb_queue_erase("cache")
                  ELSE << >>) \o @ \o
                 (IF fb.wants_reboot THEN fb_queue_reboot ELSE << >>)]
  /\ UNCHANGED dev

\* The end of the line: what comes last, then the device is waited for.
MainEnd ==
  /\ fb.pc = "main" /\ fb.argv = << >>
  /\ fb' = [fb EXCEPT !.pc = "run",
       !.queue = @ \o
         (IF fb.wants_wipe THEN fb_queue_erase("userdata") \o fb_queue_erase("cache") ELSE << >>)
         \o (IF fb.wants_reboot THEN fb_queue_reboot
             ELSE IF fb.wants_reboot_bootloader THEN fb_queue_command("reboot-bootloader")
             ELSE << >>)]
  /\ UNCHANGED dev

MainWord ==
  /\ MainOption \/ MainSimple \/ do_oem_command \/ MainBoot \/ MainFlash \/ do_flashall
  /\ UNCHANGED dev

-----------------------------------------------------------------------------
(* engine.c and protocol.c: running the queue                              *)

A == fb.queue[fb.at]

\* The action has ended with a status: the next one, or the end of fb_execute_queue().
Done(status, resp) ==
  IF callback(A, status, resp) # 0
  THEN [fb EXCEPT !.pc = "exit"]
  ELSE [fb EXCEPT !.pc = "run", !.at = @ + 1, !.left = 0]

\* An action that fails with usb_close().
Closed == [Done(-1, << >>) EXCEPT !.closed = TRUE]

Broken == dev.st = "gone"

fb_execute_queue ==
  /\ fb.pc = "run"
  /\ \/ /\ fb.at > Len(fb.queue)
        /\ fb' = [fb EXCEPT !.pc = "exit"]
     \/ /\ fb.at <= Len(fb.queue) /\ A.op = "notice"
        /\ fb' = [fb EXCEPT !.at = @ + 1]
  /\ UNCHANGED dev

\* _command_send(): the command is written.
_command_send ==
  /\ fb.pc = "run" /\ fb.at <= Len(fb.queue) /\ A.op # "notice"
  /\ IF Broken THEN fb' = Closed /\ UNCHANGED dev
     ELSE /\ fb' = [fb EXCEPT !.pc = IF A.op = "download" THEN "size" ELSE "status"]
          /\ dev' = [dev EXCEPT !.toDev = <<A>>]

\* The answer of the device, other than INFO, in the three places it is waited for.
check_response ==
  /\ fb.pc \in {"size", "status", "final"}
  /\ \/ /\ Broken /\ dev.toHost = << >>
        /\ fb' = Closed /\ UNCHANGED dev
     \/ /\ dev.toHost # << >>
        /\ dev' = [dev EXCEPT !.toHost = Tail(@)]
        /\ LET r == Head(dev.toHost)
           IN CASE r.st = "INFO" -> fb' = fb
                [] r.st = "OKAY" ->
                     fb' = IF fb.pc = "size" THEN [fb EXCEPT !.pc = "final"]
                           ELSE Done(0, r.resp)
                [] r.st = "FAIL" -> fb' = Done(-1, << >>)
                [] r.st = "DATA" /\ fb.pc = "size" ->
                     fb' = IF r.n > Size[A.arg] THEN Closed
                           ELSE IF r.n = 0 THEN [fb EXCEPT !.pc = "final"]
                           ELSE [fb EXCEPT !.pc = "data", !.left = r.n]
                [] OTHER -> fb' = Closed

\* The image, as much of it as the device has asked for.
SendData ==
  /\ fb.pc = "data"
  /\ IF Broken THEN fb' = Closed /\ UNCHANGED dev
     ELSE /\ fb' = [fb EXCEPT !.left = @ - 1, !.pc = IF fb.left = 1 THEN "final" ELSE "data"]
          /\ dev' = [dev EXCEPT !.buf = [img |-> A.arg, len |-> @.len + 1]]

-----------------------------------------------------------------------------
(* The boot loader                                                         *)

Reply(st, resp, n) == [st |-> st, resp |-> resp, n |-> n]

\* It takes a command, and may send some INFO.
DevTakes ==
  /\ dev.st = "idle" /\ dev.toDev # << >>
  /\ dev' = [dev EXCEPT !.st = "busy", !.cmd = dev.toDev, !.toDev = << >>, !.infos = 0]
  /\ UNCHANGED fb

DevInfo ==
  /\ dev.st \in {"busy", "check"} /\ dev.infos < MaxInfo
  /\ dev' = [dev EXCEPT !.toHost = Append(@, Reply("INFO", << >>, 0)), !.infos = @ + 1]
  /\ UNCHANGED fb

Answers(d, reply) == [d EXCEPT !.st = "idle", !.cmd = << >>, !.toHost = Append(@, reply)]
OKAY == Reply("OKAY", << >>, 0)

\* It carries out a command, and answers.
DevDoes ==
  /\ dev.st = "busy"
  /\ LET a == dev.cmd[1] IN
     \/ a.cmd = "getvar" /\
          dev' = Answers(dev, IF a.arg \in DOMAIN dev.vars
                              THEN Reply("OKAY", dev.vars[a.arg], 0) ELSE OKAY)
     \/ a.cmd = "download" /\ \E n \in {Size[a.arg]} \cup
            (IF "large" \in Faults THEN {Size[a.arg] + 1} ELSE {})
              \cup (IF "short" \in Faults THEN 0..Size[a.arg] ELSE {}) :
          dev' = [dev EXCEPT !.st = "data", !.want = n, !.buf = [img |-> a.arg, len |-> 0],
                             !.toHost = Append(@, Reply("DATA", << >>, n))]
     \/ a.cmd = "download" /\ "okay" \in Faults /\ dev' = Answers(dev, OKAY)
     \/ /\ a.cmd = "flash" /\ dev.buf # NoImage /\ a.arg \in Partitions
        /\ dev' = Answers([dev EXCEPT !.flash[a.arg] = dev.buf], OKAY)
     \/ /\ (a.cmd = "flash" /\ dev.buf = NoImage)
           \/ (a.cmd \in {"flash", "erase"} /\ a.arg \notin Partitions)
        /\ dev' = Answers(dev, Reply("FAIL", << >>, 0))
     \/ a.cmd = "erase" /\ a.arg \in Partitions
        /\ dev' = Answers([dev EXCEPT !.erased = @ \cup {a.arg}], OKAY)
     \/ a.cmd \in {"signature", "oem"} /\ dev' = Answers(dev, OKAY)
     \/ /\ a.cmd \in {"boot", "continue", "reboot", "reboot-bootloader"}
        /\ dev' = [Answers(dev, OKAY) EXCEPT !.st = "gone"]
  /\ UNCHANGED fb

\* It has the whole image.
DevHasData ==
  /\ dev.st = "data" /\ dev.buf.len = dev.want
  /\ dev' = [dev EXCEPT !.st = "check", !.infos = 0]
  /\ UNCHANGED fb

DevKeepsData ==
  /\ dev.st = "check"
  /\ dev' = Answers(dev, OKAY)
  /\ UNCHANGED fb

\* It refuses a command or an image, or says something else.
DevFails ==
  /\ dev.st \in {"busy", "check"}
  /\ \E st \in (IF "fail" \in Faults THEN {"FAIL"} ELSE {})
                 \cup (IF "unknown" \in Faults THEN {"????"} ELSE {}) :
       dev' = Answers([dev EXCEPT !.buf = IF dev.st = "check" THEN NoImage ELSE @],
                      Reply(st, << >>, 0))
  /\ UNCHANGED fb

Unplug ==
  /\ "lost" \in Faults /\ dev.st # "gone" /\ fb.pc # "main"
  /\ dev' = [dev EXCEPT !.st = "gone", !.toDev = << >>, !.toHost = << >>]
  /\ UNCHANGED fb

DevStep == DevTakes \/ DevDoes \/ DevHasData \/ DevKeepsData \/ DevFails

Init ==
  /\ \E line \in {FlattenSeq(p) : p \in UNION {[1..n -> Phrases] : n \in 1..MaxPhrases}} :
       fb = [pc |-> "main", argv |-> line, line |-> line, queue |-> << >>, at |-> 1,
             wants_wipe |-> FALSE, wants_reboot |-> FALSE, wants_reboot_bootloader |-> FALSE,
             info |-> [lines |-> << >>, newline |-> TRUE], left |-> 0, closed |-> FALSE,
             code |-> 0]
  /\ \E v \in Variables :
       dev = [st |-> "idle", cmd |-> << >>, infos |-> 0, want |-> 0, buf |-> NoImage,
              flash |-> [p \in Partitions |-> NoImage], erased |-> {}, vars |-> v,
              toDev |-> << >>, toHost |-> << >>]

HostStep ==
  MainWord \/ MainEnd \/ fb_execute_queue \/ _command_send \/ check_response \/ SendData

Next == HostStep \/ DevStep \/ DevInfo \/ Unplug

Spec == Init /\ [][Next]_vars

-----------------------------------------------------------------------------

\* The image that the command line says to be for a partition.
Follow(words) ==
  \E i \in 1..(Len(fb.line) + 1 - Len(words)) :
    \A n \in DOMAIN words : fb.line[i + n - 1] = words[n]
ImageOf(p, img) ==
  \/ img = find_item(p)
  \/ Follow(<<"flash", p, img>>)
  \/ img = "boot.img" /\ Follow(<<"flash:raw", p, img>>)
  \/ img = "made" /\ Follow(<<"flash:raw", p>>)

\* Whatever the device refuses on the way, a partition holds the whole of an image that is
\* meant for it, and never what was sent for another one.
FlashedWhole ==
  \A p \in Partitions :
    LET f == dev.flash[p] IN f # NoImage => f.len = Size[f.img] /\ ImageOf(p, f.img)

\* When the command line has an update (an archive or a directory), and what else it
\* erases or flashes is named behind, then the device is not touched, nor wiped by "-w"
\* wherever that stands, unless it is what the terminated lines of android-info.txt require.
UpdateFirst ==
  /\ fb.info.lines # << >>
  /\ \A i, j \in DOMAIN fb.line :
       fb.line[i] \in {"erase", "flash", "flash:raw"} /\ fb.line[j] \in {"update", "flashall"}
         => j < i
RequirementsFirst ==
  LET touched == dev.erased # {} \/ \E p \in Partitions : dev.flash[p] # NoImage
  IN UpdateFirst /\ touched =>
       \A n \in DOMAIN Terminated(fb.info) :
         LET l == Terminated(fb.info)[n]
             var == IF l.name = "board" THEN "product" ELSE l.name
         IN l.name # "none" => match(dev.vars[var], l.values) # l.invert

\* After usb_close() nothing is written or read any more, although "reboot" ignores
\* that it has failed.
ClosedIsLast ==
  fb.closed => fb.pc = "exit" \/ (fb.pc = "run" /\ fb.at > Len(fb.queue))

\* The host waits for the device only while the device has something to do.
HostIsServed ==
  fb.pc \in {"size", "status", "final"} =>
    dev.st \in {"busy", "check", "gone"} \/ dev.toDev # << >> \/ dev.toHost # << >>
      \/ (dev.st = "data" /\ dev.buf.len = dev.want)
=============================================================================
