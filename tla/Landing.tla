------------------------------ MODULE Landing ------------------------------
(***************************************************************************)
(* Where pasted files land (crates/smkvm-cli/src/transfer.rs): the names a *)
(* manifest gives them, the names they can have on this machine's disk,    *)
(* and the disk as they are made one after the other (advance_pull in      *)
(* clipboard.rs).  How their pieces travel is module Files.                *)
(*                                                                         *)
(* A name is a stem and the numbers put after it: <<"a">> is "a" and       *)
(* <<"a", 2>> is "a (2)".  A path is one name, or two for what is in a     *)
(* folder.                                                                 *)
(***************************************************************************)
EXTENDS Naturals, Sequences, SequencesExt

CONSTANTS
  Cleaned,    \* clean_part, on stems
  Known,      \* the stem the disk knows a stem by, which may ignore its case
  Escapes,    \* stems that may lead out of the directory
  Copies,     \* what is copied: sequences of [name, under], under what is in the folder, or None
  Stems,      \* what a person calls files on this machine
  Numbers,    \* the numbers put after a name
  MaxPastes, MaxTrouble,   \* bounds
  None

VARIABLES
  disk,     \* path -> [dir, by, whole]
  pull,     \* the paste that arrives: [said, paths, index, writing], or None
  was,      \* history: the disk when it was planned
  crossed,  \* history: "saved" if a file was saved here while it arrived, "spent" if no
            \* number was left for a name of it
  pastes, trouble

vars == <<disk, pull, was, crossed, pastes, trouble>>

Stem(name, f) == [name EXCEPT ![1] = f[@]]
OnDisk(path) == [i \in DOMAIN path |-> Stem(path[i], Known)]
Exists(path) == OnDisk(path) \in DOMAIN disk

With(f, x, y) == [z \in DOMAIN f \cup {x} |-> IF z = x THEN y ELSE f[z]]

Init ==
  /\ disk = << >> /\ pull = None /\ was = << >> /\ crossed = {}
  /\ pastes = 0 /\ trouble = 0

-----------------------------------------------------------------------------
(* The manifest, and the plan.                                             *)

\* describe and walk: a folder, then what is in it.
Listed(root) ==
  IF root.under = None THEN <<[path |-> <<root.name>>, dir |-> FALSE]>>
  ELSE <<[path |-> <<root.name>>, dir |-> TRUE]>> \o
         [i \in DOMAIN root.under |-> [path |-> <<root.name, root.under[i]>>, dir |-> FALSE]]
Manifest(copy) == FlattenSeq([i \in DOMAIN copy |-> Listed(copy[i])])

TakesTheName(name) == name   \* mutant: what has the name already is not looked for

Free(name) == {n \in Numbers : ~Exists(<<Append(name, n)>>)}

\* unclaimed: the first of "a", "a (2)", "a (3)"... that is not there now, and "a"
\* when there are no more numbers to put after it.
Unclaimed(name) ==
  IF ~Exists(<<name>>) \/ Free(name) = {} THEN name
  ELSE Append(name, CHOOSE n \in Free(name) : \A k \in Free(name) : n <= k)

RunsOut(path) ==
  \E name \in {Stem(path[1], Cleaned)} : Exists(<<name>>) /\ Free(name) = {}

\* plan_landing and usable_parts: each top-level name is placed once, whatever
\* is placed beside it.
Lands(path) ==
  LET named == [i \in DOMAIN path |-> Stem(path[i], Cleaned)]
  IN [named EXCEPT ![1] = Unclaimed(@)]

Refused(said) ==
  said = <<>> \/ \E i \in DOMAIN said : \E j \in DOMAIN said[i].path : said[i].path[j][1] \in Escapes

\* begin_pull, for one paste at a time.
BeginPull(copy) ==
  /\ pull = None /\ pastes < MaxPastes /\ ~Refused(Manifest(copy))
  /\ \E said \in {Manifest(copy)} :
       /\ pull' = [said |-> said, paths |-> [i \in DOMAIN said |-> Lands(said[i].path)],
                   index |-> 1, writing |-> FALSE]
       /\ crossed' = IF \E i \in DOMAIN said : RunsOut(said[i].path) THEN {"spent"} ELSE {}
  /\ pastes' = pastes + 1 /\ was' = disk
  /\ UNCHANGED <<disk, trouble>>

-----------------------------------------------------------------------------
(* The files, in the manifest's order.                                     *)

Path == OnDisk(pull.paths[pull.index])
Above == SubSeq(Path, 1, Len(Path) - 1)

\* create_dir_all: what is above it is made with it, and no file may stand there.
Fits(dir) ==
  /\ \A p \in {Above} \ {<<>>} : p \in DOMAIN disk => disk[p].dir
  /\ Path \in DOMAIN disk => disk[Path].dir = dir

Placed(dir) ==
  LET kept == IF Above = <<>> \/ Above \in DOMAIN disk THEN disk
              ELSE With(disk, Above, [dir |-> TRUE, by |-> None, whole |-> TRUE])
  IN IF dir /\ Path \in DOMAIN disk THEN kept
     ELSE With(kept, Path, [dir |-> dir, by |-> <<pastes, pull.index>>, whole |-> dir])

\* fail_pull and finish_pull: what is half written goes.
GivesUp ==
  /\ disk' = IF pull.writing THEN [p \in DOMAIN disk \ {Path} |-> disk[p]] ELSE disk
  /\ pull' = None

\* advance_pull: a folder, or a file that is begun with nothing in it, in the
\* place of any that has the path.
Advance ==
  /\ pull # None /\ ~pull.writing /\ pull.index <= Len(pull.said)
  /\ \E dir \in {pull.said[pull.index].dir} :
       IF Fits(dir)
         THEN /\ disk' = Placed(dir)
              /\ pull' = IF dir THEN [pull EXCEPT !.index = @ + 1] ELSE [pull EXCEPT !.writing = TRUE]
         ELSE GivesUp
  /\ UNCHANGED <<was, crossed, pastes, trouble>>

\* piece_arrived, with the last of a file.
Finishes ==
  /\ pull # None /\ pull.writing
  /\ disk' = IF Path \in DOMAIN disk THEN [disk EXCEPT ![Path].whole = TRUE] ELSE disk
  /\ pull' = [pull EXCEPT !.writing = FALSE, !.index = @ + 1]
  /\ UNCHANGED <<was, crossed, pastes, trouble>>

\* The sender is gone, the disk is full, or the file is not as long as was said.
Fails ==
  /\ pull # None /\ trouble < MaxTrouble /\ trouble' = trouble + 1
  /\ GivesUp
  /\ UNCHANGED <<was, crossed, pastes>>

Landed == pull # None /\ pull.index > Len(pull.said)

Done == Landed /\ pull' = None /\ UNCHANGED <<disk, was, crossed, pastes, trouble>>

\* A person saves a file in the same directory.
Save(name) ==
  /\ ~Exists(<<name>>) /\ trouble < MaxTrouble /\ trouble' = trouble + 1
  /\ disk' = With(disk, OnDisk(<<name>>), [dir |-> FALSE, by |-> None, whole |-> TRUE])
  /\ IF pull = None
       THEN was' = disk' /\ UNCHANGED crossed
       ELSE crossed' = crossed \cup {"saved"} /\ UNCHANGED was
  /\ UNCHANGED <<pull, pastes>>

Next == \/ \E copy \in Copies : BeginPull(copy)
        \/ Advance \/ Finishes \/ Fails \/ Done
        \/ \E stem \in Stems : Save(<<stem>>)

Spec == Init /\ [][Next]_vars

-----------------------------------------------------------------------------
\* plan_landing: "so nothing that was there is overwritten".  Whatever is pasted
\* and however it ends, under whatever names, what stood in the directory when it
\* began stands there as it was, unless it has a name that was wanted when there was
\* no number left to put after it.  A file saved there meanwhile may be taken over.
WhatWasThereStays ==
  "spent" \notin crossed => \A p \in DOMAIN was : p \in DOMAIN disk /\ disk[p] = was[p]

\* usable_parts: "The file arrives, under a name that is as close as can be
\* written."  A paste that has landed has every file it carried on the disk.  Two
\* names that are made the same, or one made the other's to spare a third, are
\* given one path, and the second file takes the place of the first.
EachFileArrives ==
  Landed /\ crossed = {} => \A i \in DOMAIN pull.said :
    ~pull.said[i].dir => disk[OnDisk(pull.paths[i])].by = <<pastes, i>>
=============================================================================
