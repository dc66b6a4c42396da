------------------------------ MODULE Storage ------------------------------
(***************************************************************************)
(* The two filesystems of the board and the three pieces of code that      *)
(* reach them: the fs bindings of a script (bindings_fs.cpp), the script   *)
(* loader and the host commands (jsvm_app.cpp).  They do not agree on what *)
(* an unprefixed path means: the bindings and the host commands take the   *)
(* card whenever one is mounted, the loader falls back from the card to    *)
(* flash file by file.                                                     *)
(*                                                                         *)
(* A text is the sequence of its lines.  Every file is in one folder below *)
(* the root, which a fresh card does not have.                             *)
(***************************************************************************)
EXTENDS Naturals, Sequences

CONSTANTS
  Names,        \* file names
  Line,         \* what a line of a file can be
  NoText,       \* what a read of no file comes to
  MaxScript,    \* kMaxScript of jsvm_app.cpp
  MaxRead,      \* kMaxRead of bindings_fs.cpp
  Mounts,       \* which filesystems the board may come up with
  CardMayFill,  \* a write may come out short
  ScriptTexts,  \* what scripts write and append
  MaxFile       \* bound: lines a file grows to by appending

FileSystems == {"card", "flash"}
Text == Seq(Line)
Path == [flash: BOOLEAN, name: Names]

\* A line is one character and its newline another.
LineLen == 1
Size(t) == (LineLen + 1) * Len(t)

ASSUME StorageAssumption ==
  /\ NoText \notin Text
  /\ MaxScript \in Nat /\ MaxRead \in Nat /\ MaxRead <= MaxScript
  /\ Mounts \subseteq SUBSET FileSystems
  /\ CardMayFill \in BOOLEAN
  /\ ScriptTexts \subseteq Text
  /\ MaxFile \in Nat

VARIABLES
  files,    \* the content of every file
  folders,  \* the filesystems that have the folder
  mounted   \* g_cfg.sd / g_cfg.flash that are not null

storageVars == <<files, folders, mounted>>

StorageTypeOK ==
  /\ files \in [FileSystems -> [Names -> Text \cup {NoText}]]
  /\ folders \subseteq FileSystems
  /\ mounted \in Mounts

StorageInit ==
  /\ files = [d \in FileSystems |-> [n \in Names |-> NoText]]
  /\ folders = {}
  /\ mounted \in Mounts

-----------------------------------------------------------------------------
(* Reading.                                                                *)

\* resolve() / resolveFs(): the filesystem a path goes to, which may be one
\* that is not mounted.
Resolve(p) == IF p.flash \/ "card" \notin mounted THEN "flash" ELSE "card"
Reachable(p) == Resolve(p) \in mounted

Content(d, n, limit) ==
  IF d \in mounted /\ files[d][n] # NoText /\ Size(files[d][n]) <= limit
  THEN files[d][n] ELSE NoText

\* readAll()
ReadAll(d, n) == Content(d, n, MaxScript)

\* Mutant of LoadScript: flash first.
LoadFlashFirst(p) ==
  IF ReadAll("flash", p.name) # NoText \/ p.flash THEN ReadAll("flash", p.name)
  ELSE ReadAll("card", p.name)

\* loadScript(): what starting the app at this path runs.
LoadScript(p) ==
  IF ~p.flash /\ ReadAll("card", p.name) # NoText THEN ReadAll("card", p.name)
  ELSE ReadAll("flash", p.name)

\* fs.read(): no text stands for null and for the two exceptions (nothing
\* mounted, larger than the limit).
FsRead(p) == Content(Resolve(p), p.name, MaxRead)

-----------------------------------------------------------------------------
(* Writing.                                                                *)

Put(p, t) == files' = [files EXCEPT ![Resolve(p)][p.name] = t]

Prefixes(t) == {SubSeq(t, 1, n) : n \in 0..Len(t)}

\* What a file opened for writing can hold when it is closed again.
Stored(t) == {t} \cup IF CardMayFill THEN Prefixes(t) ELSE {}

\* fs.write(): opening truncates; without the folder there is nothing to open.
ScriptWrites(p, t) ==
  /\ Reachable(p) /\ Resolve(p) \in folders
  /\ \E stored \in Stored(t) : Put(p, stored)
  /\ UNCHANGED <<folders, mounted>>

\* fs.append(): a file that is not there is made.
ScriptAppends(p, t) ==
  /\ Reachable(p) /\ Resolve(p) \in folders
  /\ LET old == files[Resolve(p)][p.name]
         longer(stored) == IF old = NoText THEN stored ELSE old \o stored
     IN  \E stored \in Stored(t) :
           /\ Len(longer(stored)) <= MaxFile
           /\ Put(p, longer(stored))
  /\ UNCHANGED <<folders, mounted>>

\* fs.remove(), and the rm command.
Removes(p) ==
  /\ Reachable(p)
  /\ Put(p, NoText)
  /\ UNCHANGED <<folders, mounted>>

\* fs.mkdir()
ScriptMakesFolder(p) ==
  /\ Reachable(p)
  /\ folders' = folders \cup {Resolve(p)}
  /\ UNCHANGED <<files, mounted>>

\* writeScript() when it returns true: the folder is made first, and how much
\* print() wrote is not looked at.
WriteScript(p, t) ==
  /\ Reachable(p)
  /\ folders' = folders \cup {Resolve(p)}
  /\ \E stored \in Stored(t) : Put(p, stored)
  /\ UNCHANGED mounted

\* writeScript() when it returns false: nothing mounted, no folder could be
\* made, or the file could not be opened.
WriteScriptFails(p) ==
  /\ \/ UNCHANGED folders
     \/ Reachable(p) /\ folders' = folders \cup {Resolve(p)}
  /\ UNCHANGED <<files, mounted>>

\* The power goes during writeScript(): any part of the text may be there.
\* The board comes up again with a card or without.
StorageRestarts(p, t) ==
  /\ \/ UNCHANGED <<files, folders>>
     \/ /\ Reachable(p)
        /\ folders' = folders \cup {Resolve(p)}
        /\ \E part \in Prefixes(t) : Put(p, part)
  /\ mounted' \in Mounts
=============================================================================
