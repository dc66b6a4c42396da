----------------------------- MODULE PushProofs -----------------------------
(***************************************************************************)
(* Proofs about Push: for every set of names and scripts, any number of    *)
(* pushes and faults, and every size of the caps.                          *)
(***************************************************************************)
EXTENDS Push, TLAPS

USE StorageAssumption, PushAssumption

-----------------------------------------------------------------------------
(* The filesystems.                                                        *)

\* A part of a text is a text.
LEMMA PrefixIsText == ASSUME NEW t \in Text, NEW s \in Prefixes(t) PROVE s \in Text
<1>1. PICK n \in 0..Len(t) : s = SubSeq(t, 1, n)
  BY DEF Prefixes
<1>2. 1 \in 1..Len(t)+1 /\ n \in 0..Len(t) /\ Len(t) \in Nat
  BY DEF Text
<1>3. \A i \in 1..n : t[i] \in Line
  BY <1>2 DEF Text
<1> QED BY <1>1, <1>2, <1>3 DEF Text

\* What is stored of a text is a text.
LEMMA StoredIsText == ASSUME NEW t \in Text, NEW s \in Stored(t) PROVE s \in Text
BY PrefixIsText DEF Stored

\* A file can be replaced by any text or by none.
LEMMA PutType ==
  ASSUME StorageTypeOK, NEW p \in Path, NEW t \in Text \cup {NoText}, Put(p, t)
  PROVE  files' \in [FileSystems -> [Names -> Text \cup {NoText}]]
<1>1. p.name \in Names
  BY DEF Path
<1>2. Resolve(p) \in FileSystems
  BY DEF Resolve, FileSystems
<1> QED BY <1>1, <1>2 DEF Put, StorageTypeOK

\* Every operation of the storage keeps its type.
LEMMA StorageSteps ==
  ASSUME StorageTypeOK, NEW p \in Path, NEW t \in Text
  PROVE  /\ ScriptWrites(p, t) => StorageTypeOK'
         /\ ScriptAppends(p, t) => StorageTypeOK'
         /\ Removes(p) => StorageTypeOK'
         /\ ScriptMakesFolder(p) => StorageTypeOK'
         /\ WriteScript(p, t) => StorageTypeOK'
         /\ WriteScriptFails(p) => StorageTypeOK'
         /\ StorageRestarts(p, t) => StorageTypeOK'
<1>0. Resolve(p) \in FileSystems /\ p.name \in Names
  BY DEF Resolve, FileSystems, Path
<1>1. ASSUME ScriptWrites(p, t) PROVE StorageTypeOK'
  BY <1>1, StoredIsText, PutType DEF ScriptWrites, StorageTypeOK
<1>2. ASSUME ScriptAppends(p, t) PROVE StorageTypeOK'
  <2> DEFINE old == files[Resolve(p)][p.name]
  <2>1. PICK s \in Stored(t) : Put(p, IF old = NoText THEN s ELSE old \o s)
    BY <1>2 DEF ScriptAppends
  <2>2. old \in Text \cup {NoText}
    BY <1>0 DEF StorageTypeOK
  <2>3. s \in Text
    BY StoredIsText
  <2>4. (IF old = NoText THEN s ELSE old \o s) \in Text
    <3> HIDE DEF old
    <3> QED BY <2>2, <2>3 DEF Text
  <2> HIDE DEF old
  <2>5. files' \in [FileSystems -> [Names -> Text \cup {NoText}]]
    BY <2>1, <2>4, PutType
  <2> QED BY <1>2, <2>5 DEF ScriptAppends, StorageTypeOK
<1>3. ASSUME Removes(p) PROVE StorageTypeOK'
  BY <1>3, PutType DEF Removes, StorageTypeOK
<1>4. ASSUME ScriptMakesFolder(p) PROVE StorageTypeOK'
  BY <1>0, <1>4 DEF ScriptMakesFolder, StorageTypeOK
<1>5. ASSUME WriteScript(p, t) PROVE StorageTypeOK'
  BY <1>0, <1>5, StoredIsText, PutType DEF WriteScript, StorageTypeOK
<1>6. ASSUME WriteScriptFails(p) PROVE StorageTypeOK'
  BY <1>0, <1>6 DEF WriteScriptFails, StorageTypeOK
<1>7. ASSUME StorageRestarts(p, t) PROVE StorageTypeOK'
  <2>1. files' \in [FileSystems -> [Names -> Text \cup {NoText}]]
    BY <1>7, PrefixIsText, PutType DEF StorageRestarts, StorageTypeOK
  <2>2. folders' \subseteq FileSystems /\ mounted' \in Mounts
    BY <1>0, <1>7 DEF StorageRestarts, StorageTypeOK
  <2> QED BY <2>1, <2>2 DEF StorageTypeOK
<1> QED BY <1>1, <1>2, <1>3, <1>4, <1>5, <1>6, <1>7

\* fs.read() and the loader do not look in the same places, but a text fs.read()
\* finds is the text the loader runs.
THEOREM ReadIsLoaded ==
  ASSUME NEW p \in Path, StorageTypeOK, FsRead(p) # NoText
  PROVE  LoadScript(p) = FsRead(p)
<1>1. Resolve(p) \in FileSystems /\ p.name \in Names
  BY DEF Resolve, FileSystems, Path
<1>2. files[Resolve(p)][p.name] \in Text
  BY <1>1 DEF FsRead, Content, StorageTypeOK
<1>3. Size(files[Resolve(p)][p.name]) \in Nat
  BY <1>2 DEF Size, Text, LineLen
<1>4. ReadAll(Resolve(p), p.name) = FsRead(p)
  BY <1>3 DEF FsRead, ReadAll, Content
<1>5. CASE p.flash
  BY <1>4, <1>5 DEF Resolve, LoadScript
<1>6. CASE ~p.flash /\ "card" \in mounted
  BY <1>4, <1>6 DEF Resolve, LoadScript
<1>7. CASE ~p.flash /\ "card" \notin mounted
  <2>1. ReadAll("card", p.name) = NoText
    BY <1>7 DEF ReadAll, Content
  <2> QED BY <1>4, <1>7, <2>1 DEF Resolve, LoadScript
<1> QED BY <1>5, <1>6, <1>7 DEF Path

-----------------------------------------------------------------------------
(* The line.                                                               *)

\* The board takes the first line off the wire.
LEMMA TookFacts ==
  ASSUME TypeOK, Took
  PROVE  /\ line \in Line /\ wire' \in Seq(Line)
         /\ Len(wire) \in Nat \ {0} /\ Len(wire') = Len(wire) - 1
         /\ line = wire[1]
         /\ \A i \in 1..Len(wire') : wire'[i] = wire[i + 1]
<1>1. wire \in Seq(Line) /\ wire # << >>
  BY DEF TypeOK, Took
<1> QED BY <1>1 DEF Took, line

\* A line of the protocol is a line.
LEMMA SayIsLine ==
  ASSUME TypeOK
  PROVE  /\ Junk \in Line
         /\ \A p \in Path : /\ Say("app-begin", p) \in Line /\ Say("app-end", p) \in Line
                            /\ Say("check", p) \in Line /\ Say("rm", p) \in Line
                            /\ Say("code", p) \in Line
BY DEF TypeOK, Junk, Say, Lines, Commands

\* A wire that was given a line is a wire.
LEMMA WireGrows ==
  ASSUME NEW w \in Seq(Line), NEW a \in Line, NEW b \in Line,
         NEW x \in {w, Append(w, a), Append(w, b)}
  PROVE  x \in Seq(Line)
OBVIOUS

\* What transmitting a line does to the wire.
LEMMA TransmitFacts ==
  ASSUME TypeOK, NEW l \in Line, Transmit(l)
  PROVE  /\ wire' \in Seq(Line)
         /\ wire' \in {wire, Append(wire, l), Append(wire, Junk)}
         /\ faults' \in 0..MaxFaults /\ smooth' \in BOOLEAN
<1>1. wire' \in {wire, Append(wire, l), Append(wire, Junk)}
  BY DEF Transmit, Fault
<1>2. wire \in Seq(Line) /\ Junk \in Line
  BY SayIsLine DEF TypeOK
<1>3. wire' \in Seq(Line)
  BY <1>1, <1>2
<1>4. faults' \in 0..MaxFaults
  BY DEF Transmit, Fault, TypeOK
<1>5. smooth' \in BOOLEAN
  BY Zenon DEF Transmit, Fault, TypeOK
<1> QED BY <1>1, <1>3, <1>4, <1>5

\* Something going wrong is counted.
LEMMA FaultFacts ==
  ASSUME TypeOK, Fault PROVE faults' \in 0..MaxFaults /\ smooth' \in BOOLEAN
<1>1. faults' \in 0..MaxFaults
  BY DEF Fault, TypeOK
<1>2. smooth' \in BOOLEAN
  BY Zenon DEF Fault
<1> QED BY <1>1, <1>2

-----------------------------------------------------------------------------
(* Types.  TypeOK is proved by the parts that the actions leave alone.     *)

HostType ==
  /\ at \in {"idle", "sending", "ended", "checking"}
  /\ job \in [path: Path, text: Text]
  /\ sent \in Nat
  /\ verdict \in {"none", "verified", "mismatch", "unread"}
  /\ pushes \in 0..MaxPushes
BoardType ==
  /\ uploading \in BOOLEAN /\ uploadPath \in Path
  /\ upload \in Text /\ received \in Text
  /\ report \in {"none", "wrote", "FAILED", "aborted"}
LineType == wire \in Seq(Line) /\ replies \in Seq(Text)
HistoryType == faults \in 0..MaxFaults /\ whole \in BOOLEAN /\ smooth \in BOOLEAN

LEMMA TypeParts ==
  TypeOK <=> StorageTypeOK /\ HostType /\ BoardType /\ LineType /\ HistoryType
             /\ held \in BOOLEAN
BY Zenon DEF TypeOK, HostType, BoardType, LineType, HistoryType

LEMMA TypePartsPrimed ==
  TypeOK' <=> StorageTypeOK' /\ HostType' /\ BoardType' /\ LineType' /\ HistoryType'
             /\ held' \in BOOLEAN
BY Zenon DEF TypeOK, HostType, BoardType, LineType, HistoryType

LEMMA Unchanged ==
  ASSUME TypeOK
  PROVE  /\ UNCHANGED storageVars => StorageTypeOK'
         /\ UNCHANGED hostVars => HostType'
         /\ UNCHANGED boardVars => BoardType'
         /\ UNCHANGED lineVars => LineType'
         /\ UNCHANGED <<faults, historyVars>> => HistoryType'
BY Zenon DEF TypeOK, StorageTypeOK, HostType, BoardType, LineType, HistoryType,
       storageVars, hostVars, boardVars, lineVars, historyVars

LEMMA InitType == Init => TypeOK
<1> SUFFICES ASSUME Init PROVE TypeOK
  OBVIOUS
<1>1. StorageTypeOK
  BY DEF Init, StorageInit, StorageTypeOK, FileSystems
<1>2. job \in [path: Path, text: Text] /\ uploadPath \in Path
  BY DEF Init
<1>3. LineType
  BY DEF Init, LineType
<1>4. upload \in Text /\ received \in Text
  BY DEF Init, Text
<1>5. BoardType
  BY <1>2, <1>4 DEF Init, BoardType
<1>6. HostType
  BY <1>2 DEF Init, HostType
<1>7. HistoryType /\ held \in BOOLEAN
  <2>1. faults \in 0..MaxFaults
    BY DEF Init
  <2>2. whole \in BOOLEAN /\ smooth \in BOOLEAN /\ held \in BOOLEAN
    BY Zenon DEF Init
  <2> QED BY <2>1, <2>2 DEF HistoryType
<1> QED BY <1>1, <1>3, <1>5, <1>6, <1>7, TypeParts

\* The board's steps.
LEMMA BoardTypes ==
  ASSUME TypeOK,
         \/ LineRefused \/ UploadOverflows \/ UploadEnds \/ UploadGrows
         \/ UploadBegins \/ CommandRm \/ CommandCheck \/ CommandOther
  PROVE  StorageTypeOK' /\ HostType' /\ BoardType' /\ LineType' /\ HistoryType'
<1> USE Unchanged, TypeParts
<1>0. ASSUME Took PROVE line \in Line /\ wire' \in Seq(Line)
  BY <1>0, TookFacts
<1>s. ASSUME StopsUploading
      PROVE  uploading' \in BOOLEAN /\ uploadPath' \in Path /\ upload' \in Text /\ received' \in Text
  <2>1. << >> \in Text
    BY DEF Text
  <2>2. uploadPath \in Path
    BY DEF BoardType
  <2> QED BY <1>s, <2>1, <2>2 DEF StopsUploading
<1>1. CASE LineRefused
  <2>1. BoardType'
    <3>1. CASE uploading
      BY <1>1, <3>1, <1>s DEF LineRefused, BoardType
    <3>2. CASE ~uploading
      BY <1>1, <3>2 DEF LineRefused
    <3> QED BY <3>1, <3>2
  <2>2. HistoryType'
    BY <1>1, FaultFacts DEF LineRefused, HistoryType
  <2> QED BY <1>0, <1>1, <2>1, <2>2 DEF LineRefused, LineType
<1>2. CASE UploadOverflows
  BY <1>0, <1>2, <1>s DEF UploadOverflows, LineType, BoardType
<1>3. CASE UploadEnds
  <2>1. StorageTypeOK'
    BY <1>3, StorageSteps DEF UploadEnds, BoardType
  <2>2. BoardType'
    BY <1>3, <1>s DEF UploadEnds, BoardType
  <2>3. HistoryType'
    <3>1. faults' \in 0..MaxFaults /\ smooth' \in BOOLEAN
      <4>1. CASE Fault
        BY <4>1, FaultFacts
      <4>2. CASE UNCHANGED <<faults, smooth>>
        BY <4>2 DEF HistoryType
      <4> QED BY <1>3, <4>1, <4>2 DEF UploadEnds
    <3>2. whole' \in BOOLEAN
      BY <1>3 DEF UploadEnds, HistoryType
    <3> QED BY <3>1, <3>2 DEF HistoryType
  <2> QED BY <1>0, <1>3, <2>1, <2>2, <2>3 DEF UploadEnds, LineType
<1>4. CASE UploadGrows
  <2>1. upload' \in Text /\ received' \in Text
    BY <1>0, <1>4 DEF UploadGrows, BoardType, Text
  <2> QED BY <1>0, <1>4, <2>1 DEF UploadGrows, BoardType, LineType
<1>5. CASE UploadBegins
  <2>1. line.path \in Path
    BY <1>0, <1>5 DEF UploadBegins, Lines
  <2>2. << >> \in Text
    BY DEF Text
  <2> QED BY <1>0, <1>5, <2>1, <2>2 DEF UploadBegins, BoardType, LineType
<1>6. CASE CommandRm
  <2>1. line.path \in Path /\ << >> \in Text
    BY <1>0, <1>6 DEF CommandRm, Lines, Text
  <2>2. StorageTypeOK'
    BY <1>6, <2>1, StorageSteps DEF CommandRm
  <2> QED BY <1>0, <1>6, <2>2 DEF CommandRm, LineType
<1>7. CASE CommandCheck
  <2>1. line.path \in Path
    BY <1>0, <1>7 DEF CommandCheck, Lines
  <2>2. Resolve(line.path) \in FileSystems /\ line.path.name \in Names
    BY <2>1 DEF Resolve, FileSystems, Path
  <2>3. FsRead(line.path) # NoText => FsRead(line.path) \in Text
    BY <2>2 DEF FsRead, Content, StorageTypeOK
  <2>4. replies' \in Seq(Text)
    BY <1>7, <2>3 DEF CommandCheck, LineType
  <2> QED BY <1>0, <1>7, <2>4 DEF CommandCheck, LineType
<1>8. CASE CommandOther
  BY <1>0, <1>8 DEF CommandOther, LineType
<1> QED BY <1>1, <1>2, <1>3, <1>4, <1>5, <1>6, <1>7, <1>8

\* The steps of the workstation, the app and the power.
LEMMA HostTypes ==
  ASSUME TypeOK,
         \/ ScriptRuns \/ PowerCycle \/ PushStarts \/ SendsLine \/ SendsEnd \/ SendsCheck
         \/ GetsReply \/ GetsNoReply \/ LeavesUnverified \/ Interrupted \/ PersonTypes
  PROVE  StorageTypeOK' /\ HostType' /\ BoardType' /\ LineType' /\ HistoryType'
<1> USE Unchanged, TypeParts
<1>j. job.path \in Path /\ job.text \in Text
  BY DEF HostType
<1>1. CASE ScriptRuns
  <2>1. StorageTypeOK'
    <3>1. PICK p \in Path :
            \/ \E t \in ScriptTexts : ScriptWrites(p, t) \/ ScriptAppends(p, t)
            \/ Removes(p)
            \/ ScriptMakesFolder(p)
      BY <1>1 DEF ScriptRuns
    <3>2. CASE \E t \in ScriptTexts : ScriptWrites(p, t) \/ ScriptAppends(p, t)
      BY <3>2, StorageSteps
    <3>3. CASE Removes(p) \/ ScriptMakesFolder(p)
      BY <1>j, <3>3, StorageSteps
    <3> QED BY <3>1, <3>2, <3>3
  <2>2. smooth' \in BOOLEAN
    BY <1>1 DEF ScriptRuns, HistoryType
  <2> QED BY <1>1, <2>1, <2>2 DEF ScriptRuns, HistoryType
<1>2. CASE PowerCycle
  <2>1. StorageTypeOK'
    <3>1. uploadPath \in Path /\ upload \in Text
      BY DEF BoardType
    <3>2. ASSUME UNCHANGED <<files, folders>>, mounted' \in Mounts PROVE StorageTypeOK'
      BY <3>2 DEF StorageTypeOK
    <3> QED BY <1>2, <3>1, <3>2, StorageSteps DEF PowerCycle
  <2>2. BoardType'
    <3>1. << >> \in Text
      BY DEF Text
    <3> QED BY <1>2, <3>1 DEF PowerCycle, StopsUploading, BoardType
  <2>3. LineType'
    BY <1>2 DEF PowerCycle, LineType
  <2>4. HistoryType'
    BY <1>2, FaultFacts DEF PowerCycle, HistoryType
  <2> QED BY <1>2, <2>1, <2>2, <2>3, <2>4 DEF PowerCycle
<1>3. CASE PushStarts
  <2>1. job' \in [path: Path, text: Text]
    BY <1>3 DEF PushStarts
  <2>2. HostType'
    BY <1>3, <2>1 DEF PushStarts, HostType
  <2>3. LineType'
    <3>1. Say("app-begin", job'.path) \in Line /\ Junk \in Line
      BY <2>1, SayIsLine
    <3>2. wire' \in {wire, Append(wire, Say("app-begin", job'.path)), Append(wire, Junk)}
      BY <1>3 DEF PushStarts
    <3>3. wire' \in Seq(Line)
      <4> DEFINE begin == Say("app-begin", job'.path)
      <4>1. begin \in Line /\ wire' \in {wire, Append(wire, begin), Append(wire, Junk)}
        BY <3>1, <3>2
      <4> HIDE DEF begin
      <4> QED BY <3>1, <4>1, WireGrows DEF LineType
    <3>4. replies' \in Seq(Text)
      BY <1>3 DEF PushStarts
    <3> QED BY <3>3, <3>4 DEF LineType
  <2>4. HistoryType'
    <3>1. smooth' \in BOOLEAN /\ faults' \in 0..MaxFaults
      <4>1. CASE Fault
        BY <4>1, FaultFacts
      <4>2. CASE UNCHANGED faults /\ smooth' = (wire = << >> /\ ~uploading /\ Suitable(job'.path, job'.text))
        <5>1. smooth' \in BOOLEAN
          BY <4>2, Zenon
        <5> QED BY <4>2, <5>1 DEF HistoryType
      <4> QED BY <1>3, <4>1, <4>2 DEF PushStarts
    <3> QED BY <1>3, <3>1 DEF PushStarts, HistoryType
  <2> QED BY <1>3, <2>2, <2>3, <2>4 DEF PushStarts
<1>4. CASE SendsLine
  <2>1. job.text[sent + 1] \in Line
    BY <1>4, <1>j DEF SendsLine, HostType, Text
  <2>2. wire' \in Seq(Line) /\ faults' \in 0..MaxFaults /\ smooth' \in BOOLEAN
    BY <1>4, <2>1, TransmitFacts DEF SendsLine
  <2> QED BY <1>4, <2>2 DEF SendsLine, HostType, LineType, HistoryType
<1>5. CASE SendsEnd
  <2>1. wire' \in Seq(Line) /\ faults' \in 0..MaxFaults /\ smooth' \in BOOLEAN
    BY <1>5, <1>j, SayIsLine, TransmitFacts DEF SendsEnd
  <2>2. whole' \in BOOLEAN
    BY <1>5, Zenon DEF SendsEnd
  <2> QED BY <1>5, <2>1, <2>2 DEF SendsEnd, HostType, LineType, HistoryType
<1>6. CASE SendsCheck
  <2>1. wire' \in Seq(Line) /\ faults' \in 0..MaxFaults /\ smooth' \in BOOLEAN
    BY <1>6, <1>j, SayIsLine, TransmitFacts DEF SendsCheck
  <2> QED BY <1>6, <2>1 DEF SendsCheck, HostType, LineType, HistoryType
<1>7. CASE GetsReply
  BY <1>7 DEF GetsReply, HostType
<1>8. CASE GetsNoReply
  BY <1>8 DEF GetsNoReply, HostType
<1>9. CASE LeavesUnverified
  BY <1>9 DEF LeavesUnverified, HostType
<1>10. CASE Interrupted
  <2>1. HistoryType'
    BY <1>10, FaultFacts DEF Interrupted, HistoryType
  <2> QED BY <1>10, <2>1 DEF Interrupted, HostType
<1>11. CASE PersonTypes
  <2>1. PICK kind \in {"app-begin", "app-end", "rm", "code"}, p \in Path :
          wire' = Append(wire, Say(kind, p))
    BY <1>11 DEF PersonTypes
  <2>2. LineType'
    BY <1>11, <2>1, SayIsLine DEF PersonTypes, LineType
  <2>3. HostType'
    BY <1>11 DEF PersonTypes, HostType
  <2>4. HistoryType'
    BY <1>11 DEF PersonTypes, HistoryType
  <2> QED BY <1>11, <2>2, <2>3, <2>4 DEF PersonTypes
<1> QED BY <1>1, <1>2, <1>3, <1>4, <1>5, <1>6, <1>7, <1>8, <1>9, <1>10, <1>11

LEMMA NextType == TypeOK /\ [Next]_vars => TypeOK'
<1> SUFFICES ASSUME TypeOK, [Next]_vars PROVE TypeOK'
  OBVIOUS
<1>1. CASE Next
  <2>1. StorageTypeOK' /\ HostType' /\ BoardType' /\ LineType' /\ HistoryType'
    BY <1>1, BoardTypes, HostTypes DEF Next
  <2>2. held' \in BOOLEAN
    BY <1>1, Zenon DEF Next, Watch
  <2> QED BY <2>1, <2>2, TypePartsPrimed
<1>2. CASE UNCHANGED vars
  <2>1. UNCHANGED storageVars /\ UNCHANGED hostVars /\ UNCHANGED boardVars
        /\ UNCHANGED lineVars /\ UNCHANGED <<faults, historyVars>> /\ UNCHANGED held
    BY <1>2 DEF vars
  <2> QED BY <2>1, Unchanged, TypeParts, TypePartsPrimed
<1> QED BY <1>1, <1>2

\* Push keeps its types, of whatever length its scripts are.
THEOREM PushTypes == Spec => []TypeOK
BY InitType, NextType, PTL DEF Spec

-----------------------------------------------------------------------------
(* What the board reports it wrote.                                        *)

\* Every line that arrived since app-begin is in the upload.
Collected == received = upload

LEMMA CollectedStep == Collected /\ [Next]_vars => Collected'
<1> SUFFICES ASSUME Collected, [Next]_vars PROVE Collected'
  OBVIOUS
<1> USE DEF Collected
<1>0. ASSUME UNCHANGED boardVars PROVE Collected'
  BY <1>0 DEF boardVars
<1>1. ASSUME StopsUploading PROVE Collected'
  BY <1>1 DEF StopsUploading
<1>2. CASE LineRefused \/ UploadOverflows \/ UploadEnds \/ PowerCycle
  BY <1>0, <1>1, <1>2 DEF LineRefused, UploadOverflows, UploadEnds, PowerCycle
<1>3. CASE UploadGrows
  BY <1>3 DEF UploadGrows
<1>4. CASE UploadBegins
  BY <1>4 DEF UploadBegins
<1>5. CASE \/ CommandRm \/ CommandCheck \/ CommandOther \/ ScriptRuns \/ PushStarts
           \/ SendsLine \/ SendsEnd \/ SendsCheck \/ GetsReply \/ GetsNoReply
           \/ LeavesUnverified \/ Interrupted \/ PersonTypes
  BY <1>0, <1>5 DEF CommandRm, CommandCheck, CommandOther, ScriptRuns, PushStarts,
       SendsLine, SendsEnd, SendsCheck, GetsReply, GetsNoReply, LeavesUnverified,
       Interrupted, PersonTypes
<1>6. CASE UNCHANGED vars
  BY <1>0, <1>6 DEF vars
<1> QED BY <1>2, <1>3, <1>4, <1>5, <1>6 DEF Next

\* A file written whole is what the loader takes, if it is not too long for it.
LEMMA WrittenLoads ==
  ASSUME StorageTypeOK, ~CardMayFill, NEW p \in Path, NEW t \in Text,
         Size(t) <= MaxScript, WriteScript(p, t)
  PROVE  LoadScript(p)' = t
<1>1. PICK d \in FileSystems : d = Resolve(p)
  BY DEF Resolve, FileSystems
<1>2. p.name \in Names /\ d \in mounted
  BY <1>1 DEF Path, WriteScript, Reachable
<1>3. Stored(t) = {t}
  BY DEF Stored
<1>4. files' = [files EXCEPT ![d][p.name] = t] /\ mounted' = mounted
  BY <1>1, <1>3 DEF WriteScript, Put
<1>5. files'[d][p.name] = t
  BY <1>2, <1>4 DEF StorageTypeOK
<1>6. t # NoText
  OBVIOUS
<1>7. ReadAll(d, p.name)' = t
  BY <1>2, <1>4, <1>5, <1>6 DEF ReadAll, Content, Size
<1>8. CASE p.flash
  BY <1>1, <1>7, <1>8 DEF LoadScript, Resolve
<1>9. CASE ~p.flash /\ "card" \in mounted
  BY <1>1, <1>6, <1>7, <1>9 DEF LoadScript, Resolve
<1>10. CASE ~p.flash /\ "card" \notin mounted
  <2>1. ReadAll("card", p.name)' = NoText
    BY <1>4, <1>10 DEF ReadAll, Content
  <2> QED BY <1>1, <1>7, <1>10, <2>1 DEF LoadScript, Resolve
<1> QED BY <1>8, <1>9, <1>10

\* An upload that is written is not too long: app-end itself was counted, so the
\* last newline fits as well.
LEMMA WithinCap == ASSUME TypeOK, ~Overflows PROVE Size(upload) <= MaxScript
<1>1. Len(upload) \in Nat
  BY DEF TypeOK, Text
<1> QED BY <1>1 DEF Overflows, Size, LineLen

LEMMA WroteStep ==
  ASSUME TypeOK, Collected, ~CardMayFill, [Next]_vars,
         uploading, report' = "wrote", ~uploading'
  PROVE  LoadScript(uploadPath)' = received
<1>1. CASE UploadEnds
  <2>1. PICK p \in Path, t \in Text : p = uploadPath /\ t = upload
    BY DEF TypeOK
  <2>2. WriteScript(p, t) /\ StorageTypeOK /\ Size(t) <= MaxScript
    BY <1>1, <2>1, WithinCap DEF UploadEnds, TypeOK
  <2>3. LoadScript(p)' = t /\ uploadPath' = p
    BY <1>1, <2>1, <2>2, WrittenLoads DEF UploadEnds, StopsUploading
  <2> QED BY <2>1, <2>3 DEF Collected, LoadScript
<1>2. CASE LineRefused \/ UploadOverflows \/ PowerCycle
  BY <1>2 DEF LineRefused, UploadOverflows, PowerCycle
<1>3. CASE UploadGrows \/ UploadBegins
  BY <1>3 DEF UploadGrows, UploadBegins
<1>4. CASE \/ CommandRm \/ CommandCheck \/ CommandOther \/ ScriptRuns \/ PushStarts
           \/ SendsLine \/ SendsEnd \/ SendsCheck \/ GetsReply \/ GetsNoReply
           \/ LeavesUnverified \/ Interrupted \/ PersonTypes \/ UNCHANGED vars
  BY <1>4 DEF CommandRm, CommandCheck, CommandOther, ScriptRuns, PushStarts,
       SendsLine, SendsEnd, SendsCheck, GetsReply, GetsNoReply, LeavesUnverified,
       Interrupted, PersonTypes, vars, boardVars
<1> QED BY <1>1, <1>2, <1>3, <1>4 DEF Next

\* Unless the card fills up while the file is written, what the board reports as
\* written is every line that arrived and is what starting the app will run.
THEOREM ReportIsTrue == ASSUME ~CardMayFill PROVE Spec => WroteIsWhole
<1>1. Init => Collected
  BY DEF Init, Collected
<1>2. TypeOK /\ Collected /\ [Next]_vars
        => [uploading /\ report' = "wrote" /\ ~uploading'
              => LoadScript(uploadPath)' = received]_vars
  BY WroteStep
<1>3. Spec => []Collected
  BY <1>1, CollectedStep, PTL DEF Spec
<1> QED BY <1>2, <1>3, PushTypes, PTL DEF Spec, WroteIsWhole

-----------------------------------------------------------------------------
(* What the workstation calls verified.                                    *)

\* While a reply is awaited nothing on the wire asks for another file, and a
\* reply that is the text pushed was given when the board held it.
AskedInv ==
  at = "checking" =>
    /\ \A i \in DOMAIN wire : wire[i].kind = "check" => wire[i].path = job.path
    /\ \A i \in DOMAIN replies : replies[i] = job.text => held

VerdictInv ==
  /\ Good => held
  /\ VerifiedIsHeld
  /\ at # "idle" => verdict = "none"
  /\ AskedInv

LEMMA WatchFacts ==
  ASSUME Watch
  PROVE  (Good' => held') /\ (held /\ ~(at = "ended" /\ at' = "checking") => held')
BY Zenon DEF Watch

LEMMA InitVerdict == Init => VerdictInv
<1> SUFFICES ASSUME Init PROVE VerdictInv
  OBVIOUS
<1>1. job.path \in Path /\ job.text \in Text
  BY DEF Init
<1>2. job.path.name \in Names
  BY <1>1 DEF Path
<1>3. LoadScript(job.path) = NoText
  BY <1>2 DEF Init, StorageInit, LoadScript, ReadAll, Content, FileSystems
<1>4. ~Good
  BY <1>1, <1>3 DEF Good
<1> QED BY <1>4 DEF Init, VerdictInv, VerifiedIsHeld, AskedInv

\* A step of the board or of the app that answers nothing.
LEMMA SilentStep ==
  ASSUME TypeOK, VerdictInv, Watch, UNCHANGED hostVars,
         \/ UNCHANGED wire /\ UNCHANGED replies
         \/ Took /\ UNCHANGED replies
         \/ wire' = << >> /\ replies' = << >>
  PROVE  VerdictInv'
<1>0. UNCHANGED <<at, job, verdict>>
  BY DEF hostVars
<1>1. (Good' => held') /\ (held => held')
  BY <1>0, WatchFacts
<1>2. VerifiedIsHeld' /\ (at' # "idle" => verdict' = "none")
  BY <1>0, <1>1 DEF VerdictInv, VerifiedIsHeld
<1>3. AskedInv'
  <2>1. CASE UNCHANGED wire /\ UNCHANGED replies
    BY <1>0, <1>1, <2>1 DEF VerdictInv, AskedInv
  <2>2. CASE Took /\ UNCHANGED replies
    <3> SUFFICES ASSUME at = "checking"
                 PROVE  /\ \A i \in DOMAIN wire' : wire'[i].kind = "check" => wire'[i].path = job.path
                        /\ \A i \in DOMAIN replies' : replies'[i] = job.text => held'
      BY <1>0 DEF AskedInv
    <3>1. wire \in Seq(Line) /\ wire' \in Seq(Line) /\ Len(wire') = Len(wire) - 1
          /\ \A i \in 1..Len(wire') : wire'[i] = wire[i + 1]
      BY <2>2, TookFacts DEF TypeOK
    <3>2. \A i \in DOMAIN wire' : i + 1 \in DOMAIN wire /\ wire'[i] = wire[i + 1]
      BY <3>1
    <3> QED BY <1>1, <2>2, <3>2 DEF VerdictInv, AskedInv
  <2>3. CASE wire' = << >> /\ replies' = << >>
    BY <2>3 DEF AskedInv
  <2> QED BY <2>1, <2>2, <2>3
<1> QED BY <1>1, <1>2, <1>3 DEF VerdictInv

\* The board answers for the file of this push with what the loader would run.
LEMMA CheckStep ==
  ASSUME TypeOK, VerdictInv, CommandCheck, Watch PROVE VerdictInv'
<1>0. UNCHANGED <<at, job, verdict>> /\ Took
  BY DEF CommandCheck, hostVars
<1>1. (Good' => held') /\ (held => held')
  BY <1>0, WatchFacts
<1>2. VerifiedIsHeld' /\ (at' # "idle" => verdict' = "none")
  BY <1>0, <1>1 DEF VerdictInv, VerifiedIsHeld
<1>3. AskedInv'
  <2> SUFFICES ASSUME at = "checking"
               PROVE  /\ \A i \in DOMAIN wire' : wire'[i].kind = "check" => wire'[i].path = job.path
                      /\ \A i \in DOMAIN replies' : replies'[i] = job.text => held'
    BY <1>0 DEF AskedInv
  <2>1. wire \in Seq(Line) /\ wire' \in Seq(Line) /\ Len(wire') = Len(wire) - 1
        /\ Len(wire) \in Nat \ {0} /\ line = wire[1]
        /\ \A i \in 1..Len(wire') : wire'[i] = wire[i + 1]
    BY <1>0, TookFacts DEF TypeOK
  <2>2. \A i \in DOMAIN wire' : i + 1 \in DOMAIN wire /\ wire'[i] = wire[i + 1]
    BY <2>1
  <2>3. line.path = job.path
    <3>1. 1 \in DOMAIN wire
      BY <2>1
    <3> QED BY <2>1, <3>1 DEF VerdictInv, AskedInv, CommandCheck
  <2>4. job.path \in Path /\ StorageTypeOK /\ job.text # NoText
    BY DEF TypeOK
  <2>5. FsRead(job.path) = job.text => held
    BY <2>4, ReadIsLoaded DEF Good, VerdictInv
  <2>6. replies' = replies \/ replies' = Append(replies, FsRead(job.path))
    BY <2>3 DEF CommandCheck
  <2>7. replies \in Seq(Text)
    BY DEF TypeOK
  <2>8. ASSUME NEW i \in DOMAIN replies', replies'[i] = job.text PROVE held
    <3>1. CASE replies' = replies
      BY <2>8, <3>1 DEF VerdictInv, AskedInv
    <3>2. CASE replies' = Append(replies, FsRead(job.path))
      <4> DEFINE r == FsRead(job.path)
      <4>1. replies' = Append(replies, r) /\ (r = job.text => held)
        BY <2>5, <3>2
      <4> HIDE DEF r
      <4>2. (i \in DOMAIN replies /\ replies'[i] = replies[i]) \/ replies'[i] = r
        BY <2>7, <2>8, <4>1
      <4> QED BY <2>8, <4>1, <4>2 DEF VerdictInv, AskedInv
    <3> QED BY <2>6, <3>1, <3>2
  <2> QED BY <1>1, <2>2, <2>8 DEF VerdictInv, AskedInv
<1> QED BY <1>1, <1>2, <1>3 DEF VerdictInv

\* The file is asked for when the board has caught up, and then held starts over.
LEMMA AskStep ==
  ASSUME TypeOK, VerdictInv, ~SlowBoard, SendsCheck, Watch PROVE VerdictInv'
<1>1. Good' => held'
  BY WatchFacts
<1>2. verdict = "none" /\ UNCHANGED <<verdict, job>> /\ at' = "checking"
  BY DEF SendsCheck, VerdictInv
<1>3. wire = << >> /\ replies' = << >>
  BY DEF SendsCheck, Pause
<1>4. wire' \in {<< >>, <<Say("check", job.path)>>, <<Junk>>}
  BY <1>3 DEF SendsCheck, Transmit, Fault
<1>5. \A i \in DOMAIN wire' : wire'[i] = Say("check", job.path) \/ wire'[i] = Junk
  BY <1>4
<1>6. AskedInv'
  BY <1>2, <1>3, <1>5 DEF AskedInv, Say, Junk
<1> QED BY <1>1, <1>2, <1>6 DEF VerdictInv, VerifiedIsHeld

LEMMA VerdictStep ==
  ASSUME TypeOK, VerdictInv, ~SlowBoard, [Next]_vars PROVE VerdictInv'
<1>1. ASSUME LineRefused \/ UploadOverflows \/ UploadEnds \/ UploadGrows \/ UploadBegins
             \/ CommandRm \/ CommandOther,
             Watch
      PROVE  VerdictInv'
  BY <1>1, SilentStep DEF LineRefused, UploadOverflows, UploadEnds, UploadGrows,
       UploadBegins, CommandRm, CommandOther
<1>2. ASSUME ScriptRuns \/ PowerCycle, Watch PROVE VerdictInv'
  BY <1>2, SilentStep DEF ScriptRuns, PowerCycle, lineVars
<1>3. ASSUME SendsLine \/ SendsEnd \/ LeavesUnverified \/ Interrupted, Watch PROVE VerdictInv'
  <2>1. at' # "checking" /\ at # "idle" /\ UNCHANGED <<verdict, job>>
    BY <1>3 DEF SendsLine, SendsEnd, LeavesUnverified, Interrupted
  <2>2. (Good' => held') /\ verdict = "none"
    BY <1>3, <2>1, WatchFacts DEF VerdictInv
  <2> QED BY <2>1, <2>2 DEF VerdictInv, AskedInv, VerifiedIsHeld
<1>4. ASSUME PushStarts \/ PersonTypes, Watch PROVE VerdictInv'
  <2>1. at' # "checking" /\ verdict' = "none"
    BY <1>4 DEF PushStarts, PersonTypes
  <2>2. Good' => held'
    BY <1>4, WatchFacts
  <2> QED BY <2>1, <2>2 DEF VerdictInv, AskedInv, VerifiedIsHeld
<1>5. ASSUME GetsReply, Watch PROVE VerdictInv'
  <2>1. at = "checking" /\ at' = "idle" /\ replies # << >> /\ replies \in Seq(Text)
    BY <1>5 DEF GetsReply, TypeOK
  <2>2. (Good' => held') /\ (held => held')
    BY <1>5, <2>1, WatchFacts
  <2>3. 1 \in DOMAIN replies /\ Head(replies) = replies[1]
    BY <2>1
  <2>4. verdict' = "verified" => held
    BY <1>5, <2>1, <2>3 DEF GetsReply, VerdictInv, AskedInv
  <2> QED BY <2>1, <2>2, <2>4 DEF VerdictInv, AskedInv, VerifiedIsHeld
<1>6. ASSUME GetsNoReply, Watch PROVE VerdictInv'
  <2>1. at' = "idle" /\ verdict' = "unread"
    BY <1>6 DEF GetsNoReply
  <2>2. Good' => held'
    BY <1>6, WatchFacts
  <2> QED BY <2>1, <2>2 DEF VerdictInv, AskedInv, VerifiedIsHeld
<1>7. CASE UNCHANGED vars
  <2>1. UNCHANGED <<at, job, verdict, held, wire, replies, files, mounted>>
    BY <1>7 DEF vars, hostVars, lineVars, storageVars
  <2>2. Good' <=> Good
    BY <2>1 DEF Good, LoadScript, ReadAll, Content
  <2> QED BY <2>1, <2>2 DEF VerdictInv, AskedInv, VerifiedIsHeld
<1> QED BY <1>1, <1>2, <1>3, <1>4, <1>5, <1>6, <1>7, CheckStep, AskStep DEF Next

\* As long as the pauses of push.ps1 are long enough, a push it calls verified
\* was one: whatever was lost, and whatever the app or the power did.
THEOREM VerifiedIsTrue == ASSUME ~SlowBoard PROVE Spec => []VerifiedIsHeld
<1>1. VerdictInv => VerifiedIsHeld
  BY DEF VerdictInv
<1>2. TypeOK /\ VerdictInv /\ [Next]_vars => VerdictInv'
  BY VerdictStep
<1> QED BY <1>1, <1>2, InitVerdict, PushTypes, PTL DEF Spec

-----------------------------------------------------------------------------
(* What an app-end that arrived leaves behind.                             *)

EndOn(w) == \E j \in DOMAIN w : w[j].kind = "app-end"

\* Behind the last app-end on the wire there is no app-begin.
BeginsClosed(w) ==
  \A i \in DOMAIN w : w[i].kind = "app-begin" =>
    \E j \in DOMAIN w : j > i /\ w[j].kind = "app-end"

EndInv ==
  /\ whole => at # "sending" /\ BeginsClosed(wire)
  /\ whole /\ uploading => EndOn(wire)

LEMMA EndInvMeans == EndInv => EndLeavesUpload
BY DEF EndInv, EndLeavesUpload, EndOn

\* The board takes a line: if no app-end is left then it was the last one, or
\* there was none and the line is no app-begin.
LEMMA TookEnd ==
  ASSUME TypeOK, EndInv, whole, Took
  PROVE  /\ BeginsClosed(wire')
         /\ ~EndOn(wire') => line.kind # "app-begin"
         /\ ~EndOn(wire') /\ line.kind # "app-end" => ~uploading
<1>1. wire \in Seq(Line) /\ wire' \in Seq(Line) /\ Len(wire) \in Nat \ {0}
      /\ Len(wire') = Len(wire) - 1 /\ line = wire[1]
      /\ \A i \in 1..Len(wire') : wire'[i] = wire[i + 1]
  BY TookFacts DEF TypeOK
<1>2. \A i \in DOMAIN wire' : i + 1 \in DOMAIN wire /\ wire'[i] = wire[i + 1] /\ i \in Nat
  BY <1>1
<1>3. \A j \in DOMAIN wire : j # 1 => j - 1 \in DOMAIN wire' /\ wire'[j - 1] = wire[j]
  <2> SUFFICES ASSUME NEW j \in DOMAIN wire, j # 1
               PROVE  j - 1 \in DOMAIN wire' /\ wire'[j - 1] = wire[j]
    OBVIOUS
  <2>1. j \in 2..Len(wire)
    BY <1>1
  <2>2. j - 1 \in 1..Len(wire') /\ (j - 1) + 1 = j
    BY <1>1, <2>1
  <2>3. wire'[j - 1] = wire[(j - 1) + 1]
    BY <1>1, <2>2
  <2> QED BY <1>1, <2>2, <2>3
<1>4. DOMAIN wire \subseteq Nat /\ 1 \in DOMAIN wire
  BY <1>1
<1>5. BeginsClosed(wire')
  <2> SUFFICES ASSUME NEW i \in DOMAIN wire', wire'[i].kind = "app-begin"
               PROVE  \E j \in DOMAIN wire' : j > i /\ wire'[j].kind = "app-end"
    BY DEF BeginsClosed
  <2>1. i + 1 \in DOMAIN wire /\ wire[i + 1].kind = "app-begin" /\ i \in Nat
    BY <1>2
  <2>2. PICK j \in DOMAIN wire : j > i + 1 /\ wire[j].kind = "app-end"
    BY <2>1 DEF EndInv, BeginsClosed
  <2>3. j \in Nat /\ j - 1 > i /\ j # 1
    BY <1>4, <2>1, <2>2
  <2>4. j - 1 \in DOMAIN wire' /\ wire'[j - 1].kind = "app-end"
    BY <1>3, <2>2, <2>3
  <2> QED BY <2>3, <2>4
<1>6. ASSUME ~EndOn(wire') PROVE line.kind # "app-begin"
  <2> SUFFICES ASSUME line.kind = "app-begin" PROVE FALSE
    OBVIOUS
  <2>1. PICK j \in DOMAIN wire : j > 1 /\ wire[j].kind = "app-end"
    BY <1>1, <1>4 DEF EndInv, BeginsClosed
  <2>2. j # 1
    BY <1>4, <2>1
  <2> QED BY <1>3, <1>6, <2>1, <2>2 DEF EndOn
<1>7. ASSUME ~EndOn(wire'), line.kind # "app-end" PROVE ~uploading
  <2>1. ~EndOn(wire)
    BY <1>1, <1>3, <1>7 DEF EndOn
  <2> QED BY <2>1 DEF EndInv
<1> QED BY <1>5, <1>6, <1>7

\* Lines that are neither app-begin nor app-end change nothing of this.
LEMMA OtherLine ==
  ASSUME NEW w \in Seq(Line), NEW l \in Line, l.kind # "app-begin", BeginsClosed(w)
  PROVE  BeginsClosed(Append(w, l)) /\ (EndOn(w) => EndOn(Append(w, l)))
<1>1. /\ DOMAIN Append(w, l) = 1..Len(w)+1 /\ DOMAIN w = 1..Len(w) /\ Len(w) \in Nat
      /\ Append(w, l)[Len(w) + 1] = l
      /\ \A i \in DOMAIN w : i \in DOMAIN Append(w, l) /\ Append(w, l)[i] = w[i]
  OBVIOUS
<1> DEFINE x == Append(w, l)
<1> HIDE DEF x
<1>2. BeginsClosed(x)
  <2> SUFFICES ASSUME NEW i \in DOMAIN x, x[i].kind = "app-begin"
               PROVE  \E j \in DOMAIN x : j > i /\ x[j].kind = "app-end"
    BY DEF BeginsClosed
  <2>1. i \in DOMAIN w
    BY <1>1 DEF x
  <2>2. w[i].kind = "app-begin"
    BY <1>1, <2>1 DEF x
  <2>3. PICK j \in DOMAIN w : j > i /\ w[j].kind = "app-end"
    BY <2>1, <2>2 DEF BeginsClosed
  <2> QED BY <1>1, <2>3 DEF x
<1>3. EndOn(w) => EndOn(x)
  BY <1>1 DEF EndOn, x
<1> QED BY <1>2, <1>3 DEF x

LEMMA EndStep == ASSUME TypeOK, EndInv, [Next]_vars PROVE EndInv'
<1>1. ASSUME UNCHANGED <<whole, at, wire, uploading>> PROVE EndInv'
  BY <1>1 DEF EndInv, BeginsClosed, EndOn
<1>2. ASSUME LineRefused \/ UploadOverflows \/ UploadEnds \/ UploadGrows \/ UploadBegins
             \/ CommandRm \/ CommandCheck \/ CommandOther
      PROVE  EndInv'
  <2>1. Took /\ UNCHANGED <<whole, at>>
    BY <1>2 DEF LineRefused, UploadOverflows, UploadEnds, UploadGrows, UploadBegins,
         CommandRm, CommandCheck, CommandOther, hostVars, historyVars
  <2>2. \/ ~uploading'
        \/ line.kind # "app-end" /\ uploading
        \/ line.kind = "app-begin"
    BY <1>2 DEF LineRefused, UploadOverflows, UploadEnds, UploadGrows, UploadBegins,
         CommandRm, CommandCheck, CommandOther, StopsUploading, boardVars
  <2>3. CASE whole
    BY <2>1, <2>2, <2>3, TookEnd DEF EndInv
  <2>4. CASE ~whole
    BY <2>1, <2>4 DEF EndInv
  <2> QED BY <2>3, <2>4
<1>3. CASE ScriptRuns
  BY <1>1, <1>3 DEF ScriptRuns, hostVars, boardVars, lineVars
<1>4. CASE PowerCycle
  <2>1. wire' = << >> /\ ~uploading' /\ UNCHANGED <<whole, at>>
    BY <1>4 DEF PowerCycle, StopsUploading, hostVars
  <2>2. BeginsClosed(wire')
    BY <2>1 DEF BeginsClosed
  <2> QED BY <2>1, <2>2 DEF EndInv
<1>5. CASE PushStarts \/ PersonTypes
  BY <1>5 DEF PushStarts, PersonTypes, EndInv
<1>6. CASE SendsLine
  BY <1>6 DEF SendsLine, EndInv
<1>7. CASE SendsEnd
  <2>1. PICK end \in Line : end = Say("app-end", job.path)
    BY SayIsLine DEF TypeOK
  <2>2. at' = "ended" /\ (whole' => wire' = Append(wire, end))
    BY <1>7, <2>1 DEF SendsEnd
  <2> SUFFICES ASSUME whole' PROVE BeginsClosed(wire') /\ EndOn(wire')
    BY <2>2 DEF EndInv
  <2>3. wire \in Seq(Line) /\ wire' = Append(wire, end) /\ end.kind = "app-end"
    BY <2>1, <2>2 DEF TypeOK, Say
  <2>4. DOMAIN wire' = 1..Len(wire)+1 /\ Len(wire) \in Nat /\ wire'[Len(wire) + 1] = end
    BY <2>3
  <2>5. \A i \in DOMAIN wire' : i = Len(wire) + 1 \/ Len(wire) + 1 > i
    BY <2>4
  <2> QED BY <2>3, <2>4, <2>5 DEF BeginsClosed, EndOn
<1>8. CASE SendsCheck
  <2>1. UNCHANGED <<whole, uploading>> /\ at' = "checking"
    BY <1>8 DEF SendsCheck, boardVars
  <2>2. PICK l \in Line : l.kind # "app-begin" /\ wire' \in {wire, Append(wire, l)}
    <3>1. Say("check", job.path) \in Line /\ Junk \in Line
      BY SayIsLine DEF TypeOK
    <3>2. Say("check", job.path).kind # "app-begin" /\ Junk.kind # "app-begin"
      BY DEF Say, Junk
    <3>3. wire' \in {wire, Append(wire, Say("check", job.path)), Append(wire, Junk)}
      BY <1>8, <3>1, TransmitFacts DEF SendsCheck
    <3> QED BY <3>1, <3>2, <3>3
  <2>3. wire \in Seq(Line)
    BY DEF TypeOK
  <2> QED BY <2>1, <2>2, <2>3, OtherLine DEF EndInv
<1>9. CASE GetsReply \/ GetsNoReply \/ LeavesUnverified \/ Interrupted
  <2>1. UNCHANGED <<whole, wire, uploading>> /\ at' = "idle"
    BY <1>9 DEF GetsReply, GetsNoReply, LeavesUnverified, Interrupted, lineVars,
         boardVars, historyVars
  <2> QED BY <2>1 DEF EndInv, BeginsClosed, EndOn
<1>10. CASE UNCHANGED vars
  BY <1>1, <1>10 DEF vars, hostVars, boardVars, lineVars, historyVars
<1> QED BY <1>2, <1>3, <1>4, <1>5, <1>6, <1>7, <1>8, <1>9, <1>10 DEF Next

\* An app-end that arrived always gives the board back to its commands, however
\* slow it is and whatever happened to the lines before.
THEOREM EndIsHeeded == Spec => []EndLeavesUpload
<1>1. Init => EndInv
  BY DEF Init, EndInv
<1>2. TypeOK /\ EndInv /\ [Next]_vars => EndInv'
  BY EndStep
<1> QED BY <1>1, <1>2, EndInvMeans, PushTypes, PTL DEF Spec

-----------------------------------------------------------------------------
(* A healthy push.                                                         *)

\* The lines of a push, app-begin first, and how many of them have been sent
\* and taken by the board.
StreamLine(i) ==
  IF i = 1 THEN Say("app-begin", job.path)
  ELSE IF i = Len(job.text) + 2 THEN Say("app-end", job.path)
  ELSE job.text[i - 1]
SentLines == IF at = "sending" THEN sent + 1 ELSE Len(job.text) + 2
Taken == SentLines - Len(wire)

\* What the board has made of the first k lines.
BoardHas(k) ==
  /\ k = 0 => ~uploading
  /\ k \in 1..Len(job.text) + 1 =>
       /\ uploading /\ uploadPath = job.path
       /\ Len(upload) = k - 1 /\ \A i \in 1..(k - 1) : upload[i] = job.text[i]
  /\ k = Len(job.text) + 2 => ~uploading /\ FsRead(job.path) = job.text

\* The wire carries the lines the board has yet to take, in their order.
Streams ==
  /\ Taken \in Nat
  /\ \A i \in 1..Len(wire) : wire[i] = StreamLine(Taken + i)
  /\ BoardHas(Taken)

\* The file is there, and is asked for or answered with.
Answers ==
  /\ ~uploading /\ FsRead(job.path) = job.text
  /\ \/ wire = <<Say("check", job.path)>> /\ replies = << >>
     \/ wire = << >> /\ replies = <<job.text>>

\* A push during which nothing went wrong and that is still going on.
SmoothInv ==
  /\ HealthyPushVerifies
  /\ smooth /\ at # "idle" =>
       /\ Suitable(job.path, job.text)
       /\ at = "sending" => sent <= Len(job.text)
       /\ at \in {"sending", "ended"} => Streams
       /\ at = "checking" => Answers

\* The line taken is the next of the push.
LEMMA TookNext ==
  ASSUME TypeOK, Took, Streams, at \in {"sending", "ended"},
         at = "sending" => sent <= Len(job.text), UNCHANGED <<at, job, sent>>,
         NEW k \in Nat, k = Taken + 1
  PROVE  /\ k \in 1..Len(job.text) + 2 /\ Taken' = k
         /\ line = StreamLine(k)
         /\ BoardHas(k)' => Streams'
<1>1. /\ Len(wire) \in Nat \ {0} /\ Len(wire') = Len(wire) - 1 /\ line = wire[1]
      /\ \A i \in 1..Len(wire') : wire'[i] = wire[i + 1]
  BY TookFacts
<1>2. Len(job.text) \in Nat /\ sent \in Nat
  BY DEF TypeOK, Text
<1>3. SentLines \in 0..Len(job.text) + 2 /\ SentLines' = SentLines
  BY <1>2 DEF SentLines
<1>4. Taken \in Nat /\ k \in 1..Len(job.text) + 2 /\ Taken' = k
  BY <1>1, <1>2, <1>3 DEF Taken, Streams
<1>5. line = StreamLine(k)
  BY <1>1 DEF Streams
<1>6. ASSUME NEW i \in 1..Len(wire') PROVE wire'[i] = StreamLine(k + i)
  <2>1. i + 1 \in 1..Len(wire) /\ wire'[i] = wire[i + 1]
    BY <1>1
  <2>2. wire'[i] = StreamLine(Taken + (i + 1))
    BY <2>1 DEF Streams
  <2>3. Taken + (i + 1) = k + i
    BY <1>4
  <2> QED BY <2>2, <2>3
<1>7. \A n : StreamLine(n)' = StreamLine(n)
  BY DEF StreamLine
<1>8. \A i \in 1..Len(wire') : wire'[i] = StreamLine(k + i)'
  BY <1>6, <1>7
<1>9. ASSUME BoardHas(k)' PROVE Streams'
  <2>1. Taken' \in Nat
    BY <1>4
  <2>2. (BoardHas(Taken))'
    BY <1>4, <1>9 DEF BoardHas
  <2>3. (\A i \in 1..Len(wire) : wire[i] = StreamLine(Taken + i))'
    BY <1>4, <1>8 DEF StreamLine
  <2> QED BY <2>1, <2>2, <2>3 DEF Streams
<1> QED BY <1>4, <1>5, <1>9

\* The board takes a line of a healthy push: it collects the script and writes it.
LEMMA StreamTaken ==
  ASSUME TypeOK, SmoothInv, ~CardMayFill, smooth, smooth', at \in {"sending", "ended"},
         \/ LineRefused \/ UploadOverflows \/ UploadEnds \/ UploadGrows
         \/ UploadBegins \/ CommandRm \/ CommandCheck \/ CommandOther
  PROVE  Streams'
<1>1. /\ Took /\ Streams /\ Suitable(job.path, job.text)
      /\ at = "sending" => sent <= Len(job.text)
      /\ UNCHANGED <<at, job, sent>>
  BY DEF SmoothInv, LineRefused, UploadOverflows, UploadEnds, UploadGrows, UploadBegins,
         CommandRm, CommandCheck, CommandOther, hostVars
<1>2. PICK k \in Nat : k = Taken + 1
  BY <1>1 DEF Streams
<1>3. /\ k \in 1..Len(job.text) + 2 /\ Taken' = k /\ line = StreamLine(k)
      /\ BoardHas(k)' => Streams'
  BY <1>1, <1>2, TookNext
<1>4. job.text \in Seq(Line) /\ Len(job.text) \in Nat /\ upload \in Seq(Line)
      /\ job.path \in Path /\ MaxUpload \in Nat
  BY DEF TypeOK, Text
<1>5. Taken = k - 1 /\ BoardHas(Taken)
  BY <1>1, <1>2 DEF Streams
<1>6. k = 1 <=> ~uploading
  BY <1>3, <1>4, <1>5 DEF BoardHas
<1>7. k # 1 => /\ uploadPath = job.path
               /\ Len(upload) = k - 2 /\ \A i \in 1..(k - 2) : upload[i] = job.text[i]
  BY <1>3, <1>4, <1>5 DEF BoardHas
<1>8. k # 1 => ~Overflows
  <2>1. k # 1 => Len(upload) <= Len(job.text)
    BY <1>3, <1>4, <1>7
  <2> QED BY <1>1, <1>4, <2>1 DEF Suitable, Size, LineLen, Overflows
<1>9. CASE LineRefused
  BY <1>9 DEF LineRefused, Fault
<1>10. CASE UploadOverflows
  BY <1>6, <1>8, <1>10 DEF UploadOverflows
<1>11. CASE UploadEnds
  <2>1. k # 1 /\ line.kind = "app-end"
    BY <1>6, <1>11 DEF UploadEnds
  <2>2. k = Len(job.text) + 2
    <3> SUFFICES ASSUME k # Len(job.text) + 2 PROVE FALSE
      OBVIOUS
    <3>1. k - 1 \in DOMAIN job.text
      BY <1>3, <1>4, <2>1
    <3>2. line = job.text[k - 1]
      BY <1>3, <2>1 DEF StreamLine
    <3> QED BY <1>1, <2>1, <3>1, <3>2 DEF Suitable
  <2>3. upload = job.text
    BY <1>4, <1>7, <2>1, <2>2
  <2>4. Reachable(job.path) /\ WriteScript(job.path, job.text)
    BY <1>1, <1>7, <1>11, <2>1, <2>3 DEF UploadEnds, Suitable, Fault
  <2>5. UNCHANGED mounted /\ Put(job.path, job.text)
    BY <2>4 DEF WriteScript, Stored
  <2>6. Resolve(job.path) \in FileSystems /\ job.path.name \in Names
    BY <1>4 DEF Resolve, FileSystems, Path
  <2>7. files'[Resolve(job.path)][job.path.name] = job.text
    BY <2>5, <2>6 DEF Put, TypeOK, StorageTypeOK
  <2>8. FsRead(job.path)' = job.text
    <3>1. job.text # NoText /\ Size(job.text) <= MaxRead
      BY <1>1, <1>4 DEF Suitable, Text
    <3>2. Resolve(job.path)' = Resolve(job.path) /\ Resolve(job.path) \in mounted'
      BY <1>1, <2>4, <2>5 DEF Resolve, Reachable
    <3> QED BY <1>1, <2>7, <3>1, <3>2 DEF FsRead, Content
  <2>9. ~uploading'
    BY <1>11 DEF UploadEnds, StopsUploading
  <2>10. BoardHas(k)'
    BY <1>1, <1>4, <2>2, <2>8, <2>9 DEF BoardHas
  <2> QED BY <1>3, <2>10
<1>12. CASE UploadGrows
  <2>1. k # 1 /\ line.kind # "app-end"
    BY <1>6, <1>12 DEF UploadGrows
  <2>2. k # Len(job.text) + 2
    BY <1>3, <1>4, <2>1 DEF StreamLine, Say
  <2>3. line = job.text[k - 1]
    BY <1>3, <2>1, <2>2 DEF StreamLine
  <2>4. uploading' /\ uploadPath' = job.path /\ upload' = Append(upload, line)
    BY <1>6, <1>7, <1>12, <2>1 DEF UploadGrows
  <2>5. Len(upload') = k - 1 /\ \A i \in 1..(k - 1) : upload'[i] = job.text[i]
    <3>1. line \in Line
      BY <1>1, TookFacts
    <3>2. Len(upload') = k - 1 /\ upload'[k - 1] = line
          /\ \A i \in 1..(k - 2) : upload'[i] = upload[i]
      BY <1>3, <1>4, <1>7, <2>1, <2>4, <3>1
    <3>3. \A i \in 1..(k - 1) : i = k - 1 \/ i \in 1..(k - 2)
      BY <1>3
    <3> QED BY <1>7, <2>1, <2>3, <3>2, <3>3
  <2>6. BoardHas(k)'
    BY <1>1, <1>3, <1>4, <2>1, <2>2, <2>4, <2>5 DEF BoardHas
  <2> QED BY <1>3, <2>6
<1>13. CASE UploadBegins
  <2>1. k = 1 /\ line = Say("app-begin", job.path)
    BY <1>3, <1>6, <1>13 DEF UploadBegins, StreamLine
  <2>2. uploading' /\ upload' = << >> /\ uploadPath' = job.path
    BY <1>13, <2>1 DEF UploadBegins, Say
  <2>3. BoardHas(k)'
    BY <1>1, <1>4, <2>1, <2>2 DEF BoardHas
  <2> QED BY <1>3, <2>3
<1>14. CASE CommandRm \/ CommandCheck \/ CommandOther
  <2>1. k = 1 /\ line.kind # "app-begin"
    BY <1>6, <1>14 DEF CommandRm, CommandCheck, CommandOther, Commands
  <2>2. line = Say("app-begin", job.path)
    BY <1>3, <2>1 DEF StreamLine
  <2> QED BY <2>1, <2>2 DEF Say
<1> QED BY <1>9, <1>10, <1>11, <1>12, <1>13, <1>14

\* The board takes the line that asks for the file, and answers with it.
LEMMA CheckTaken ==
  ASSUME TypeOK, SmoothInv, smooth, smooth', at = "checking",
         \/ LineRefused \/ UploadOverflows \/ UploadEnds \/ UploadGrows
         \/ UploadBegins \/ CommandRm \/ CommandCheck \/ CommandOther
  PROVE  Answers'
<1>1. Took /\ Answers /\ UNCHANGED job
  BY DEF SmoothInv, LineRefused, UploadOverflows, UploadEnds, UploadGrows, UploadBegins,
         CommandRm, CommandCheck, CommandOther, hostVars
<1>2. /\ ~uploading /\ FsRead(job.path) = job.text /\ replies = << >>
      /\ wire = <<Say("check", job.path)>>
  BY <1>1 DEF Answers, Took
<1>3. line = Say("check", job.path) /\ wire' = << >>
  BY <1>1, <1>2 DEF Took, line
<1>4. CommandCheck
  BY <1>2, <1>3 DEF LineRefused, Fault, UploadOverflows, UploadEnds, UploadGrows,
     UploadBegins, CommandRm, CommandOther, Commands, Say
<1>5. job.text # NoText
  BY DEF TypeOK
<1>6. replies' = <<job.text>> /\ ~uploading'
  <2>1. line.path = job.path
    BY <1>3 DEF Say
  <2> DEFINE r == FsRead(job.path)
  <2>2. replies' = Append(<< >>, r) /\ r = job.text
    BY <1>2, <1>4, <1>5, <2>1 DEF CommandCheck
  <2>3. ~uploading'
    BY <1>2, <1>4 DEF CommandCheck, boardVars
  <2> HIDE DEF r
  <2> QED BY <2>2, <2>3
<1>7. FsRead(job.path)' = FsRead(job.path)
  BY <1>1, <1>4 DEF CommandCheck, storageVars, FsRead, Content, Resolve
<1> QED BY <1>1, <1>2, <1>3, <1>6, <1>7 DEF Answers

\* The app may run as long as it leaves the file alone.
LEMMA AppElsewhere ==
  ASSUME TypeOK, ScriptRuns, smooth'
  PROVE  UNCHANGED mounted /\ FsRead(job.path)' = FsRead(job.path)
<1>1. PICK p \in Path :
        /\ p.name # job.path.name
        /\ \/ \E t \in ScriptTexts : ScriptWrites(p, t) \/ ScriptAppends(p, t)
           \/ Removes(p)
           \/ ScriptMakesFolder(p)
  BY DEF ScriptRuns
<1>2. UNCHANGED mounted /\ (UNCHANGED files \/ \E t : Put(p, t))
  BY <1>1 DEF ScriptWrites, ScriptAppends, Removes, ScriptMakesFolder
<1>3. job.path \in Path /\ files \in [FileSystems -> [Names -> Text \cup {NoText}]]
  BY DEF TypeOK, StorageTypeOK
<1>4. Resolve(job.path) \in FileSystems /\ job.path.name \in Names
  BY <1>3 DEF Resolve, FileSystems, Path
<1>5. Resolve(p) \in FileSystems /\ p.name \in Names
  BY DEF Resolve, FileSystems, Path
<1>6. ASSUME NEW t, Put(p, t)
      PROVE  files'[Resolve(job.path)][job.path.name] = files[Resolve(job.path)][job.path.name]
  BY <1>1, <1>3, <1>4, <1>5, <1>6 DEF Put
<1>7. files'[Resolve(job.path)][job.path.name] = files[Resolve(job.path)][job.path.name]
  BY <1>2, <1>6
<1>8. UNCHANGED job
  BY DEF ScriptRuns, hostVars
<1> QED BY <1>2, <1>7, <1>8 DEF FsRead, Content, Resolve

\* The next line of a push goes out, and arrives: the wire carries one more.
LEMMA StreamSent ==
  ASSUME TypeOK, Streams, UNCHANGED <<boardVars, job>>, FsRead(job.path)' = FsRead(job.path),
         SentLines \in Nat, SentLines' = SentLines + 1, NEW l \in Line,
         l = StreamLine(SentLines + 1), wire' = Append(wire, l)
  PROVE  Streams'
<1>1. wire \in Seq(Line)
  BY DEF TypeOK
<1>2. Len(wire') = Len(wire) + 1 /\ Len(wire) \in Nat /\ wire'[Len(wire) + 1] = l
      /\ \A i \in 1..Len(wire) : wire'[i] = wire[i]
  BY <1>1
<1>3. Taken \in Nat /\ Taken' = Taken /\ Taken + Len(wire) = SentLines
  BY <1>2 DEF Streams, Taken
<1>4. ASSUME NEW i \in 1..Len(wire') PROVE wire'[i] = StreamLine(Taken + i)
  <2>1. CASE i = Len(wire) + 1
    <3>1. Taken + i = SentLines + 1
      BY <1>2, <1>3, <2>1
    <3> QED BY <1>2, <2>1, <3>1
  <2>2. CASE i \in 1..Len(wire)
    BY <1>2, <2>2 DEF Streams
  <2> QED BY <1>2, <2>1, <2>2
<1>5. (\A i \in 1..Len(wire) : wire[i] = StreamLine(Taken + i))'
  BY <1>3, <1>4 DEF StreamLine
<1>6. BoardHas(Taken)'
  BY <1>3 DEF Streams, BoardHas, boardVars
<1> QED BY <1>3, <1>5, <1>6 DEF Streams

\* Nothing happens to the push.
LEMMA SmoothStays ==
  ASSUME SmoothInv, smooth' => smooth, UNCHANGED <<at, job, sent, verdict>>,
         UNCHANGED <<wire, replies, uploading, upload, uploadPath, mounted>>,
         smooth' => FsRead(job.path)' = FsRead(job.path)
  PROVE  SmoothInv'
<1>1. HealthyPushVerifies'
  BY DEF SmoothInv, HealthyPushVerifies
<1> SUFFICES ASSUME smooth', at # "idle"
             PROVE  /\ Suitable(job.path, job.text)'
                    /\ at = "sending" => sent <= Len(job.text)
                    /\ at \in {"sending", "ended"} => Streams'
                    /\ at = "checking" => Answers'
  BY <1>1 DEF SmoothInv
<1>2. Suitable(job.path, job.text)'
  BY DEF SmoothInv, Suitable, Reachable, Resolve
<1>3. at = "sending" => sent <= Len(job.text)
  BY DEF SmoothInv
<1>4. ASSUME at \in {"sending", "ended"} PROVE Streams'
  BY <1>4 DEF SmoothInv, Streams, Taken, SentLines, StreamLine, BoardHas
<1>5. ASSUME at = "checking" PROVE Answers'
  BY <1>5 DEF SmoothInv, Answers
<1> QED BY <1>2, <1>3, <1>4, <1>5

LEMMA SmoothStep ==
  ASSUME TypeOK, SmoothInv, ~SlowBoard, ~CardMayFill, [Next]_vars PROVE SmoothInv'
<1>t. /\ job.text \in Seq(Line) /\ Len(job.text) \in Nat /\ job.path \in Path /\ sent \in Nat
      /\ job.text # NoText /\ wire \in Seq(Line)
  BY DEF TypeOK, Text
<1>1. ASSUME LineRefused \/ UploadOverflows \/ UploadEnds \/ UploadGrows \/ UploadBegins
             \/ CommandRm \/ CommandCheck \/ CommandOther
      PROVE  SmoothInv'
  <2>1. UNCHANGED <<at, job, sent, verdict>> /\ UNCHANGED mounted
    BY <1>1 DEF LineRefused, UploadOverflows, UploadEnds, UploadGrows, UploadBegins,
         CommandRm, CommandCheck, CommandOther, hostVars, storageVars, WriteScript,
         WriteScriptFails, Removes
  <2>2. smooth' => smooth
    BY <1>1, Zenon DEF LineRefused, UploadOverflows, UploadEnds, UploadGrows, UploadBegins,
         CommandRm, CommandCheck, CommandOther, historyVars, Fault
  <2>3. HealthyPushVerifies'
    BY <2>1, <2>2 DEF SmoothInv, HealthyPushVerifies
  <2>4. Suitable(job.path, job.text)' <=> Suitable(job.path, job.text)
    BY <2>1 DEF Suitable, Reachable, Resolve
  <2>5. smooth' /\ at \in {"sending", "ended"} => Streams'
    BY <1>1, <2>2, StreamTaken
  <2>6. smooth' /\ at = "checking" => Answers'
    BY <1>1, <2>2, CheckTaken
  <2> QED BY <2>1, <2>2, <2>3, <2>4, <2>5, <2>6 DEF SmoothInv
<1>2. CASE ScriptRuns
  <2>1. smooth' => smooth
    BY <1>2, Zenon DEF ScriptRuns
  <2>2. UNCHANGED <<at, job, sent, verdict, wire, replies, uploading, upload, uploadPath>>
    BY <1>2 DEF ScriptRuns, hostVars, boardVars, lineVars
  <2>3. UNCHANGED mounted
    BY <1>2 DEF ScriptRuns, ScriptWrites, ScriptAppends, Removes, ScriptMakesFolder
  <2> QED BY <1>2, <2>1, <2>2, <2>3, AppElsewhere, SmoothStays
<1>3. ASSUME ~smooth' PROVE SmoothInv'
  BY <1>3 DEF SmoothInv, HealthyPushVerifies
<1>4. CASE PowerCycle \/ Interrupted \/ PersonTypes
  BY <1>3, <1>4 DEF PowerCycle, Interrupted, PersonTypes, Fault
<1>5. CASE PushStarts
  <2>1. verdict' = "none" /\ at' = "sending" /\ sent' = 0
    BY <1>5 DEF PushStarts
  <2> SUFFICES ASSUME smooth' PROVE SmoothInv'
    BY <1>3
  <2>2. /\ wire' = Append(wire, Say("app-begin", job'.path)) /\ wire = << >>
        /\ ~uploading /\ Suitable(job'.path, job'.text)
    BY <1>5 DEF PushStarts, Fault
  <2>3. UNCHANGED mounted /\ ~uploading'
    BY <1>5, <2>2 DEF PushStarts, storageVars, boardVars
  <2>4. Suitable(job.path, job.text)'
    BY <2>2, <2>3 DEF Suitable, Reachable, Resolve
  <2>5. job' \in [path: Path, text: Text]
    BY <1>5 DEF PushStarts
  <2>6. Len(job'.text) \in Nat /\ Say("app-begin", job'.path) \in Line
    BY <2>5, SayIsLine DEF Text
  <2>7. Len(wire') = 1 /\ wire'[1] = Say("app-begin", job'.path)
    <3>1. PICK l \in Line : l = Say("app-begin", job'.path)
      BY <2>6
    <3>2. wire' = Append(<< >>, l)
      BY <2>2, <3>1
    <3>3. Len(wire') = 1 /\ wire'[1] = l
      BY <3>2
    <3> QED BY <3>1, <3>3
  <2>8. Taken' = 0
    BY <2>1, <2>7 DEF Taken, SentLines
  <2>9. (\A i \in 1..Len(wire) : wire[i] = StreamLine(Taken + i))'
    BY <2>7, <2>8 DEF StreamLine
  <2>10. BoardHas(Taken)'
    BY <2>3, <2>6, <2>8 DEF BoardHas
  <2>11. Streams'
    BY <2>8, <2>9, <2>10 DEF Streams
  <2> QED BY <2>1, <2>4, <2>6, <2>11 DEF SmoothInv, HealthyPushVerifies
<1>6. CASE SendsLine \/ SendsEnd
  <2> SUFFICES ASSUME smooth' PROVE SmoothInv'
    BY <1>3
  <2>1. /\ at = "sending" /\ UNCHANGED <<job, verdict, boardVars, storageVars>>
        /\ smooth /\ at' \in {"sending", "ended"}
    BY <1>6 DEF SendsLine, SendsEnd, Transmit, Fault
  <2>2. Streams /\ Suitable(job.path, job.text) /\ sent <= Len(job.text)
    BY <2>1 DEF SmoothInv
  <2>3. SentLines = sent + 1
    BY <2>1 DEF SentLines
  <2>4. PICK l \in Line : l = StreamLine(SentLines + 1) /\ wire' = Append(wire, l)
    <3>1. CASE SendsLine
      <4>1. sent < Len(job.text) /\ wire' = Append(wire, job.text[sent + 1])
        BY <3>1 DEF SendsLine, Transmit, Fault
      <4>2. job.text[sent + 1] \in Line
        BY <1>t, <4>1
      <4>3. StreamLine(SentLines + 1) = job.text[sent + 1]
        BY <1>t, <2>3, <4>1 DEF StreamLine
      <4> QED BY <4>1, <4>2, <4>3
    <3>2. CASE SendsEnd
      <4>1. sent = Len(job.text) /\ wire' = Append(wire, Say("app-end", job.path))
        BY <3>2 DEF SendsEnd, Transmit, Fault
      <4>2. StreamLine(SentLines + 1) = Say("app-end", job.path)
        BY <1>t, <2>3, <4>1 DEF StreamLine
      <4> QED BY <1>t, <4>1, <4>2, SayIsLine
    <3> QED BY <1>6, <3>1, <3>2
  <2>5. SentLines' = SentLines + 1
    BY <1>6, <1>t, <2>1, <2>3 DEF SendsLine, SendsEnd, SentLines
  <2>6. FsRead(job.path)' = FsRead(job.path)
    BY <2>1 DEF FsRead, Content, Resolve, storageVars
  <2>7. Streams'
    BY <1>t, <2>1, <2>2, <2>3, <2>4, <2>5, <2>6, StreamSent
  <2>8. Suitable(job.path, job.text)'
    BY <2>1, <2>2 DEF Suitable, Reachable, Resolve, storageVars
  <2>9. at' = "sending" => sent' <= Len(job'.text)
    BY <1>6, <1>t, <2>1 DEF SendsLine, SendsEnd
  <2>10. HealthyPushVerifies'
    BY <2>1 DEF SmoothInv, HealthyPushVerifies
  <2> QED BY <2>1, <2>7, <2>8, <2>9, <2>10 DEF SmoothInv
<1>7. CASE SendsCheck
  <2> SUFFICES ASSUME smooth' PROVE SmoothInv'
    BY <1>3
  <2>1. /\ at = "ended" /\ at' = "checking" /\ wire = << >> /\ replies' = << >>
        /\ UNCHANGED <<job, verdict, boardVars, storageVars>> /\ smooth
        /\ wire' = Append(wire, Say("check", job.path))
    BY <1>7 DEF SendsCheck, Pause, Transmit, Fault
  <2>2. Streams /\ Suitable(job.path, job.text)
    BY <2>1 DEF SmoothInv
  <2>3. Taken = Len(job.text) + 2
    BY <1>t, <2>1 DEF Taken, SentLines
  <2>4. ~uploading /\ FsRead(job.path) = job.text
    BY <1>t, <2>2, <2>3 DEF Streams, BoardHas
  <2>5. FsRead(job.path)' = FsRead(job.path)
    BY <2>1 DEF FsRead, Content, Resolve, storageVars
  <2>6. wire' = <<Say("check", job.path)>>
    <3>1. PICK l \in Line : l = Say("check", job.path)
      BY <1>t, SayIsLine
    <3>2. wire' = Append(<< >>, l)
      BY <2>1, <3>1
    <3>3. wire' = <<l>>
      BY <3>2
    <3> QED BY <3>1, <3>3
  <2>7. Answers'
    BY <2>1, <2>4, <2>5, <2>6 DEF Answers, boardVars
  <2>8. Suitable(job.path, job.text)'
    BY <2>1, <2>2 DEF Suitable, Reachable, Resolve, storageVars
  <2>9. HealthyPushVerifies'
    BY <2>1 DEF SmoothInv, HealthyPushVerifies
  <2> QED BY <2>1, <2>7, <2>8, <2>9 DEF SmoothInv
<1>8. CASE GetsReply
  <2>1. at = "checking" /\ at' = "idle" /\ UNCHANGED smooth /\ replies # << >>
    BY <1>8 DEF GetsReply, historyVars
  <2>2. smooth => Head(replies) = job.text
    BY <2>1 DEF SmoothInv, Answers
  <2> QED BY <1>8, <2>1, <2>2 DEF GetsReply, SmoothInv, HealthyPushVerifies
<1>9. CASE GetsNoReply
  <2>1. at = "checking" /\ wire = << >> /\ replies = << >> /\ UNCHANGED smooth
    BY <1>9 DEF GetsNoReply, Pause, historyVars
  <2>2. ~smooth
    BY <2>1 DEF SmoothInv, Answers
  <2> QED BY <1>3, <2>1, <2>2
<1>10. CASE LeavesUnverified
  <2>1. at' = "idle" /\ UNCHANGED <<verdict, smooth>>
    BY <1>10 DEF LeavesUnverified, historyVars
  <2> QED BY <2>1 DEF SmoothInv, HealthyPushVerifies
<1>11. CASE UNCHANGED vars
  <2>1. UNCHANGED <<at, job, sent, verdict, wire, replies, uploading, upload, uploadPath, mounted,
                    files, smooth>>
    BY <1>11 DEF vars, hostVars, boardVars, lineVars, storageVars, historyVars
  <2>2. FsRead(job.path)' = FsRead(job.path)
    BY <2>1 DEF FsRead, Content, Resolve
  <2> QED BY <2>1, <2>2, SmoothStays
<1> QED BY <1>1, <1>2, <1>4, <1>5, <1>6, <1>7, <1>8, <1>9, <1>10, <1>11 DEF Next

\* push.ps1 raises no false alarm: with pauses that are long enough and a card
\* with room, a suitable script is verified whenever nothing went wrong.
THEOREM HealthyIsVerified == ASSUME ~SlowBoard, ~CardMayFill PROVE Spec => []HealthyPushVerifies
<1>1. Init => SmoothInv
  BY DEF Init, SmoothInv, HealthyPushVerifies
<1>2. SmoothInv => HealthyPushVerifies
  BY DEF SmoothInv
<1>3. TypeOK /\ SmoothInv /\ [Next]_vars => SmoothInv'
  BY SmoothStep
<1> QED BY <1>1, <1>2, <1>3, PushTypes, PTL DEF Spec
=============================================================================
